---------------------------- MODULE VisitantesProofs ----------------------------
(***************************************************************************)
(* What a visitor does and sees, for any number of calls at work at once.  *)
(* CacheMemoria: a read gives what was published.  Resenas: a review shows *)
(* the answer that was given to its words.  Busquedas: the searches that   *)
(* share a list count each of its results once.  Conversacion: the user    *)
(* has one conversation open and the clean-up takes none that is being     *)
(* written; every message leaves its two turns; and no question is taken   *)
(* as answered twice.  Buzon: what was sent is in the inboxes, and what    *)
(* was read stays read.  Novedades: a summary is of the favourites there   *)
(* are, and a promotion is announced.  Soporte: a ticket is as whoever     *)
(* attended it was told.  Each component has an inductive invariant of its *)
(* own.                                                                    *)
(***************************************************************************)
EXTENDS Conversacion, CacheMemoria, Resenas, Busquedas, Buzon, Novedades, Soporte, Sumas,
        FiniteSetTheorems, TLAPS

--------------------
(* CacheMemoria.  The store is a sequence, in the order of last use.        *)
USE CacheAssumption DEF CacheAssumption

\* The places of Q, each once.
LEMMA PuestosDe ==
    ASSUME NEW Q, IsFiniteSet(Q), Q \subseteq Int
    PROVE  /\ Cardinality(Q) \in Nat
           /\ DOMAIN Puestos(Q) = 1 .. Cardinality(Q)
           /\ \A j \in 1 .. Cardinality(Q) : Puestos(Q)[j] \in Q
           /\ \A i \in Q : \E j \in 1 .. Cardinality(Q) : Puestos(Q)[j] = i
           /\ \A j, k \in 1 .. Cardinality(Q) : Puestos(Q)[j] = Puestos(Q)[k] => j = k
<1> DEFINE D == [i \in Q |-> {h \in Q : h < i}]
<1>0. Cardinality(Q) \in Nat  BY FS_CardinalityType
<1>1. D \in [Q -> SUBSET Q]  OBVIOUS
<1>2. \A i \in Q : i \notin D[i]  OBVIOUS
<1>3. \A i, j \in Q : i \in D[j] => D[i] \subseteq D[j]
  <2>1. ASSUME NEW i \in Q, NEW j \in Q, i \in D[j], NEW h \in D[i] PROVE h \in D[j]  BY <2>1
  <2> QED BY <2>1
<1>4. \A i, j \in Q : i = j \/ i \in D[j] \/ j \in D[i]  OBVIOUS
<1>5. \A i \in Q : D[i] = {h \in Q : h < i}  OBVIOUS
<1> HIDE DEF D
<1>6. /\ \A i, j \in Q : Cardinality(D[i]) = Cardinality(D[j]) => i = j
      /\ \A i \in Q : Cardinality(D[i]) \in 0 .. Cardinality(Q) - 1
      /\ \A n \in 0 .. Cardinality(Q) - 1 : \E i \in Q : Cardinality(D[i]) = n
  BY ONLY IsFiniteSet(Q), <1>1, <1>2, <1>3, <1>4, RangosDistintos
<1>7. DOMAIN Puestos(Q) = 1 .. Cardinality(Q)  BY DEF Puestos
<1>8. \A j \in 1 .. Cardinality(Q) :
        Puestos(Q)[j] = CHOOSE i \in Q : Cardinality({h \in Q : h < i}) = j - 1
  BY DEF Puestos
<1>9. ASSUME NEW j \in 1 .. Cardinality(Q)
      PROVE  Puestos(Q)[j] \in Q /\ Cardinality(D[Puestos(Q)[j]]) = j - 1
  <2>1. j - 1 \in 0 .. Cardinality(Q) - 1  BY <1>0
  <2>2. \E i \in Q : Cardinality(D[i]) = j - 1  BY <1>6, <2>1
  <2>3. \E i \in Q : Cardinality({h \in Q : h < i}) = j - 1  BY <1>5, <2>2
  <2>4. PICK x : x = Puestos(Q)[j]  OBVIOUS
  <2>5. x = CHOOSE i \in Q : Cardinality({h \in Q : h < i}) = j - 1  BY <1>8, <2>4
  <2>6. x \in Q /\ Cardinality({h \in Q : h < x}) = j - 1  BY <2>3, <2>5
  <2> QED BY <1>5, <2>4, <2>6
<1>10. \A i \in Q : \E j \in 1 .. Cardinality(Q) : Puestos(Q)[j] = i
  <2> SUFFICES ASSUME NEW i \in Q PROVE \E j \in 1 .. Cardinality(Q) : Puestos(Q)[j] = i  OBVIOUS
  <2>1. PICK n \in 0 .. Cardinality(Q) - 1 : n = Cardinality(D[i])  BY <1>6
  <2>2. n + 1 \in 1 .. Cardinality(Q) /\ n + 1 - 1 = n  BY <1>0
  <2>3. Puestos(Q)[n + 1] \in Q /\ Cardinality(D[Puestos(Q)[n + 1]]) = n  BY <1>9, <2>2
  <2> QED BY <1>6, <2>1, <2>2, <2>3
<1>11. \A j, k \in 1 .. Cardinality(Q) : Puestos(Q)[j] = Puestos(Q)[k] => j = k  BY <1>0, <1>9
<1> QED BY <1>0, <1>7, <1>9, <1>10, <1>11

--------------------
(* CacheMemoria: what the Map does to the entries and to their order of use. *)

ClavesUnaVez(s) == \A i, j \in DOMAIN s : s[i].clave = s[j].clave => i = j
\* The entries in the order of their last use.
Mapa(s, u) ==
    /\ s \in Seq(Entrada) /\ u \in Seq(Claves) /\ Len(u) = Len(s)
    /\ \A i \in 1 .. Len(s) : u[i] = s[i].clave
    /\ ClavesUnaVez(s)

LEMMA MapaUso ==
    ASSUME NEW s, NEW u, Mapa(s, u)
    PROVE  /\ ToSet(u) = {e.clave : e \in ToSet(s)} /\ Len(s) \in Nat
           /\ \A k : En(s, k) <=> k \in {e.clave : e \in ToSet(s)}
           /\ ToSet(s) \subseteq Entrada
<1>1. DOMAIN s = 1 .. Len(s) /\ DOMAIN u = 1 .. Len(s) /\ Len(s) \in Nat  BY DEF Mapa
<1> QED BY <1>1 DEF Mapa, ToSet, En

LEMMA QuitaDelMapa ==
    ASSUME NEW s, NEW u, Mapa(s, u), NEW K
    PROVE  /\ Mapa(Sin(s, K), SinUso(u, K))
           /\ ToSet(Sin(s, K)) = {e \in ToSet(s) : e.clave \notin K}
           /\ Len(Sin(s, K)) <= Len(s)
           /\ (\E e \in ToSet(s) : e.clave \in K) => Len(Sin(s, K)) < Len(s)
<1>1. PICK Q : Q = {i \in DOMAIN s : s[i].clave \notin K}  OBVIOUS
<1>2. DOMAIN s = 1 .. Len(s) /\ DOMAIN u = 1 .. Len(s) /\ Len(s) \in Nat
      /\ \A i \in DOMAIN s : s[i] \in Entrada /\ u[i] \in Claves /\ u[i] = s[i].clave
  BY DEF Mapa
<1>3. Q = {i \in DOMAIN u : u[i] \notin K}  BY <1>1, <1>2
<1>4. IsFiniteSet(1 .. Len(s)) /\ Cardinality(1 .. Len(s)) = Len(s)
  <2>1. PICK n \in Nat : n = Len(s)  BY <1>2
  <2>2. IsFiniteSet(1 .. n) /\ Cardinality(1 .. n) = IF 1 > n THEN 0 ELSE n - 1 + 1
    BY ONLY FS_Interval, 1 \in Int, n \in Int
  <2>3. Cardinality(1 .. n) = n  BY ONLY <2>2, n \in Nat
  <2> QED BY ONLY <2>1, <2>2, <2>3
<1>5. IsFiniteSet(Q) /\ Q \subseteq Int /\ Cardinality(Q) <= Len(s) /\ Q \subseteq 1 .. Len(s)
  <2>1. Q \subseteq 1 .. Len(s)  BY <1>1, <1>2
  <2>2. Cardinality(Q) <= Cardinality(1 .. Len(s)) /\ IsFiniteSet(Q)  BY ONLY <1>4, <2>1, FS_Subset
  <2> QED BY <1>4, <2>1, <2>2
<1>6. PICK p, n : p = Puestos(Q) /\ n = Cardinality(Q)  OBVIOUS
<1>7. /\ n \in Nat /\ DOMAIN p = 1 .. n /\ n <= Len(s)
      /\ \A j \in 1 .. n : p[j] \in Q
      /\ \A i \in Q : \E j \in 1 .. n : p[j] = i
      /\ \A j, k \in 1 .. n : p[j] = p[k] => j = k
  <2>1. IsFiniteSet(Q) /\ Q \subseteq Int  BY <1>5
  <2>2. /\ Cardinality(Q) \in Nat
        /\ DOMAIN Puestos(Q) = 1 .. Cardinality(Q)
        /\ \A j \in 1 .. Cardinality(Q) : Puestos(Q)[j] \in Q
        /\ \A i \in Q : \E j \in 1 .. Cardinality(Q) : Puestos(Q)[j] = i
        /\ \A j, k \in 1 .. Cardinality(Q) : Puestos(Q)[j] = Puestos(Q)[k] => j = k
    BY ONLY <2>1, PuestosDe
  <2> QED BY ONLY <1>5, <1>6, <2>2
<1>8. PICK t, v : t = Sin(s, K) /\ v = SinUso(u, K)  OBVIOUS
<1>9. t = [j \in 1 .. n |-> s[p[j]]] /\ v = [j \in 1 .. n |-> u[p[j]]]
  <2>1. t = Quedan(s, Q) /\ v = Quedan(u, Q)  BY ONLY <1>1, <1>3, <1>8 DEF Sin, SinUso
  <2>2. Quedan(s, Q) = [j \in 1 .. n |-> s[p[j]]] /\ Quedan(u, Q) = [j \in 1 .. n |-> u[p[j]]]
    BY ONLY <1>6, <1>7 DEF Quedan
  <2> QED BY <2>1, <2>2
<1>10. t \in Seq(Entrada) /\ v \in Seq(Claves) /\ Len(t) = n /\ Len(v) = n /\ DOMAIN t = 1 .. n
  BY <1>1, <1>2, <1>7, <1>9
<1>11. Mapa(t, v)  BY <1>1, <1>2, <1>7, <1>9, <1>10 DEF Mapa, ClavesUnaVez
<1>12. ToSet(t) = {e \in ToSet(s) : e.clave \notin K}
  <2>1. ToSet(t) \subseteq {e \in ToSet(s) : e.clave \notin K}  BY <1>1, <1>7, <1>9 DEF ToSet
  <2>2. ASSUME NEW e \in ToSet(s), e.clave \notin K PROVE e \in ToSet(t)
    <3>1. PICK i \in DOMAIN s : e = s[i]  BY DEF ToSet
    <3>2. PICK j \in 1 .. n : p[j] = i  BY <1>1, <1>7, <2>2, <3>1
    <3> QED BY <1>9, <3>1, <3>2 DEF ToSet
  <2> QED BY <2>1, <2>2
<1>13. ASSUME NEW e \in ToSet(s), e.clave \in K PROVE n < Len(s)
  <2>1. PICK i \in DOMAIN s : e = s[i]  BY DEF ToSet
  <2>2. Q # 1 .. Len(s)  BY <1>1, <1>2, <1>13, <2>1
  <2>3. Cardinality(Q) = Cardinality(1 .. Len(s)) => Q = 1 .. Len(s)  BY ONLY <1>4, <1>5, FS_Subset
  <2> QED BY <1>2, <1>4, <1>6, <1>7, <2>2, <2>3
<1> QED BY <1>7, <1>8, <1>10, <1>11, <1>12, <1>13

LEMMA AnadeAlMapa ==
    ASSUME NEW s, NEW u, Mapa(s, u), NEW e \in Entrada, ~En(s, e.clave)
    PROVE  /\ Mapa(Append(s, e), Append(u, e.clave))
           /\ ToSet(Append(s, e)) = ToSet(s) \cup {e}
           /\ Len(Append(s, e)) = Len(s) + 1
<1>1. DOMAIN s = 1 .. Len(s) /\ DOMAIN u = 1 .. Len(s) /\ Len(s) \in Nat /\ Len(u) = Len(s)
      /\ s \in Seq(Entrada) /\ u \in Seq(Claves) /\ e.clave \in Claves
  BY DEF Mapa, Entrada
<1>2. PICK t, v : t = Append(s, e) /\ v = Append(u, e.clave)  OBVIOUS
<1>3. /\ t \in Seq(Entrada) /\ v \in Seq(Claves) /\ Len(t) = Len(s) + 1 /\ Len(v) = Len(s) + 1
      /\ \A i \in 1 .. Len(s) : t[i] = s[i] /\ v[i] = u[i]
      /\ t[Len(s) + 1] = e /\ v[Len(s) + 1] = e.clave
      /\ DOMAIN t = 1 .. Len(s) + 1
  BY <1>1, <1>2
<1>4. \A i \in 1 .. Len(s) + 1 : i \in 1 .. Len(s) \/ i = Len(s) + 1  BY <1>1
<1>5. Mapa(t, v)  BY <1>3, <1>4, <1>1 DEF Mapa, ClavesUnaVez, En
<1>6. ToSet(t) = ToSet(s) \cup {e}  BY <1>1, <1>3, <1>4 DEF ToSet
<1> QED BY <1>2, <1>3, <1>5, <1>6

LEMMA CambiaEnElMapa ==
    ASSUME NEW s, NEW u, Mapa(s, u), NEW e \in Entrada, En(s, e.clave),
           NEW t, t = [i \in DOMAIN s |-> IF s[i].clave = e.clave THEN e ELSE s[i]]
    PROVE  Mapa(t, u) /\ ToSet(t) = {x \in ToSet(s) : x.clave # e.clave} \cup {e} /\ Len(t) = Len(s)
<1>1. DOMAIN s = 1 .. Len(s) /\ Len(s) \in Nat /\ \A i \in DOMAIN s : s[i] \in Entrada  BY DEF Mapa
<1>2. t \in Seq(Entrada) /\ Len(t) = Len(s) /\ DOMAIN t = 1 .. Len(s)  BY <1>1
<1>3. \A i \in DOMAIN s : t[i].clave = s[i].clave  BY <1>1
<1>4. Mapa(t, u)  BY <1>1, <1>2, <1>3 DEF Mapa, ClavesUnaVez
<1>5. ToSet(t) = {x \in ToSet(s) : x.clave # e.clave} \cup {e}  BY <1>1, <1>2 DEF ToSet, En
<1> QED BY <1>2, <1>4, <1>5

\* What a request that read nothing stale knows of the family of its key.
ClienteBien(w) ==
    /\ w.paso # "idle" => w.clave \in Claves
    /\ w.paso \in {"carga", "guarda"} => w.piso <= anunciado[Familia[w.clave]]
    /\ w.paso = "guarda" /\ w.clave \notin carrera => w.valor >= anunciado[Familia[w.clave]]
    /\ w.paso = "anuncia" => w.valor <= dato[Familia[w.clave]]
ClientesBien == \A c \in Clientes : ClienteBien(cliente[c])
EntradasAlDia == \A e \in ToSet(store) :
    e.clave \notin carrera => e.valor >= anunciado[Familia[e.clave]]
LoAnunciadoEsta == \A k \in Claves : anunciado[Familia[k]] <= dato[Familia[k]]
CacheForma ==
    /\ Mapa(store, uso) /\ Len(store) <= MaxEntries
    /\ dato \in [Familias -> Version] /\ reloj \in 0 .. MaxReloj
    /\ cliente \in [Clientes -> Cliente]
    /\ respuesta \in [clave : Claves \cup {NoClave}, valor : Version, piso : Version]
    /\ anunciado \in [Familias -> Version] /\ carrera \subseteq Claves
CacheInv ==
    CacheForma /\ ClientesBien /\ EntradasAlDia /\ LoAnunciadoEsta /\ VeLoAnunciado

LEMMA FormaBasta == CacheForma => CacheTypeOK
<1> SUFFICES ASSUME CacheForma PROVE CacheTypeOK  OBVIOUS
<1>1. Mapa(store, uso)  BY DEF CacheForma
<1>2. ToSet(uso) = {e.clave : e \in ToSet(store)}  BY <1>1, MapaUso
<1>3. store \in Seq(Entrada) /\ uso \in Seq(Claves) /\ ClavesUnaVez(store)  BY <1>1 DEF Mapa
<1> QED BY <1>2, <1>3 DEF CacheForma, CacheTypeOK, ClavesUnaVez

LEMMA FamiliaEsta == \A k \in Claves : Familia[k] \in Familias /\ Familia[k] \subseteq Claves
  BY DEF Familias

\* The versions a state holds are naturals.
LEMMA VersionesNat ==
    ASSUME CacheForma
    PROVE  /\ \A k \in Claves : dato[Familia[k]] \in Version /\ anunciado[Familia[k]] \in Version
           /\ \A c \in Clientes : cliente[c] \in Cliente /\ cliente[c].valor \in Version
                                  /\ cliente[c].piso \in Version
                                  /\ cliente[c].clave \in Claves \cup {NoClave}
           /\ \A e \in ToSet(store) : e \in Entrada /\ e.valor \in Version /\ e.clave \in Claves
           /\ Version \subseteq Nat
<1>1. \A k \in Claves : dato[Familia[k]] \in Version /\ anunciado[Familia[k]] \in Version
  BY FamiliaEsta DEF CacheForma
<1>2. \A c \in Clientes : cliente[c] \in Cliente  BY DEF CacheForma
<1>3. ToSet(store) \subseteq Entrada  BY MapaUso DEF CacheForma
<1>4. \A w \in Cliente : w.valor \in Version /\ w.piso \in Version
          /\ w.clave \in Claves \cup {NoClave}
  BY DEF Cliente
<1>5. \A e \in Entrada : e.valor \in Version /\ e.clave \in Claves  BY DEF Entrada
<1>6. Version \subseteq Nat  BY DEF Version
<1> QED BY <1>1, <1>2, <1>3, <1>4, <1>5, <1>6

LEMMA SinClienteBien == SinCliente \in Cliente /\ SinCliente.paso = "idle"
                            /\ ClienteBien(SinCliente)
  BY DEF SinCliente, Cliente, ClienteBien, Version

LEMMA MapaVacio == Mapa(<<>>, <<>>) /\ ToSet(<<>>) = {} /\ Len(<<>>) = 0
<1>1. <<>> \in Seq(Entrada) /\ <<>> \in Seq(Claves) /\ Len(<<>>) = 0 /\ DOMAIN <<>> = {}  OBVIOUS
<1> QED BY <1>1 DEF Mapa, ClavesUnaVez, ToSet

LEMMA CacheEmpieza == CacheInit => CacheInv
<1> SUFFICES ASSUME CacheInit PROVE CacheInv  OBVIOUS
<1>0. 0 \in Version /\ 0 \in 0 .. MaxReloj /\ 0 <= MaxEntries  BY DEF Version
<1>1. cliente \in [Clientes -> Cliente] /\ \A c \in Clientes : cliente[c] = SinCliente
  BY SinClienteBien DEF CacheInit
<1>2. CacheForma  BY <1>0, <1>1, MapaVacio DEF CacheInit, CacheForma
<1>3. ClientesBien  BY <1>1, SinClienteBien DEF ClientesBien, ClienteBien
<1>4. EntradasAlDia  BY MapaVacio DEF CacheInit, EntradasAlDia
<1>5. LoAnunciadoEsta  BY FamiliaEsta DEF CacheInit, LoAnunciadoEsta
<1>6. VeLoAnunciado  BY DEF CacheInit, VeLoAnunciado
<1> QED BY <1>2, <1>3, <1>4, <1>5, <1>6 DEF CacheInv

\* A step of one request.
LEMMA VaUno ==
    ASSUME CacheForma, NEW c \in Clientes, NEW w \in Cliente, Va(c, w)
    PROVE  /\ cliente' \in [Clientes -> Cliente] /\ cliente'[c] = w
           /\ \A d \in Clientes \ {c} : cliente'[d] = cliente[d]
  BY DEF CacheForma, Va

\* What holds of a request still does when nothing is written nor invalidated.
LEMMA ClientesSiguen ==
    ASSUME CacheInv, NEW c \in Clientes, NEW w \in Cliente, Va(c, w), ClienteBien(w),
           UNCHANGED <<dato, anunciado, carrera>>
    PROVE  ClientesBien' /\ cliente' \in [Clientes -> Cliente] /\ LoAnunciadoEsta'
<1>1. /\ cliente' \in [Clientes -> Cliente] /\ cliente'[c] = w
      /\ \A d \in Clientes \ {c} : cliente'[d] = cliente[d]
  BY VaUno DEF CacheInv
<1>2. \A d \in Clientes : ClienteBien(cliente'[d])  BY <1>1 DEF CacheInv, ClientesBien
<1>3. ClientesBien'  BY <1>2 DEF ClientesBien, ClienteBien
<1> QED BY <1>1, <1>3 DEF CacheInv, LoAnunciadoEsta

\* An answer that shows what was announced.
LEMMA RespuestaBien ==
    ASSUME NEW k \in Claves, NEW v \in Version, NEW p \in Version, Contesta(k, v, p),
           k \notin carrera => v >= p, UNCHANGED carrera
    PROVE  respuesta' \in [clave : Claves \cup {NoClave}, valor : Version, piso : Version]
           /\ VeLoAnunciado'
  BY DEF Contesta, VeLoAnunciado

LEMMA AciertaSigue ==
    ASSUME CacheInv, NEW c \in Clientes, NEW k \in Claves, Acierta(c, k) PROVE CacheInv'
<1>1. Mapa(store, uso) /\ En(store, k)  BY DEF CacheInv, CacheForma, Acierta, Viva
<1>2. PICK e \in ToSet(store) : e = Entra(k) /\ e.clave = k  BY <1>1, MapaUso DEF Entra
<1>3. PICK s, u : s = Sin(store, {k}) /\ u = SinUso(uso, {k})  OBVIOUS
<1>4. /\ Mapa(s, u) /\ ToSet(s) = {x \in ToSet(store) : x.clave \notin {k}}
      /\ Len(s) < Len(store)
  BY <1>1, <1>2, <1>3, QuitaDelMapa
<1>5. e \in Entrada /\ ~En(s, e.clave)  BY <1>1, <1>2, <1>4, MapaUso
<1>6. store' = Append(s, e) /\ uso' = Append(u, e.clave)  BY <1>2, <1>3 DEF Acierta, Reinserta
<1>7. Mapa(store', uso') /\ ToSet(store') = ToSet(s) \cup {e} /\ Len(store') = Len(s) + 1
  BY <1>4, <1>5, <1>6, AnadeAlMapa
<1>8. Len(store') <= MaxEntries  BY <1>1, <1>4, <1>7, MapaUso DEF CacheInv, CacheForma
<1>9. ToSet(store') \subseteq ToSet(store)  BY <1>2, <1>4, <1>7
<1>10. UNCHANGED <<dato, reloj, cliente, anunciado, carrera>>
       /\ Contesta(k, e.valor, anunciado[Familia[k]])
  BY <1>2 DEF Acierta
<1>11. e.valor \in Version /\ anunciado[Familia[k]] \in Version
       /\ (k \notin carrera => e.valor >= anunciado[Familia[k]])
  BY <1>2, VersionesNat DEF CacheInv, EntradasAlDia
<1>12. respuesta' \in [clave : Claves \cup {NoClave}, valor : Version, piso : Version]
       /\ VeLoAnunciado'
  BY <1>10, <1>11, RespuestaBien
<1>13. CacheForma'  BY <1>7, <1>8, <1>10, <1>12 DEF CacheInv, CacheForma
<1>14. ClientesBien' /\ LoAnunciadoEsta'
  BY <1>10 DEF CacheInv, ClientesBien, ClienteBien, LoAnunciadoEsta
<1>15. EntradasAlDia'  BY <1>9, <1>10 DEF CacheInv, EntradasAlDia
<1> QED BY <1>12, <1>13, <1>14, <1>15 DEF CacheInv

LEMMA FaltaSigue ==
    ASSUME CacheInv, NEW c \in Clientes, NEW k \in Claves, Falta(c, k) PROVE CacheInv'
<1>1. /\ Mapa(store', uso') /\ ToSet(store') \subseteq ToSet(store) /\ Len(store') <= Len(store)
      /\ Len(store) \in Nat /\ Len(store') \in Nat
  BY QuitaDelMapa, MapaUso DEF CacheInv, CacheForma, Falta, Olvida
<1>2. PICK w : w = [SinCliente EXCEPT !.paso = "carga", !.clave = k, !.piso = anunciado[Familia[k]]]
  OBVIOUS
<1>3. w = [paso |-> "carga", clave |-> k, valor |-> 0, piso |-> anunciado[Familia[k]]]
  BY <1>2 DEF SinCliente
<1>4. anunciado[Familia[k]] \in Version /\ 0 \in Version /\ Version \subseteq Nat
  BY VersionesNat DEF CacheInv, Version
<1>5. w \in Cliente  BY <1>3, <1>4 DEF Cliente
<1>6. ClienteBien(w)
  <2>1. w.paso = "carga" /\ w.clave = k /\ w.piso = anunciado[Familia[k]]  BY <1>3
  <2>2. anunciado[Familia[k]] <= anunciado[Familia[k]]
    <3>1. PICK n \in Nat : n = anunciado[Familia[k]]  BY <1>4
    <3> QED BY <3>1
  <2> QED BY <2>1, <2>2 DEF ClienteBien
<1>7. Va(c, w) /\ UNCHANGED <<dato, reloj, respuesta, anunciado, carrera>>  BY <1>2 DEF Falta
<1>8. ClientesBien' /\ cliente' \in [Clientes -> Cliente] /\ LoAnunciadoEsta'
  BY <1>5, <1>6, <1>7, ClientesSiguen
<1>9. CacheForma'  BY <1>1, <1>7, <1>8 DEF CacheInv, CacheForma
<1>10. EntradasAlDia' /\ VeLoAnunciado'  BY <1>1, <1>7 DEF CacheInv, EntradasAlDia, VeLoAnunciado
<1> QED BY <1>8, <1>9, <1>10 DEF CacheInv

LEMMA CargaSigue == ASSUME CacheInv, NEW c \in Clientes, Carga(c) PROVE CacheInv'
<1>1. PICK v : v = cliente[c]  OBVIOUS
<1>2. v \in Cliente /\ v.paso = "carga" /\ ClienteBien(v)
  BY <1>1 DEF Carga, CacheInv, CacheForma, ClientesBien
<1>3. PICK w : w = [v EXCEPT !.paso = "guarda", !.valor = dato[Familia[v.clave]]]  OBVIOUS
<1>4. v.clave \in Claves /\ v.piso <= anunciado[Familia[v.clave]]  BY <1>2 DEF ClienteBien
<1>5. dato[Familia[v.clave]] \in Version /\ anunciado[Familia[v.clave]] <= dato[Familia[v.clave]]
  BY <1>4, VersionesNat DEF CacheInv, LoAnunciadoEsta
<1>6. w \in Cliente /\ w.paso = "guarda" /\ w.clave = v.clave /\ w.piso = v.piso
      /\ w.valor = dato[Familia[v.clave]]
  BY <1>2, <1>3, <1>5 DEF Cliente
<1>7. ClienteBien(w)  BY <1>4, <1>5, <1>6 DEF ClienteBien
<1>8. Va(c, w) /\ UNCHANGED <<store, dato, reloj, respuesta, anunciado, carrera, uso>>
  BY <1>1, <1>3 DEF Carga
<1>9. ClientesBien' /\ cliente' \in [Clientes -> Cliente] /\ LoAnunciadoEsta'
  BY <1>6, <1>7, <1>8, ClientesSiguen
<1>10. CacheForma'  BY <1>8, <1>9 DEF CacheInv, CacheForma
<1>11. EntradasAlDia' /\ VeLoAnunciado'  BY <1>8 DEF CacheInv, EntradasAlDia, VeLoAnunciado
<1> QED BY <1>9, <1>10, <1>11 DEF CacheInv

\* A set puts the entry in the Map, within its limit.  If its key was not there and the Map
\* was full, the entry used the longest ago leaves; no other does.
LEMMA PonSigue ==
    ASSUME Mapa(store, uso), Len(store) <= MaxEntries, NEW e \in Entrada, Pon(e)
    PROVE  /\ Mapa(store', uso') /\ Len(store') <= MaxEntries
           /\ \A x \in ToSet(store') : x = e \/ x \in ToSet(store)
           /\ ~En(store, e.clave) =>
                ClavesDe(store) \ ClavesDe(store') =
                    IF Len(store) = MaxEntries THEN {Head(uso)} ELSE {}
           /\ En(store, e.clave) => ClavesDe(store') \subseteq ClavesDe(store)
<1>0. Len(store) \in Nat /\ MaxEntries \in Nat \ {0}  BY MapaUso
<1>1. CASE En(store, e.clave)
  <2>1. store' = [i \in DOMAIN store |-> IF store[i].clave = e.clave THEN e ELSE store[i]]
        /\ uso' = uso
    BY <1>1 DEF Pon
  <2>2. /\ Mapa(store', uso') /\ Len(store') = Len(store)
        /\ ToSet(store') = {x \in ToSet(store) : x.clave # e.clave} \cup {e}
    BY <1>1, <2>1, CambiaEnElMapa
  <2>3. e.clave \in ClavesDe(store)  BY <1>1, MapaUso DEF ClavesDe
  <2>4. ClavesDe(store') \subseteq ClavesDe(store)  BY <2>2, <2>3 DEF ClavesDe
  <2> QED BY <1>1, <2>2, <2>4
<1>2. CASE ~En(store, e.clave)
  <2>1. PICK K : K = IF Llena THEN {Head(store).clave} ELSE {}  OBVIOUS
  <2>2. PICK s, u : s = Sin(store, K) /\ u = SinUso(uso, K)  OBVIOUS
  <2>3. store' = Append(s, e) /\ uso' = Append(u, e.clave)  BY <1>2, <2>1, <2>2 DEF Pon
  <2>4. /\ Mapa(s, u) /\ ToSet(s) = {x \in ToSet(store) : x.clave \notin K}
        /\ Len(s) <= Len(store)
        /\ (\E x \in ToSet(store) : x.clave \in K) => Len(s) < Len(store)
    BY <2>2, QuitaDelMapa
  <2>5. ~En(s, e.clave) /\ e.clave \notin ClavesDe(store) /\ Len(s) \in Nat
    BY <1>2, <2>4, MapaUso DEF ClavesDe
  <2>6. /\ Mapa(store', uso') /\ ToSet(store') = ToSet(s) \cup {e} /\ Len(store') = Len(s) + 1
    BY <2>3, <2>4, <2>5, AnadeAlMapa
  <2>7. Llena <=> Len(store) = MaxEntries  BY <1>0 DEF Llena
  <2>8. CASE Len(store) = MaxEntries
    <3>1. K = {Head(store).clave}  BY <2>1, <2>7, <2>8
    <3>2. Len(store) > 0 /\ Len(uso) = Len(store) /\ store \in Seq(Entrada) /\ uso \in Seq(Claves)
      BY <1>0, <2>8 DEF Mapa
    <3>3. 1 \in DOMAIN store /\ Head(store) = store[1] /\ Head(uso) = uso[1]  BY <1>0, <3>2
    <3>4. Head(store) \in ToSet(store) /\ Head(uso) = Head(store).clave
      BY <1>0, <3>2, <3>3 DEF ToSet, Mapa
    <3>5. Len(s) < Len(store)  BY <2>4, <3>1, <3>4
    <3>6. ClavesDe(store) \ ClavesDe(store') = {Head(uso)}
      BY <2>4, <2>5, <2>6, <3>1, <3>4 DEF ClavesDe
    <3> QED BY <1>0, <1>2, <2>4, <2>5, <2>6, <2>8, <3>5, <3>6
  <2>9. CASE Len(store) # MaxEntries  BY <2>1, <2>7, <2>9, <2>4, <2>6, <1>0, <1>2, <2>5 DEF ClavesDe
  <2> QED BY <2>8, <2>9
<1> QED BY <1>1, <1>2

LEMMA GuardaSigue == ASSUME CacheInv, NEW c \in Clientes, Guarda(c) PROVE CacheInv'
<1>1. PICK w : w = cliente[c]  OBVIOUS
<1>2. w \in Cliente /\ w.paso = "guarda" /\ ClienteBien(w) /\ w.valor \in Version
          /\ w.piso \in Version
  BY <1>1, VersionesNat DEF Guarda, CacheInv, CacheForma, ClientesBien
<1>3. /\ w.clave \in Claves /\ w.piso <= anunciado[Familia[w.clave]]
      /\ w.clave \notin carrera => w.valor >= anunciado[Familia[w.clave]]
  BY <1>2 DEF ClienteBien
<1>4. PICK e : e = [clave |-> w.clave, valor |-> w.valor, vence |-> reloj + Ttl]  OBVIOUS
<1>5. e \in Entrada /\ e.clave = w.clave /\ e.valor = w.valor
  BY <1>2, <1>3, <1>4 DEF CacheInv, CacheForma, Entrada
<1>6. Pon(e) /\ Contesta(w.clave, w.valor, w.piso) /\ Va(c, SinCliente)
      /\ UNCHANGED <<dato, reloj, anunciado, carrera>>
  BY <1>1, <1>4 DEF Guarda
<1>7. /\ Mapa(store', uso') /\ Len(store') <= MaxEntries
      /\ \A x \in ToSet(store') : x = e \/ x \in ToSet(store)
  BY <1>5, <1>6, PonSigue DEF CacheInv, CacheForma
<1>8. ClientesBien' /\ cliente' \in [Clientes -> Cliente] /\ LoAnunciadoEsta'
  BY <1>6, SinClienteBien, ClientesSiguen
<1>9. anunciado[Familia[w.clave]] \in Version /\ Version \subseteq Nat
  BY <1>3, VersionesNat DEF CacheInv
<1>10. w.clave \notin carrera => w.valor >= w.piso
  <2>1. PICK p, v, a \in Nat : p = w.piso /\ v = w.valor /\ a = anunciado[Familia[w.clave]]
    BY <1>2, <1>9
  <2> QED BY <1>3, <2>1
<1>11. respuesta' \in [clave : Claves \cup {NoClave}, valor : Version, piso : Version]
       /\ VeLoAnunciado'
  BY <1>2, <1>3, <1>6, <1>10, RespuestaBien
<1>12. CacheForma'  BY <1>6, <1>7, <1>8, <1>11 DEF CacheInv, CacheForma
<1>13. EntradasAlDia'  BY <1>3, <1>5, <1>6, <1>7 DEF CacheInv, EntradasAlDia
<1> QED BY <1>8, <1>11, <1>12, <1>13 DEF CacheInv

\* One more version of a family, not announced.
LEMMA DatoSigue ==
    ASSUME CacheInv, NEW k \in Claves, dato[Familia[k]] < MaxVersion,
           dato' = [dato EXCEPT ![Familia[k]] = @ + 1], UNCHANGED anunciado
    PROVE  /\ dato' \in [Familias -> Version] /\ LoAnunciadoEsta'
           /\ \A l \in Claves : dato[Familia[l]] <= dato'[Familia[l]]
           /\ dato'[Familia[k]] = dato[Familia[k]] + 1 /\ dato[Familia[k]] + 1 \in Version
<1>1. dato \in [Familias -> Version] /\ Familia[k] \in Familias /\ dato[Familia[k]] \in Version
  BY FamiliaEsta, VersionesNat DEF CacheInv, CacheForma
<1>2. dato[Familia[k]] + 1 \in Version  BY <1>1 DEF Version
<1>3. dato' \in [Familias -> Version] /\ dato'[Familia[k]] = dato[Familia[k]] + 1
      /\ \A f \in Familias : f # Familia[k] => dato'[f] = dato[f]
  BY <1>1, <1>2
<1>4. \A l \in Claves : dato[Familia[l]] \in Version /\ dato[Familia[l]] <= dato'[Familia[l]]
  <2> SUFFICES ASSUME NEW l \in Claves
               PROVE  dato[Familia[l]] \in Version /\ dato[Familia[l]] <= dato'[Familia[l]]
    OBVIOUS
  <2>1. PICK n \in Nat : n = dato[Familia[l]] /\ n \in Version  BY VersionesNat DEF CacheInv
  <2>2. dato'[Familia[l]] = n \/ dato'[Familia[l]] = n + 1  BY <1>3, <2>1, FamiliaEsta
  <2> QED BY <2>1, <2>2
<1>5. LoAnunciadoEsta'
  <2> SUFFICES ASSUME NEW l \in Claves PROVE anunciado[Familia[l]] <= dato'[Familia[l]]
    BY DEF LoAnunciadoEsta
  <2>1. PICK a, n, m \in Nat : a = anunciado[Familia[l]] /\ n = dato[Familia[l]]
                 /\ m = dato'[Familia[l]]
    <3>1. dato'[Familia[l]] \in Version  BY <1>3, FamiliaEsta
    <3> QED BY <3>1, VersionesNat DEF CacheInv
  <2>2. a <= n /\ n <= m  BY <1>4, <2>1 DEF CacheInv, LoAnunciadoEsta
  <2> QED BY <2>1, <2>2
<1> QED BY <1>2, <1>3, <1>4, <1>5

LEMMA ClienteTrasDato ==
    ASSUME CacheInv, NEW d \in Clientes, dato' \in [Familias -> Version],
           \A l \in Claves : dato[Familia[l]] <= dato'[Familia[l]],
           UNCHANGED <<anunciado, carrera>>
    PROVE  ClienteBien(cliente[d])'  \/ cliente'[d] # cliente[d]
<1> SUFFICES ASSUME cliente'[d] = cliente[d] PROVE ClienteBien(cliente[d])'  OBVIOUS
<1>1. PICK w : w = cliente[d] /\ ClienteBien(w) /\ w.valor \in Version /\ Version \subseteq Nat
  BY VersionesNat DEF CacheInv, ClientesBien
<1>2. ASSUME w.paso = "anuncia" PROVE w.valor <= dato'[Familia[w.clave]]
  <2>1. w.clave \in Claves /\ w.valor <= dato[Familia[w.clave]]  BY <1>1, <1>2 DEF ClienteBien
  <2>2. PICK n, m \in Nat : n = dato[Familia[w.clave]] /\ m = dato'[Familia[w.clave]]
    BY <1>1, <2>1, VersionesNat, FamiliaEsta DEF CacheInv
  <2>3. PICK v \in Nat : v = w.valor  BY <1>1
  <2>4. n <= m  BY <2>1, <2>2
  <2> QED BY <2>1, <2>2, <2>3, <2>4
<1> QED BY <1>1, <1>2 DEF ClienteBien

LEMMA EscribeSigue ==
    ASSUME CacheInv, NEW c \in Clientes, NEW k \in Claves, Escribe(c, k) PROVE CacheInv'
<1>1. PICK w : w = [SinCliente EXCEPT !.paso = "anuncia", !.clave = k, !.valor =
               dato[Familia[k]] + 1]
  OBVIOUS
<1>2. w = [paso |-> "anuncia", clave |-> k, valor |-> dato[Familia[k]] + 1, piso |-> 0]
  BY <1>1 DEF SinCliente
<1>3. Va(c, w) /\ UNCHANGED <<store, reloj, respuesta, anunciado, carrera, uso>>
      /\ dato[Familia[k]] < MaxVersion /\ dato' = [dato EXCEPT ![Familia[k]] = @ + 1]
  BY <1>1 DEF Escribe
<1>4. /\ dato' \in [Familias -> Version] /\ LoAnunciadoEsta'
      /\ \A l \in Claves : dato[Familia[l]] <= dato'[Familia[l]]
      /\ dato'[Familia[k]] = dato[Familia[k]] + 1 /\ dato[Familia[k]] + 1 \in Version
  BY <1>3, DatoSigue
<1>5. w \in Cliente /\ w.paso = "anuncia" /\ w.clave = k /\ w.valor = dato'[Familia[k]]
      /\ w.valor \in Version
  BY <1>2, <1>4 DEF Cliente, Version
<1>6. /\ cliente' \in [Clientes -> Cliente] /\ cliente'[c] = w
      /\ \A d \in Clientes \ {c} : cliente'[d] = cliente[d]
  BY <1>3, <1>5, VaUno DEF CacheInv
<1>7. ClienteBien(w)'
  <2>1. w.valor <= dato'[Familia[w.clave]]
    <3>1. PICK n \in Int : n = w.valor  BY <1>5 DEF Version
    <3> QED BY <1>5, <3>1
  <2> QED BY <1>5, <2>1 DEF ClienteBien
<1>8. ClientesBien'
  <2> SUFFICES ASSUME NEW d \in Clientes PROVE ClienteBien(cliente[d])'  BY DEF ClientesBien
  <2>1. CASE d = c  BY <1>6, <1>7, <2>1 DEF ClienteBien
  <2>2. CASE d # c  BY <1>3, <1>4, <1>6, <2>2, ClienteTrasDato
  <2> QED BY <2>1, <2>2
<1>9. CacheForma'  BY <1>3, <1>4, <1>6 DEF CacheInv, CacheForma
<1>10. EntradasAlDia' /\ VeLoAnunciado'  BY <1>3 DEF CacheInv, EntradasAlDia, VeLoAnunciado
<1> QED BY <1>4, <1>8, <1>9, <1>10 DEF CacheInv

LEMMA SinAnuncioSigue == ASSUME CacheInv, NEW k \in Claves, EscribeSinAnuncio(k) PROVE CacheInv'
<1>1. /\ UNCHANGED <<store, reloj, cliente, respuesta, anunciado, carrera, uso>>
      /\ dato' \in [Familias -> Version] /\ LoAnunciadoEsta'
      /\ \A l \in Claves : dato[Familia[l]] <= dato'[Familia[l]]
  BY DatoSigue DEF EscribeSinAnuncio
<1>2. ClientesBien'  BY <1>1, ClienteTrasDato DEF ClientesBien
<1>3. CacheForma'  BY <1>1 DEF CacheInv, CacheForma
<1>4. EntradasAlDia' /\ VeLoAnunciado'  BY <1>1 DEF CacheInv, EntradasAlDia, VeLoAnunciado
<1> QED BY <1>1, <1>2, <1>3, <1>4 DEF CacheInv

LEMMA AnunciaSigue == ASSUME CacheInv, NEW c \in Clientes, Anuncia(c) PROVE CacheInv'
<1>1. PICK w : w = cliente[c]  OBVIOUS
<1>2. w \in Cliente /\ w.paso = "anuncia" /\ ClienteBien(w) /\ w.valor \in Version
      /\ Version \subseteq Nat
  BY <1>1, VersionesNat DEF Anuncia, CacheInv, CacheForma, ClientesBien
<1>3. PICK k \in Claves : k = w.clave /\ w.valor <= dato[Familia[k]]  BY <1>2 DEF ClienteBien
<1>4. PICK F : F = Familia[k]  OBVIOUS
<1>5. F \in Familias /\ F \subseteq Claves /\ anunciado \in [Familias -> Version]
  BY <1>4, FamiliaEsta DEF CacheInv, CacheForma
<1>6. \A l \in Claves : IF l \in F THEN Familia[l] = F ELSE Familia[l] # F  BY <1>4
<1>7. PICK a, v \in Nat : a = anunciado[F] /\ v = w.valor /\ a \in Version  BY <1>2, <1>5
<1>8. PICK b : b = IF v > a THEN v ELSE a  OBVIOUS
<1>9. b \in Version /\ b >= a /\ b >= v /\ b \in Nat /\ (b = v \/ b = a)  BY <1>2, <1>7, <1>8
<1>10. /\ store' = Sin(store, F) /\ uso' = SinUso(uso, F)
       /\ anunciado' = [anunciado EXCEPT ![F] = IF v > @ THEN v ELSE @]
       /\ carrera' = carrera \cup {l \in F : Tarde(l, v)}
       /\ Va(c, SinCliente) /\ UNCHANGED <<dato, reloj, respuesta>>
  BY <1>1, <1>3, <1>4, <1>7 DEF Anuncia, Olvida
<1>11. /\ anunciado' \in [Familias -> Version] /\ anunciado'[F] = b
       /\ \A f \in Familias : f # F => anunciado'[f] = anunciado[f]
  BY <1>5, <1>7, <1>8, <1>9, <1>10
<1>12. /\ Mapa(store', uso') /\ ToSet(store') = {e \in ToSet(store) : e.clave \notin F}
       /\ Len(store') <= Len(store) /\ Len(store) \in Nat /\ Len(store') \in Nat
  BY <1>10, QuitaDelMapa, MapaUso DEF CacheInv, CacheForma
<1>13. /\ cliente' \in [Clientes -> Cliente] /\ cliente'[c] = SinCliente
       /\ \A d \in Clientes \ {c} : cliente'[d] = cliente[d]
  BY <1>10, SinClienteBien, VaUno DEF CacheInv
<1>14. CacheForma'  BY <1>5, <1>10, <1>11, <1>12, <1>13 DEF CacheInv, CacheForma
<1>15. EntradasAlDia'
  <2> SUFFICES ASSUME NEW e \in ToSet(store'), e.clave \notin carrera'
               PROVE  e.valor >= anunciado'[Familia[e.clave]]
    BY DEF EntradasAlDia
  <2>1. e \in ToSet(store) /\ e.clave \notin F /\ e.clave \in Claves /\ e.clave \notin carrera
    BY <1>10, <1>12, VersionesNat DEF CacheInv
  <2>2. anunciado'[Familia[e.clave]] = anunciado[Familia[e.clave]]
    BY <1>6, <1>11, <2>1, FamiliaEsta
  <2> QED BY <2>1, <2>2 DEF CacheInv, EntradasAlDia
<1>16. LoAnunciadoEsta'
  <2> SUFFICES ASSUME NEW l \in Claves PROVE anunciado'[Familia[l]] <= dato[Familia[l]]
    BY <1>10 DEF LoAnunciadoEsta
  <2>1. CASE Familia[l] = F
    <3>1. a <= dato[F] /\ v <= dato[F]  BY <1>3, <1>4, <1>7 DEF CacheInv, LoAnunciadoEsta
    <3> QED BY <1>9, <1>11, <2>1, <3>1
  <2>2. CASE Familia[l] # F  BY <1>11, <2>2, FamiliaEsta DEF CacheInv, LoAnunciadoEsta
  <2> QED BY <2>1, <2>2
<1>17. VeLoAnunciado'  BY <1>10 DEF CacheInv, VeLoAnunciado
<1>18. ASSUME NEW d \in Clientes, d # c PROVE ClienteBien(cliente[d])'
  <2>1. PICK x : x = cliente[d] /\ x = cliente'[d]  BY <1>13, <1>18
  <2>2. ClienteBien(x) /\ x.piso \in Version /\ x.valor \in Version
    <3>1. CacheForma /\ ClienteBien(cliente[d])  BY DEF CacheInv, ClientesBien
    <3> QED BY <2>1, <3>1, VersionesNat
  <2>3. CASE x.paso = "idle"  BY <2>1, <2>3 DEF ClienteBien
  <2>4. CASE x.paso # "idle"
    <3>1. PICK l \in Claves : l = x.clave  BY <2>2, <2>4 DEF ClienteBien
    <3>2. PICK p, y, m, n \in Nat : p = x.piso /\ y = x.valor /\ m = anunciado[Familia[l]]
                                   /\ n = anunciado'[Familia[l]]
      BY <1>5, <1>11, FamiliaEsta, <1>2, <2>2
    <3>3. n >= m  BY <1>7, <1>9, <1>11, <3>2, FamiliaEsta
    <3>4. x.paso \in {"carga", "guarda"} => p <= n  BY <2>2, <3>1, <3>2, <3>3 DEF ClienteBien
    <3>5. ASSUME x.paso = "guarda", l \notin carrera' PROVE y >= n
      <4>1. l \notin carrera /\ y >= m  BY <1>10, <2>2, <3>1, <3>2, <3>5 DEF ClienteBien
      <4>2. CASE l \in F
        <5>1. ~Tarde(l, v)  BY <1>10, <3>5, <4>2
        <5>2. ~(y < v)  BY <2>1, <3>1, <3>2, <3>5, <5>1 DEF Tarde
        <5>3. m = a /\ n = b  BY <1>6, <1>7, <1>11, <3>2, <4>2
        <5> QED BY <1>9, <4>1, <5>2, <5>3
      <4>3. CASE l \notin F
        <5>1. n = m  BY <1>6, <1>11, <3>2, <4>3, FamiliaEsta
        <5> QED BY <4>1, <5>1
      <4> QED BY <4>2, <4>3
    <3>6. x.paso = "anuncia" => y <= dato'[Familia[l]]  BY <1>10, <2>2, <3>1, <3>2 DEF ClienteBien
    <3> QED BY <2>1, <3>1, <3>2, <3>4, <3>5, <3>6 DEF ClienteBien
  <2> QED BY <2>3, <2>4
<1>19. ClientesBien'
  <2>1. ClienteBien(cliente[c])'  BY <1>13, SinClienteBien DEF ClienteBien
  <2> QED BY <1>18, <2>1 DEF ClientesBien
<1> QED BY <1>14, <1>15, <1>16, <1>17, <1>19 DEF CacheInv

LEMMA ReinicioSigue == ASSUME CacheInv, Reinicio PROVE CacheInv'
<1>1. /\ store' = <<>> /\ uso' = <<>> /\ cliente' = [c \in Clientes |-> SinCliente]
      /\ UNCHANGED <<dato, reloj, respuesta, anunciado, carrera>>
  BY DEF Reinicio
<1>2. cliente' \in [Clientes -> Cliente] /\ \A c \in Clientes : cliente'[c] = SinCliente
  BY <1>1, SinClienteBien
<1>3. Mapa(store', uso') /\ ToSet(store') = {} /\ Len(store') <= MaxEntries  BY <1>1, MapaVacio
<1>4. CacheForma'  BY <1>1, <1>2, <1>3 DEF CacheInv, CacheForma
<1>5. ClientesBien'  BY <1>2, SinClienteBien DEF ClientesBien, ClienteBien
<1>6. EntradasAlDia' /\ VeLoAnunciado' /\ LoAnunciadoEsta'
  BY <1>1, <1>3 DEF CacheInv, EntradasAlDia, VeLoAnunciado, LoAnunciadoEsta
<1> QED BY <1>4, <1>5, <1>6 DEF CacheInv

LEMMA TicSigue == ASSUME CacheInv, Tic PROVE CacheInv'
<1>1. reloj' \in 0 .. MaxReloj /\ UNCHANGED <<store, dato, cliente, respuesta, anunciado, carrera,
          uso>>
  BY DEF Tic, CacheInv, CacheForma
<1>2. CacheForma'  BY <1>1 DEF CacheInv, CacheForma
<1> QED BY <1>1, <1>2 DEF CacheInv, ClientesBien, ClienteBien, EntradasAlDia, VeLoAnunciado,
                          LoAnunciadoEsta

LEMMA FallaClienteSigue == ASSUME CacheInv, NEW c \in Clientes, FallaCliente(c) PROVE CacheInv'
<1>1. Va(c, SinCliente) /\ UNCHANGED <<store, dato, reloj, respuesta, anunciado, carrera, uso>>
  BY DEF FallaCliente
<1>2. ClientesBien' /\ cliente' \in [Clientes -> Cliente] /\ LoAnunciadoEsta'
  BY <1>1, SinClienteBien, ClientesSiguen
<1>3. CacheForma'  BY <1>1, <1>2 DEF CacheInv, CacheForma
<1> QED BY <1>1, <1>2, <1>3 DEF CacheInv, EntradasAlDia, VeLoAnunciado

\* Everything but the answer of a loader adds no key.
NadaEntra == ClavesDe(store') \subseteq ClavesDe(store)

LEMMA NadaEntraSalvoGuarda ==
    ASSUME CacheInv, CacheNext, ~\E c \in Clientes : Guarda(c) PROVE NadaEntra
<1>0. Mapa(store, uso)  BY DEF CacheInv, CacheForma
<1>1. ASSUME NEW K, Olvida(K) PROVE NadaEntra
  BY <1>0, <1>1, QuitaDelMapa DEF Olvida, NadaEntra, ClavesDe
<1>2. ASSUME store' = store PROVE NadaEntra  BY <1>2 DEF NadaEntra
<1>3. ASSUME NEW c \in Clientes, NEW k \in Claves, Acierta(c, k) PROVE NadaEntra
  <2>1. \E e \in ToSet(store) : e.clave = k  BY <1>0, <1>3, MapaUso DEF Acierta, Viva
  <2>2. PICK e \in ToSet(store) : e = Entra(k) /\ e.clave = k  BY <2>1 DEF Entra
  <2>3. PICK s, u : s = Sin(store, {k}) /\ u = SinUso(uso, {k}) /\ store' = Append(s, e)
    BY <1>3, <2>2 DEF Acierta, Reinserta
  <2>4. Mapa(s, u) /\ ToSet(s) = {x \in ToSet(store) : x.clave \notin {k}}
    BY <1>0, <2>3, QuitaDelMapa
  <2>5. e \in Entrada /\ ~En(s, e.clave)  BY <1>0, <2>2, <2>4, MapaUso
  <2>6. ToSet(store') = ToSet(s) \cup {e}  BY <2>3, <2>4, <2>5, AnadeAlMapa
  <2> QED BY <2>2, <2>4, <2>6 DEF NadaEntra, ClavesDe
<1>4. ASSUME store' = <<>> PROVE NadaEntra  BY <1>4, MapaVacio DEF NadaEntra, ClavesDe
<1>5. ASSUME NEW c \in Clientes, NEW k \in Claves, Falta(c, k) \/ Escribe(c, k) PROVE NadaEntra
  BY <1>1, <1>2, <1>5 DEF Falta, Escribe
<1>6. ASSUME NEW c \in Clientes, Carga(c) \/ Anuncia(c) \/ FallaCliente(c) PROVE NadaEntra
  BY <1>1, <1>2, <1>6 DEF Carga, Anuncia, FallaCliente
<1>7. ASSUME \/ \E k \in Claves : EscribeSinAnuncio(k)
             \/ Reinicio \/ Tic PROVE NadaEntra
  BY <1>2, <1>4, <1>7 DEF EscribeSinAnuncio, Reinicio, Tic
<1> QED BY <1>3, <1>5, <1>6, <1>7 DEF CacheNext

LEMMA CachePaso == CacheInv /\ [CacheNext]_cacheVars => CacheInv'
<1> SUFFICES ASSUME CacheInv, [CacheNext]_cacheVars PROVE CacheInv'  OBVIOUS
<1>1. CASE UNCHANGED cacheVars
  <2>1. UNCHANGED <<store, dato, reloj, cliente, respuesta, anunciado, carrera, uso>>
    BY <1>1 DEF cacheVars
  <2>2. CacheForma'  BY <2>1 DEF CacheInv, CacheForma
  <2> QED BY <2>1, <2>2 DEF CacheInv, ClientesBien, ClienteBien, EntradasAlDia, VeLoAnunciado,
                            LoAnunciadoEsta
<1>2. ASSUME NEW c \in Clientes, NEW k \in Claves, Acierta(c, k) \/ Falta(c, k) \/ Escribe(c, k)
      PROVE  CacheInv'
  BY <1>2, AciertaSigue, FaltaSigue, EscribeSigue
<1>3. ASSUME NEW c \in Clientes, Carga(c) \/ Guarda(c) \/ Anuncia(c) \/ FallaCliente(c)
      PROVE  CacheInv'
  BY <1>3, CargaSigue, GuardaSigue, AnunciaSigue, FallaClienteSigue
<1>4. ASSUME (\E k \in Claves : EscribeSinAnuncio(k)) \/ Reinicio \/ Tic PROVE CacheInv'
  BY <1>4, SinAnuncioSigue, ReinicioSigue, TicSigue
<1> QED BY <1>1, <1>2, <1>3, <1>4 DEF CacheNext

ExpulsaUna ==
    ClavesDe(store') \ ClavesDe(store) # {} =>
      ClavesDe(store) \ ClavesDe(store') = IF Len(store) = MaxEntries THEN {Head(uso)} ELSE {}
LEMMA ExpulsaPaso == CacheInv /\ [CacheNext]_cacheVars => [ExpulsaUna]_cacheVars
<1> SUFFICES ASSUME CacheInv, CacheNext, ClavesDe(store') \ ClavesDe(store) # {}
             PROVE  ClavesDe(store) \ ClavesDe(store') =
                        IF Len(store) = MaxEntries THEN {Head(uso)} ELSE {}
  BY DEF ExpulsaUna
<1>1. PICK c \in Clientes : Guarda(c)  BY NadaEntraSalvoGuarda DEF NadaEntra
<1>2. PICK w : w = cliente[c]  OBVIOUS
<1>3. w \in Cliente /\ w.clave \in Claves
  BY <1>1, <1>2 DEF Guarda, CacheInv, CacheForma, ClientesBien, ClienteBien
<1>4. PICK e : e = [clave |-> w.clave, valor |-> w.valor, vence |-> reloj + Ttl]  OBVIOUS
<1>5. e \in Entrada  BY <1>3, <1>4 DEF CacheInv, CacheForma, Entrada, Cliente
<1>6. Pon(e)  BY <1>1, <1>2, <1>4 DEF Guarda
<1> QED BY <1>5, <1>6, PonSigue DEF CacheInv, CacheForma

LEMMA CacheSiempre == CacheSpec => []CacheInv
  BY CacheEmpieza, CachePaso, PTL DEF CacheSpec

\* Whoever asks for a key after its invalidation gets what was written, or something newer
\* (MemoryCacheService.wrap, 72-83), unless a load of it was out at the time.
THEOREM VeLoAnunciadoSiempre == CacheSpec => []VeLoAnunciado
<1>1. CacheInv => VeLoAnunciado  BY DEF CacheInv
<1> QED BY <1>1, CacheSiempre, PTL

\* A set that adds a key to a full Map takes out the one read or added the longest ago, and no
\* other step takes one out for it (MemoryCacheService.set).
THEOREM ExpulsaSiempre == CacheSpec => ExpulsaLaMasAntigua
<1>1. CacheSpec => [][ExpulsaUna]_cacheVars  BY CacheSiempre, ExpulsaPaso, PTL DEF CacheSpec
<1> QED BY <1>1 DEF ExpulsaLaMasAntigua, ExpulsaUna

HIDE CacheAssumption DEF CacheAssumption

--------------------
(* Resenas.                                                                 *)
USE ResenasAssumption DEF ResenasAssumption

\* Until two calls that save the review overlap, one is at work, and it holds the row as it
\* is but for what it changes: an edit read a review without answer.
UnaGuarda == \A c, d \in Guardan : c = d
FilaAlDia(w) ==
    /\ w.paso = "edita" => resena.respuesta = 0 /\ w.fila.respuesta = 0
    /\ w.paso = "responde" => w.fila.texto = resena.texto
    /\ w.paso = "modera" => w.fila.texto = resena.texto /\ w.fila.respuesta = resena.respuesta
FilasAlDia == \A c \in Guardan : FilaAlDia(llamador[c])
ContestadaInv ==
    /\ RespuestaIntacta
    /\ resena = NoResena => contestada.respuesta = 0
    /\ \A c \in Guardan : resena # NoResena /\ llamador[c].fila # NoResena
    /\ ~solapoResena => UnaGuarda /\ FilasAlDia
ConTipo(w) == w.paso = "reacciona" => w.tipo \in ReaccionTipo /\ w.id # 0
PedidosConTipo == \A c \in Llamadores : ConTipo(llamador[c])
ResenasInv == ResenasTypeOK /\ ContestadaInv /\ PedidosConTipo

LEMMA ResenasEmpieza == ResenasInit => ResenasInv
<1> SUFFICES ASSUME ResenasInit PROVE ResenasInv  OBVIOUS
<1>1. \A c \in Llamadores : llamador[c] = SinLlamador /\ llamador[c].paso = "idle"
  BY DEF ResenasInit, SinLlamador
<1>2. Guardan = {}  BY <1>1 DEF Guardan
<1>3. SinLlamador \in Llamador /\ NoContestada \in [texto : VersionResena,
          respuesta : VersionResena]
  BY DEF SinLlamador, Llamador, NoContestada, VersionResena, NoResena, NoReaccion
<1>4. ResenasTypeOK
  <2>1. llamador \in [Llamadores -> Llamador]  BY <1>3 DEF ResenasInit
  <2>2. solapoResena \in BOOLEAN  BY DEF ResenasInit
  <2> QED BY <1>3, <2>1, <2>2 DEF ResenasInit, ResenasTypeOK, VersionResena
<1>5. ContestadaInv
  BY <1>2 DEF ResenasInit, ContestadaInv, RespuestaIntacta, UnaGuarda, FilasAlDia, NoContestada
<1> QED BY <1>1, <1>4, <1>5 DEF ResenasInv, PedidosConTipo, ConTipo

LEMMA VersionNueva == ResenasTypeOK /\ NuevaLlamada => EstaLlamada \in VersionResena \ {0}
                          /\ llamadasResena' \in VersionResena
  BY DEF ResenasTypeOK, NuevaLlamada, EstaLlamada, VersionResena

LEMMA TipoResena == ASSUME ResenasTypeOK, resena # NoResena
                    PROVE  resena \in Resena /\ resena.texto \in VersionResena
                           /\ resena.respuesta \in VersionResena /\ resena.estado \in Estado
  BY DEF ResenasTypeOK, Resena

\* The calls after a step of the call c.
LEMMA ResenaSigue ==
    ASSUME ResenasTypeOK, NEW c \in Llamadores, NEW w \in Llamador,
           llamador' = [llamador EXCEPT ![c] = w]
    PROVE  /\ llamador' \in [Llamadores -> Llamador]
           /\ llamador'[c] = w /\ \A d \in Llamadores \ {c} : llamador'[d] = llamador[d]
  BY DEF ResenasTypeOK

LEMMA CreaResena == ResenasInv /\ CreateResena => ResenasInv'
<1> SUFFICES ASSUME ResenasInv, CreateResena PROVE ResenasInv'  OBVIOUS
<1>1. EstaLlamada \in VersionResena /\ llamadasResena' \in VersionResena
  BY VersionNueva DEF ResenasInv, CreateResena
<1>2. resena' = [texto |-> EstaLlamada, respuesta |-> 0, estado |-> "publicada"]
      /\ UNCHANGED <<reaccion, llamador, solapoResena, contestada>> /\ resena = NoResena
  BY DEF CreateResena
<1>3. resena' \in Resena  BY <1>1, <1>2 DEF Resena, VersionResena, Estado
<1>4. ResenasTypeOK'  BY <1>1, <1>2, <1>3 DEF ResenasInv, ResenasTypeOK
<1>5. Guardan = {} /\ Guardan' = {} /\ contestada'.respuesta = 0
  BY <1>2 DEF ResenasInv, ContestadaInv, Guardan
<1>6. resena' # NoResena  BY <1>2 DEF NoResena
<1>7. ContestadaInv'  BY <1>5, <1>6 DEF ContestadaInv, RespuestaIntacta, UnaGuarda, FilasAlDia
<1> QED BY <1>2, <1>4, <1>7 DEF ResenasInv, PedidosConTipo

LEMMA LeeSigue ==
    ASSUME ResenasInv, NEW c \in Llamadores, NEW paso \in {"edita", "responde", "modera"},
           NEW fila \in Resena, LeeResena(c, paso, fila),
           FilaAlDia([SinLlamador EXCEPT !.paso = paso, !.fila = fila])
    PROVE  ResenasInv'
<1>1. llamadasResena' \in VersionResena  BY VersionNueva DEF ResenasInv, LeeResena
<1>2. PICK w : w = [SinLlamador EXCEPT !.paso = paso, !.fila = fila]  OBVIOUS
<1>3. w.paso = paso /\ w.fila = fila  BY <1>2 DEF SinLlamador
<1>4. w \in Llamador
  <2>1. w = [paso |-> paso, fila |-> fila, tipo |-> "no", id |-> 0, visto |-> NoReaccion]
    BY <1>2 DEF SinLlamador
  <2> QED BY <2>1 DEF Llamador, VersionResena
<1>5. llamador' = [llamador EXCEPT ![c] = w] /\ resena # NoResena
      /\ solapoResena' = (solapoResena \/ Guardan # {})
      /\ UNCHANGED <<resena, reaccion, contestada>>
  BY <1>2 DEF LeeResena
<1>6. /\ llamador' \in [Llamadores -> Llamador]
      /\ llamador'[c] = w /\ \A d \in Llamadores \ {c} : llamador'[d] = llamador[d]
  BY <1>4, <1>5, ResenaSigue DEF ResenasInv
<1>7. ResenasTypeOK'  BY <1>5, <1>1, <1>6 DEF ResenasInv, ResenasTypeOK
<1>8. Guardan' \subseteq Guardan \cup {c}  BY <1>6 DEF Guardan
<1>9. FilaAlDia(w)  BY <1>2
<1>10. ASSUME ~solapoResena' PROVE UnaGuarda' /\ FilasAlDia'
  <2>1. Guardan = {} /\ Guardan' \subseteq {c}  BY <1>5, <1>8, <1>10
  <2>2. FilaAlDia(w)'  BY <1>5, <1>9 DEF FilaAlDia
  <2>3. FilaAlDia(llamador[c])'  BY <1>6, <2>2 DEF FilaAlDia
  <2>4. UnaGuarda'  BY <2>1 DEF UnaGuarda
  <2>5. FilasAlDia'  BY <2>1, <2>3 DEF FilasAlDia
  <2> QED BY <2>4, <2>5
<1>11. ContestadaInv'
  <2>1. RespuestaIntacta'  BY <1>5 DEF ResenasInv, ContestadaInv, RespuestaIntacta
  <2>2. \A d \in Guardan' : llamador'[d].fila # NoResena
    <3>1. fila # NoResena  BY DEF Resena, NoResena, Estado
    <3> QED BY <1>3, <1>6, <1>8, <3>1 DEF Guardan, ResenasInv, ContestadaInv
  <2> QED BY <1>5, <1>10, <2>1, <2>2 DEF ResenasInv, ContestadaInv
<1>12. PedidosConTipo'  BY <1>3, <1>6 DEF ResenasInv, PedidosConTipo, ConTipo
<1> QED BY <1>7, <1>11, <1>12 DEF ResenasInv

LEMMA EditaResena == ASSUME ResenasInv, NEW c \in Llamadores, UpdateResena(c) PROVE ResenasInv'
<1>1. resena # NoResena /\ resena.respuesta = 0 /\ EstaLlamada \in VersionResena
  BY VersionNueva DEF ResenasInv, UpdateResena, LeeResena, Editable
<1>2. PICK f : f = [resena EXCEPT !.texto = EstaLlamada]  OBVIOUS
<1>3. f \in Resena /\ f.respuesta = 0  BY <1>1, <1>2, TipoResena DEF ResenasInv, Resena
<1>4. FilaAlDia([SinLlamador EXCEPT !.paso = "edita", !.fila = f])
  BY <1>1, <1>3 DEF FilaAlDia, SinLlamador
<1>5. LeeResena(c, "edita", f)  BY <1>2 DEF UpdateResena
<1> QED BY <1>3, <1>4, <1>5, LeeSigue

LEMMA RespondeResena == ASSUME ResenasInv, NEW c \in Llamadores, ResponderReview(c)
                        PROVE ResenasInv'
<1>1. PICK r \in {0, EstaLlamada} : LeeResena(c, "responde", [resena EXCEPT !.respuesta = r])
  BY DEF ResponderReview
<1>2. resena # NoResena /\ r \in VersionResena
  BY <1>1, VersionNueva DEF ResenasInv, LeeResena, VersionResena
<1>3. PICK f : f = [resena EXCEPT !.respuesta = r]  OBVIOUS
<1>4. f \in Resena /\ f.texto = resena.texto  BY <1>2, <1>3, TipoResena DEF ResenasInv, Resena
<1>5. FilaAlDia([SinLlamador EXCEPT !.paso = "responde", !.fila = f])
  BY <1>4 DEF FilaAlDia, SinLlamador
<1> QED BY <1>1, <1>3, <1>4, <1>5, LeeSigue

LEMMA ModeraResena ==
    ASSUME ResenasInv, NEW c \in Llamadores, NEW e \in Estado, UpdateEstado(c, e)
    PROVE  ResenasInv'
<1>1. LeeResena(c, "modera", [resena EXCEPT !.estado = e]) /\ resena # NoResena
  BY DEF UpdateEstado, LeeResena
<1>2. PICK f : f = [resena EXCEPT !.estado = e]  OBVIOUS
<1>3. f \in Resena /\ f.texto = resena.texto /\ f.respuesta = resena.respuesta
  BY <1>1, <1>2, TipoResena DEF ResenasInv, Resena
<1>4. FilaAlDia([SinLlamador EXCEPT !.paso = "modera", !.fila = f])
  BY <1>3 DEF FilaAlDia, SinLlamador
<1> QED BY <1>1, <1>2, <1>3, <1>4, LeeSigue

\* A call that ends.
LEMMA ResenaSale ==
    ASSUME ResenasTypeOK, NEW c \in Llamadores, llamador' = [llamador EXCEPT ![c] = SinLlamador]
    PROVE  /\ llamador' \in [Llamadores -> Llamador]
           /\ Guardan' = Guardan \ {c}
           /\ \A d \in Llamadores \ {c} : llamador'[d] = llamador[d]
           /\ PedidosConTipo => PedidosConTipo'
<1>1. SinLlamador \in Llamador /\ SinLlamador.paso = "idle"
  BY DEF SinLlamador, Llamador, VersionResena, NoResena, NoReaccion
<1>2. /\ llamador' \in [Llamadores -> Llamador] /\ llamador'[c] = SinLlamador
      /\ \A d \in Llamadores \ {c} : llamador'[d] = llamador[d]
  BY <1>1, ResenaSigue
<1>3. Guardan' = Guardan \ {c}  BY <1>1, <1>2 DEF Guardan
<1>4. PedidosConTipo => PedidosConTipo'  BY <1>1, <1>2 DEF PedidosConTipo, ConTipo
<1> QED BY <1>2, <1>3, <1>4

LEMMA GuardaLaResena == ASSUME ResenasInv, NEW c \in Llamadores, GuardaResena(c) PROVE ResenasInv'
<1>1. PICK w : w = llamador[c]  OBVIOUS
<1>2. /\ c \in Guardan /\ resena' = w.fila /\ w \in Llamador
      /\ w.paso \in {"edita", "responde", "modera"}
      /\ contestada' = IF w.paso # "responde" THEN contestada
                       ELSE [texto |-> w.fila.texto, respuesta |-> w.fila.respuesta]
      /\ llamador' = [llamador EXCEPT ![c] = SinLlamador]
      /\ UNCHANGED <<reaccion, llamadasResena, solapoResena>>
  BY <1>1 DEF GuardaResena, Guardan, ResenasInv, ResenasTypeOK
<1>3. /\ llamador' \in [Llamadores -> Llamador]
      /\ Guardan' = Guardan \ {c}
      /\ \A d \in Llamadores \ {c} : llamador'[d] = llamador[d]
      /\ PedidosConTipo'
  BY <1>2, ResenaSale DEF ResenasInv
<1>4. w.fila \in Resena /\ w.fila # NoResena  BY <1>1, <1>2 DEF ResenasInv, ContestadaInv, Llamador
<1>5. w.fila.texto \in VersionResena /\ w.fila.respuesta \in VersionResena  BY <1>4 DEF Resena
<1>6. ResenasTypeOK'  BY <1>2, <1>3, <1>4, <1>5 DEF ResenasInv, ResenasTypeOK
<1>7. RespuestaIntacta'
  <2> SUFFICES ASSUME ~solapoResena, contestada'.respuesta # 0
               PROVE  resena'.respuesta = contestada'.respuesta /\ resena'.texto = contestada'.texto
    BY <1>2 DEF RespuestaIntacta
  <2>1. FilaAlDia(w) /\ RespuestaIntacta  BY <1>1, <1>2 DEF ResenasInv, ContestadaInv, FilasAlDia
  <2>2. CASE w.paso = "responde"  BY <1>2, <2>2
  <2>3. CASE w.paso # "responde"  BY <1>2, <2>1, <2>3 DEF FilaAlDia, RespuestaIntacta
  <2> QED BY <2>2, <2>3
<1>8. ~solapoResena' => UnaGuarda' /\ FilasAlDia'
  <2> SUFFICES ASSUME ~solapoResena PROVE UnaGuarda' /\ FilasAlDia'  BY <1>2
  <2>1. Guardan' = {}  BY <1>2, <1>3 DEF ResenasInv, ContestadaInv, UnaGuarda
  <2> QED BY <2>1 DEF UnaGuarda, FilasAlDia
<1>9. \A d \in Guardan' : resena' # NoResena /\ llamador'[d].fila # NoResena
  BY <1>2, <1>3, <1>4 DEF ResenasInv, ContestadaInv, Guardan
<1>10. ContestadaInv'  BY <1>2, <1>4, <1>7, <1>8, <1>9 DEF ContestadaInv
<1> QED BY <1>3, <1>6, <1>10 DEF ResenasInv

\* A call that fails, and what a reader does, leave the review alone.
LEMMA ResenaIgual ==
    ASSUME ResenasInv, ResenasTypeOK', PedidosConTipo', UNCHANGED <<resena, solapoResena,
               contestada>>,
           Guardan' \subseteq Guardan, \A c \in Guardan' : llamador'[c] = llamador[c]
    PROVE  ResenasInv'
<1>1. ASSUME ~solapoResena' PROVE UnaGuarda' /\ FilasAlDia'
  <2>1. UnaGuarda /\ FilasAlDia  BY <1>1 DEF ResenasInv, ContestadaInv
  <2> QED BY <2>1 DEF UnaGuarda, FilasAlDia, FilaAlDia
<1>2. RespuestaIntacta'  BY DEF ResenasInv, ContestadaInv, RespuestaIntacta
<1> QED BY <1>1, <1>2 DEF ResenasInv, ContestadaInv

LEMMA FallaLaResena == ASSUME ResenasInv, NEW c \in Llamadores, FallaResena(c) PROVE ResenasInv'
<1>1. /\ llamador' \in [Llamadores -> Llamador]
      /\ Guardan' = Guardan \ {c}
      /\ \A d \in Llamadores \ {c} : llamador'[d] = llamador[d]
      /\ PedidosConTipo'
  BY ResenaSale DEF ResenasInv, FallaResena
<1>2. ResenasTypeOK'  BY <1>1 DEF ResenasInv, ResenasTypeOK, FallaResena
<1>3. \A d \in Guardan' : llamador'[d] = llamador[d]  BY <1>1 DEF Guardan
<1> QED BY <1>1, <1>2, <1>3, ResenaIgual DEF FallaResena

LEMMA ReaccionaResena ==
    ASSUME ResenasInv, NEW c \in Llamadores, NEW t \in ReaccionTipo, Reaccionar(c, t)
    PROVE  ResenasInv'
<1>1. EstaLlamada \in VersionResena \ {0} /\ llamadasResena' \in VersionResena
  BY VersionNueva DEF ResenasInv, Reaccionar
<1>2. PICK w : w = [SinLlamador EXCEPT !.paso = "reacciona", !.tipo = t, !.id = EstaLlamada,
                                       !.visto = reaccion]
  OBVIOUS
<1>3. w = [paso |-> "reacciona", fila |-> NoResena, tipo |-> t, id |-> EstaLlamada,
           visto |-> reaccion]
  BY <1>2 DEF SinLlamador
<1>4. w \in Llamador  BY <1>1, <1>3 DEF ResenasInv, ResenasTypeOK, Llamador
<1>5. llamador[c] = SinLlamador /\ llamador' = [llamador EXCEPT ![c] = w]
      /\ UNCHANGED <<resena, reaccion, solapoResena, contestada>>
  BY <1>2 DEF Reaccionar
<1>6. /\ llamador' \in [Llamadores -> Llamador]
      /\ llamador'[c] = w /\ \A d \in Llamadores \ {c} : llamador'[d] = llamador[d]
  BY <1>4, <1>5, ResenaSigue DEF ResenasInv
<1>7. ResenasTypeOK'  BY <1>1, <1>5, <1>6 DEF ResenasInv, ResenasTypeOK
<1>8. Guardan' \subseteq Guardan /\ \A d \in Guardan' : llamador'[d] = llamador[d]
  BY <1>3, <1>6 DEF Guardan
<1>9. PedidosConTipo'  BY <1>1, <1>3, <1>6 DEF ResenasInv, PedidosConTipo, ConTipo
<1> QED BY <1>5, <1>7, <1>8, <1>9, ResenaIgual

LEMMA GuardaLaReaccion == ASSUME ResenasInv, NEW c \in Llamadores, GuardaReaccion(c)
                          PROVE ResenasInv'
<1>1. PICK w : w = llamador[c] /\ w \in Llamador  BY DEF ResenasInv, ResenasTypeOK
<1>2. PICK libre : libre = (reaccion.id \in {0, w.visto.id})  OBVIOUS
<1>3. w.paso = "reacciona" /\ w.tipo \in ReaccionTipo /\ w.id \in VersionResena \ {0}
      /\ w.visto \in Reaccion \cup {NoReaccion}
  BY <1>1 DEF GuardaReaccion, ResenasInv, PedidosConTipo, ConTipo, Llamador
<1>4. reaccion' = IF w.visto = NoReaccion
                  THEN IF reaccion = NoReaccion THEN [id |-> w.id, tipo |-> w.tipo] ELSE reaccion
                  ELSE IF ~libre THEN reaccion
                  ELSE IF w.visto.tipo = w.tipo THEN NoReaccion
                  ELSE [w.visto EXCEPT !.tipo = w.tipo]
  BY <1>1, <1>2 DEF GuardaReaccion
<1>5. [id |-> w.id, tipo |-> w.tipo] \in Reaccion  BY <1>3 DEF Reaccion
<1>6. w.visto # NoReaccion => [w.visto EXCEPT !.tipo = w.tipo] \in Reaccion  BY <1>3 DEF Reaccion
<1>7. reaccion' \in Reaccion \cup {NoReaccion}  BY <1>4, <1>5, <1>6 DEF ResenasInv, ResenasTypeOK
<1>8. /\ llamador' \in [Llamadores -> Llamador]
      /\ Guardan' = Guardan \ {c}
      /\ \A d \in Llamadores \ {c} : llamador'[d] = llamador[d]
      /\ PedidosConTipo'
  BY ResenaSale DEF ResenasInv, GuardaReaccion
<1>9. ResenasTypeOK'  BY <1>7, <1>8 DEF ResenasInv, ResenasTypeOK, GuardaReaccion
<1>10. \A d \in Guardan' : llamador'[d] = llamador[d]  BY <1>8 DEF Guardan
<1> QED BY <1>8, <1>9, <1>10, ResenaIgual DEF GuardaReaccion

LEMMA ResenasPaso == ResenasInv /\ [ResenasNext]_resenasVars => ResenasInv'
<1> SUFFICES ASSUME ResenasInv, [ResenasNext]_resenasVars PROVE ResenasInv'  OBVIOUS
<1>1. CASE UNCHANGED resenasVars
  BY <1>1, ResenaIgual DEF resenasVars, ResenasInv, ResenasTypeOK, PedidosConTipo, Guardan
<1>2. CASE CreateResena  BY <1>2, CreaResena
<1>3. ASSUME NEW c \in Llamadores,
             \/ UpdateResena(c) \/ ResponderReview(c) \/ GuardaResena(c)
             \/ GuardaReaccion(c) \/ FallaResena(c)
             \/ \E estado \in Estado : UpdateEstado(c, estado)
             \/ \E tipo \in ReaccionTipo : Reaccionar(c, tipo)
      PROVE  ResenasInv'
  BY <1>3, EditaResena, RespondeResena, GuardaLaResena, GuardaLaReaccion, FallaLaResena,
     ModeraResena, ReaccionaResena
<1> QED BY <1>1, <1>2, <1>3 DEF ResenasNext

LEMMA ResenasSiempre == ResenasSpec => []ResenasInv
  BY ResenasEmpieza, ResenasPaso, PTL DEF ResenasSpec

HIDE ResenasAssumption DEF ResenasAssumption

--------------------
(* Busquedas.  What each request has counted and has still to count, summed *)
(* over the requests, is what the counters lack or exceed.                  *)
USE BusquedasAssumption DEF BusquedasAssumption

\* The ranking: by likes, and stable, so that to rank a ranked list again changes nothing.
EnOrden(q) == \A i, j \in DOMAIN q : i < j => Likes(q[i]) >= Likes(q[j])

LEMMA LikesNat == \A s : Likes(s) \in Nat
<1> SUFFICES ASSUME NEW s PROVE Likes(s) \in Nat  OBVIOUS
<1> DEFINE R == {n \in MeGustaIds : meGusta[n] = s}
<1>1. IsFiniteSet(MeGustaIds)  BY FS_Interval DEF MeGustaIds
<1>2. R \subseteq MeGustaIds  OBVIOUS
<1> HIDE DEF R
<1>3. Cardinality(R) \in Nat  BY ONLY <1>1, <1>2, FS_Subset, FS_CardinalityType
<1> QED BY <1>3 DEF R, Likes

LEMMA RangoLista ==
    ASSUME NEW n \in Nat, NEW q, DOMAIN q = 1 .. n
    PROVE  \E p \in [1 .. n -> 1 .. n] :
              /\ Ordenada(q) = [j \in 1 .. n |-> q[p[j]]]
              /\ \A j, k \in 1 .. n : p[j] = p[k] => j = k
              /\ \A j, k \in 1 .. n : j < k => p[j] \in Delante(q, p[k])
              /\ EnOrden(q) => \A j \in 1 .. n : p[j] = j
<1> DEFINE S == 1 .. n
           D == [i \in S |-> Delante(q, i)]
<1>0. IsFiniteSet(S) /\ Cardinality(S) = n  BY FS_Interval
<1>1. \A i \in S : Likes(q[i]) \in Nat  BY LikesNat
<1>2. D \in [S -> SUBSET S]  BY DEF Delante
<1>3. \A i \in S : i \notin D[i]  BY <1>1 DEF Delante
<1>4. \A i, j \in S : i \in D[j] => D[i] \subseteq D[j]
  <2> SUFFICES ASSUME NEW i \in S, NEW j \in S, i \in D[j], NEW h \in D[i] PROVE h \in D[j]  OBVIOUS
  <2>0. h \in S  BY DEF Delante
  <2>1. PICK a, b, c \in Nat : a = Likes(q[h]) /\ b = Likes(q[i]) /\ c = Likes(q[j])  BY <1>1, <2>0
  <2>2. (a > b \/ (a = b /\ h < i)) /\ (b > c \/ (b = c /\ i < j))  BY <2>1 DEF Delante
  <2>3. a > c \/ (a = c /\ h < j)  BY <2>0, <2>1, <2>2
  <2> QED BY <2>0, <2>1, <2>3 DEF Delante
<1>5. \A i, j \in S : i = j \/ i \in D[j] \/ j \in D[i]
  <2> SUFFICES ASSUME NEW i \in S, NEW j \in S PROVE i = j \/ i \in D[j] \/ j \in D[i]  OBVIOUS
  <2>1. PICK b, c \in Nat : b = Likes(q[i]) /\ c = Likes(q[j])  BY <1>1
  <2> QED BY <2>1 DEF Delante
<1>6. \A i \in S : D[i] = Delante(q, i)  OBVIOUS
<1> HIDE DEF D
<1>7. /\ \A i, j \in S : i \in D[j] => Cardinality(D[i]) < Cardinality(D[j])
      /\ \A i, j \in S : Cardinality(D[i]) = Cardinality(D[j]) => i = j
      /\ \A i \in S : Cardinality(D[i]) \in 0 .. Cardinality(S) - 1
      /\ \A m \in 0 .. Cardinality(S) - 1 : \E i \in S : Cardinality(D[i]) = m
  <2> HIDE DEF S
  <2> QED BY ONLY <1>0, <1>2, <1>3, <1>4, <1>5, RangosDistintos
<1>8. PICK p : p = [j \in S |-> CHOOSE i \in S : Cardinality(Delante(q, i)) = j - 1]  OBVIOUS
<1>9. ASSUME NEW j \in S PROVE p[j] \in S /\ Cardinality(D[p[j]]) = j - 1
  <2>1. j - 1 \in 0 .. n - 1  OBVIOUS
  <2>2. \E i \in S : Cardinality(D[i]) = j - 1  BY <1>0, <1>7, <2>1
  <2>3. \E i \in S : Cardinality(Delante(q, i)) = j - 1  BY <1>6, <2>2
  <2>4. PICK x : x = CHOOSE i \in S : Cardinality(Delante(q, i)) = j - 1  OBVIOUS
  <2>5. x \in S /\ Cardinality(Delante(q, x)) = j - 1  BY <2>3, <2>4
  <2>6. p[j] = x  BY <1>8, <2>4
  <2> QED BY <1>6, <2>5, <2>6
<1>10. p \in [S -> S]  BY <1>8, <1>9
<1>11. Ordenada(q) = [j \in S |-> q[p[j]]]  BY <1>8 DEF Ordenada
<1>12. \A j, k \in S : p[j] = p[k] => j = k
  <2> SUFFICES ASSUME NEW j \in S, NEW k \in S, p[j] = p[k] PROVE j = k  OBVIOUS
  <2>1. j - 1 = k - 1  BY <1>9
  <2> QED BY <2>1
<1>13. ASSUME NEW j \in S, NEW k \in S, j < k PROVE p[j] \in Delante(q, p[k])
  <2>1. p[j] \in S /\ p[k] \in S /\ Cardinality(D[p[j]]) = j - 1 /\ Cardinality(D[p[k]]) = k - 1
    BY <1>9
  <2>2. ~(k - 1 < j - 1) /\ p[j] # p[k]  BY <1>12, <1>13
  <2>3. p[k] \notin D[p[j]]  BY <1>7, <2>1, <2>2
  <2> QED BY <1>5, <1>6, <2>1, <2>2, <2>3
<1>14. ASSUME EnOrden(q), NEW j \in S PROVE p[j] = j
  <2>1. Delante(q, j) = 1 .. j - 1
    <3>1. ASSUME NEW h \in S PROVE h \in Delante(q, j) <=> h < j
      <4>1. PICK b, c \in Nat : b = Likes(q[h]) /\ c = Likes(q[j])  BY <1>1
      <4>2. h < j => b >= c  BY <1>14, <4>1 DEF EnOrden
      <4>3. j < h => c >= b  BY <1>14, <4>1 DEF EnOrden
      <4>4. h \in Delante(q, j) <=> b > c \/ (b = c /\ h < j)  BY <4>1 DEF Delante
      <4> QED BY <4>1, <4>2, <4>3, <4>4
    <3>2. \A h \in Delante(q, j) : h \in S  BY DEF Delante
    <3>3. \A h \in S : h < j <=> h \in 1 .. j - 1  OBVIOUS
    <3>4. 1 .. j - 1 \subseteq S  OBVIOUS
    <3> QED BY <3>1, <3>2, <3>3, <3>4
  <2>2. Cardinality(1 .. j - 1) = j - 1  BY FS_Interval
  <2>3. Cardinality(D[j]) = j - 1  BY <1>6, <2>1, <2>2
  <2> QED BY <1>7, <1>9, <2>3
<1> QED BY <1>10, <1>11, <1>12, <1>13, <1>14

\* The branches found, each once, in some order.
Cuantas == Cardinality(Sucursales)
Barajada(q) ==
    /\ q \in Seq(Sucursales) /\ Len(q) = Cuantas
    /\ \A i, j \in 1 .. Cuantas : q[i] = q[j] => i = j

LEMMA CuantasNat == Cuantas \in Nat
  BY FS_CardinalityType DEF Cuantas

LEMMA ListaOVacia == ASSUME NEW q \in Resultados, q # <<>> PROVE Barajada(q) /\ Cuantas > 0
<1>1. q \in [1 .. Cuantas -> Sucursales] /\ \A i, j \in 1 .. Cuantas : i # j => q[i] # q[j]
  BY DEF Resultados, SetToSeqs, Cuantas
<1>2. q \in Seq(Sucursales) /\ Len(q) = Cuantas  BY <1>1, CuantasNat
<1>3. Cuantas # 0  BY <1>2
<1> QED BY <1>1, <1>2, <1>3, CuantasNat DEF Barajada

LEMMA BarajadaEsLista == ASSUME NEW q, Barajada(q) PROVE q \in Resultados /\ DOMAIN q = 1 .. Cuantas
<1>1. q \in [1 .. Cuantas -> Sucursales]  BY CuantasNat DEF Barajada
<1> QED BY <1>1 DEF Barajada, Resultados, SetToSeqs, Cuantas

\* No branch is missing from a list: it is an injection of as many.
LEMMA TodasEstan ==
    ASSUME NEW q, Barajada(q), NEW s \in Sucursales PROVE \E i \in 1 .. Cuantas : q[i] = s
<1> SUFFICES ASSUME \A i \in 1 .. Cuantas : q[i] # s PROVE FALSE  OBVIOUS
<1> DEFINE S == 1 .. Cuantas
           T == Sucursales \ {s}
<1>1. q \in Injection(S, T)
  <2>1. q \in [S -> T]  BY CuantasNat DEF Barajada
  <2> QED BY <2>1 DEF Injection, IsInjective, Barajada
<1>2. IsFiniteSet(S) /\ Cardinality(S) = Cuantas  BY CuantasNat, FS_Interval
<1>3. IsFiniteSet(T) /\ Cardinality(T) = Cuantas - 1  BY FS_RemoveElement DEF Cuantas
<1> HIDE DEF S, T
<1>4. Cardinality(S) <= Cardinality(T)  BY <1>1, <1>3, FS_Injection
<1> QED BY <1>2, <1>3, <1>4, CuantasNat

LEMMA OrdenadaBien ==
    ASSUME NEW q, Barajada(q)
    PROVE  /\ Barajada(Ordenada(q)) /\ EnOrden(Ordenada(q))
           /\ EnOrden(q) => Ordenada(q) = q
<1>1. Cuantas \in Nat /\ DOMAIN q = 1 .. Cuantas  BY CuantasNat DEF Barajada
<1>2. PICK p \in [1 .. Cuantas -> 1 .. Cuantas] :
              /\ Ordenada(q) = [j \in 1 .. Cuantas |-> q[p[j]]]
              /\ \A j, k \in 1 .. Cuantas : p[j] = p[k] => j = k
              /\ \A j, k \in 1 .. Cuantas : j < k => p[j] \in Delante(q, p[k])
              /\ EnOrden(q) => \A j \in 1 .. Cuantas : p[j] = j
  BY <1>1, RangoLista
<1>3. PICK t : t = Ordenada(q)  OBVIOUS
<1>4. t = [j \in 1 .. Cuantas |-> q[p[j]]] /\ \A j \in 1 .. Cuantas : t[j] = q[p[j]]
          /\ p[j] \in 1 .. Cuantas
  BY <1>2, <1>3
<1>5. t \in Seq(Sucursales) /\ Len(t) = Cuantas /\ DOMAIN t = 1 .. Cuantas
  BY <1>1, <1>4 DEF Barajada
<1>6. Barajada(t)  BY <1>2, <1>4, <1>5 DEF Barajada
<1>7. EnOrden(t)
  <2> SUFFICES ASSUME NEW j \in 1 .. Cuantas, NEW k \in 1 .. Cuantas, j < k
               PROVE  Likes(t[j]) >= Likes(t[k])
    BY <1>5 DEF EnOrden
  <2>1. p[j] \in Delante(q, p[k])  BY <1>2
  <2>2. PICK a, b \in Nat : a = Likes(q[p[j]]) /\ b = Likes(q[p[k]])  BY LikesNat
  <2>3. a >= b  BY <2>1, <2>2 DEF Delante
  <2> QED BY <1>4, <2>2, <2>3
<1>8. EnOrden(q) => t = q  BY <1>1, <1>2, <1>4 DEF Barajada
<1> QED BY <1>3, <1>6, <1>7, <1>8

--------------------
(* What a request at work has counted, and has still to count.             *)

\* What a request at work has counted and has still to count.
Recorriendo(w) == w.paso \in {"sucursal", "negocio"}
Buscando(w) == w.paso \in {"interpreta", "likes"}
MAvance(w) == IF w.paso = "sucursal" THEN w.i - 1 ELSE IF w.paso = "negocio" THEN w.i ELSE 0
MNegocio(w) == IF w.paso = "sucursal" /\ w.contado THEN 1 ELSE 0
MFalta(w) == IF Buscando(w) THEN Cuantas
             ELSE IF Recorriendo(w) THEN Cuantas - MAvance(w) ELSE 0
MPendiente(w) == IF Buscando(w) THEN Cuantas
                 ELSE IF w.paso = "negocio" \/ (w.paso = "sucursal" /\ ~w.contado)
                 THEN Cuantas - w.i + 1 ELSE 0
MBusca(w) == IF Buscando(w) \/ Recorriendo(w) THEN 1 ELSE 0
MVista(w, li, s) == IF \E j \in 1 .. MAvance(w) : li[w.lista][j] = s THEN 1 ELSE 0

SAvance(at) == Sumatoria([b \in Atenciones |-> MAvance(at[b])], Atenciones)
SNegocio(at) == Sumatoria([b \in Atenciones |-> MNegocio(at[b])], Atenciones)
SFalta(at) == Sumatoria([b \in Atenciones |-> MFalta(at[b])], Atenciones)
SPendiente(at) == Sumatoria([b \in Atenciones |-> MPendiente(at[b])], Atenciones)
SBusca(at) == Sumatoria([b \in Atenciones |-> MBusca(at[b])], Atenciones)
SVista(at, li, s) == Sumatoria([b \in Atenciones |-> MVista(at[b], li, s)], Atenciones)

ConIndice(w) == Recorriendo(w) => w.i \in 1 .. Cuantas
MedidasDe(w) == /\ MAvance(w) \in Nat /\ MNegocio(w) \in Nat /\ MFalta(w) \in Nat
                /\ MPendiente(w) \in Nat /\ MBusca(w) \in Nat

LEMMA MedidaNat == ASSUME NEW w, ConIndice(w) PROVE MedidasDe(w)
  BY CuantasNat DEF MedidasDe, ConIndice, Recorriendo, Buscando, MAvance, MNegocio, MFalta,
                    MPendiente, MBusca

LEMMA CambiaUna ==
    ASSUME NEW at, NEW au, \A d \in Atenciones : ConIndice(at[d]) /\ ConIndice(au[d]),
           NEW b \in Atenciones, \A d \in Atenciones : d # b => au[d] = at[d]
    PROVE  /\ SAvance(at) \in Nat /\ SNegocio(at) \in Nat /\ SFalta(at) \in Nat
           /\ SPendiente(at) \in Nat /\ SBusca(at) \in Nat
           /\ SAvance(au) = SAvance(at) - MAvance(at[b]) + MAvance(au[b])
           /\ SNegocio(au) = SNegocio(at) - MNegocio(at[b]) + MNegocio(au[b])
           /\ SFalta(au) = SFalta(at) - MFalta(at[b]) + MFalta(au[b])
           /\ SPendiente(au) = SPendiente(at) - MPendiente(at[b]) + MPendiente(au[b])
           /\ SBusca(au) = SBusca(at) - MBusca(at[b]) + MBusca(au[b])
<1>0. \A d \in Atenciones : MedidasDe(at[d]) /\ MedidasDe(au[d])  BY MedidaNat
<1>1. SAvance(at) \in Nat /\ SAvance(au) = SAvance(at) - MAvance(at[b]) + MAvance(au[b])
  <2>1. PICK f, h : f = [d \in Atenciones |-> MAvance(at[d])]
                 /\ h = [d \in Atenciones |-> MAvance(au[d])]
    OBVIOUS
  <2>2. \A d \in Atenciones : f[d] \in Nat /\ h[d] \in Nat /\ f[d] \in Int /\ h[d] \in Int
    BY <1>0, <2>1 DEF MedidasDe
  <2>3. \A d \in Atenciones : d # b => f[d] = h[d]  BY <2>1
  <2>4. Sumatoria(f, Atenciones) \in Nat  BY ONLY IsFiniteSet(Atenciones), <2>2, SumaNat
  <2>5. Sumatoria(h, Atenciones) = Sumatoria(f, Atenciones) - f[b] + h[b]
    BY ONLY IsFiniteSet(Atenciones), b \in Atenciones, <2>2, <2>3, SumaCambia
  <2> QED BY <2>1, <2>4, <2>5 DEF SAvance
<1>2. SNegocio(at) \in Nat /\ SNegocio(au) = SNegocio(at) - MNegocio(at[b]) + MNegocio(au[b])
  <2>1. PICK f, h : f = [d \in Atenciones |-> MNegocio(at[d])]
                 /\ h = [d \in Atenciones |-> MNegocio(au[d])]
    OBVIOUS
  <2>2. \A d \in Atenciones : f[d] \in Nat /\ h[d] \in Nat /\ f[d] \in Int /\ h[d] \in Int
    BY <1>0, <2>1 DEF MedidasDe
  <2>3. \A d \in Atenciones : d # b => f[d] = h[d]  BY <2>1
  <2>4. Sumatoria(f, Atenciones) \in Nat  BY ONLY IsFiniteSet(Atenciones), <2>2, SumaNat
  <2>5. Sumatoria(h, Atenciones) = Sumatoria(f, Atenciones) - f[b] + h[b]
    BY ONLY IsFiniteSet(Atenciones), b \in Atenciones, <2>2, <2>3, SumaCambia
  <2> QED BY <2>1, <2>4, <2>5 DEF SNegocio
<1>3. SFalta(at) \in Nat /\ SFalta(au) = SFalta(at) - MFalta(at[b]) + MFalta(au[b])
  <2>1. PICK f, h : f = [d \in Atenciones |-> MFalta(at[d])]
                 /\ h = [d \in Atenciones |-> MFalta(au[d])]
    OBVIOUS
  <2>2. \A d \in Atenciones : f[d] \in Nat /\ h[d] \in Nat /\ f[d] \in Int /\ h[d] \in Int
    BY <1>0, <2>1 DEF MedidasDe
  <2>3. \A d \in Atenciones : d # b => f[d] = h[d]  BY <2>1
  <2>4. Sumatoria(f, Atenciones) \in Nat  BY ONLY IsFiniteSet(Atenciones), <2>2, SumaNat
  <2>5. Sumatoria(h, Atenciones) = Sumatoria(f, Atenciones) - f[b] + h[b]
    BY ONLY IsFiniteSet(Atenciones), b \in Atenciones, <2>2, <2>3, SumaCambia
  <2> QED BY <2>1, <2>4, <2>5 DEF SFalta
<1>4. SPendiente(at) \in Nat
      /\ SPendiente(au) = SPendiente(at) - MPendiente(at[b]) + MPendiente(au[b])
  <2>1. PICK f, h : f = [d \in Atenciones |-> MPendiente(at[d])]
                    /\ h = [d \in Atenciones |-> MPendiente(au[d])]
    OBVIOUS
  <2>2. \A d \in Atenciones : f[d] \in Nat /\ h[d] \in Nat /\ f[d] \in Int /\ h[d] \in Int
    BY <1>0, <2>1 DEF MedidasDe
  <2>3. \A d \in Atenciones : d # b => f[d] = h[d]  BY <2>1
  <2>4. Sumatoria(f, Atenciones) \in Nat  BY ONLY IsFiniteSet(Atenciones), <2>2, SumaNat
  <2>5. Sumatoria(h, Atenciones) = Sumatoria(f, Atenciones) - f[b] + h[b]
    BY ONLY IsFiniteSet(Atenciones), b \in Atenciones, <2>2, <2>3, SumaCambia
  <2> QED BY <2>1, <2>4, <2>5 DEF SPendiente
<1>5. SBusca(at) \in Nat /\ SBusca(au) = SBusca(at) - MBusca(at[b]) + MBusca(au[b])
  <2>1. PICK f, h : f = [d \in Atenciones |-> MBusca(at[d])]
                 /\ h = [d \in Atenciones |-> MBusca(au[d])]
    OBVIOUS
  <2>2. \A d \in Atenciones : f[d] \in Nat /\ h[d] \in Nat /\ f[d] \in Int /\ h[d] \in Int
    BY <1>0, <2>1 DEF MedidasDe
  <2>3. \A d \in Atenciones : d # b => f[d] = h[d]  BY <2>1
  <2>4. Sumatoria(f, Atenciones) \in Nat  BY ONLY IsFiniteSet(Atenciones), <2>2, SumaNat
  <2>5. Sumatoria(h, Atenciones) = Sumatoria(f, Atenciones) - f[b] + h[b]
    BY ONLY IsFiniteSet(Atenciones), b \in Atenciones, <2>2, <2>3, SumaCambia
  <2> QED BY <2>1, <2>4, <2>5 DEF SBusca
<1> QED BY <1>1, <1>2, <1>3, <1>4, <1>5

LEMMA CambiaVista ==
    ASSUME NEW at, NEW au, NEW li, NEW lj, NEW s, NEW b \in Atenciones,
           \A d \in Atenciones : d # b => MVista(au[d], lj, s) = MVista(at[d], li, s)
    PROVE  /\ SVista(at, li, s) \in Nat
           /\ SVista(au, lj, s) = SVista(at, li, s) - MVista(at[b], li, s) + MVista(au[b], lj, s)
<1>1. PICK f, h : f = [d \in Atenciones |-> MVista(at[d], li, s)]
                  /\ h = [d \in Atenciones |-> MVista(au[d], lj, s)]
  OBVIOUS
<1>2. \A d \in Atenciones : f[d] \in Nat /\ h[d] \in Nat /\ f[d] \in Int /\ h[d] \in Int
  BY <1>1 DEF MVista
<1>3. \A d \in Atenciones : d # b => f[d] = h[d]  BY <1>1
<1>4. Sumatoria(f, Atenciones) \in Nat  BY ONLY IsFiniteSet(Atenciones), <1>2, SumaNat
<1>5. Sumatoria(h, Atenciones) = Sumatoria(f, Atenciones) - f[b] + h[b]
  BY ONLY IsFiniteSet(Atenciones), b \in Atenciones, <1>2, <1>3, SumaCambia
<1> QED BY <1>1, <1>4, <1>5 DEF SVista

\* The shapes, and where each request stands.
Bien(w) ==
    /\ Buscando(w) \/ Recorriendo(w) => w.lista \in 1 .. busquedas
    /\ w.paso = "interpreta" => lista[w.lista] = <<>>
    /\ w.paso = "likes" \/ Recorriendo(w) => lista[w.lista] # <<>>
    /\ Buscando(w) => ~w.contado
    /\ Recorriendo(w) => w.i \in 1 .. Cuantas /\ w.actual \in Sucursales
    /\ w.paso = "negocio" => w.contado
    /\ w.paso = "quita" => w.id \in MeGustaIds
BusqForma ==
    /\ lista \in [Listas -> Resultados]
    /\ guardada \in 0 .. busquedas /\ (guardada # 0 => lista[guardada] # <<>>)
    /\ meGusta \in [MeGustaIds -> Sucursales \cup {NoSucursal}]
    /\ cuenta \in [Sucursales -> Nat] /\ cuentaNegocio \in Nat /\ terminadas \in Nat
    /\ atencion \in [Atenciones -> Atencion]
    /\ busquedas \in 0 .. MaxBusquedas /\ toques \in 0 .. MaxToques
    /\ fallasBusqueda \in 0 .. MaxFallasBusqueda
    /\ gustosMovidos \in BOOLEAN
    /\ \A n \in Listas : n > busquedas => lista[n] = <<>>
    /\ \A b \in Atenciones : Bien(atencion[b])
    /\ \A b, d \in Atenciones :
         b # d /\ Esta(b, "interpreta") /\ Esta(d, "interpreta") =>
             atencion[b].lista # atencion[d].lista

TotalBusquedas == Cuantas * busquedas
SinFallas == fallasBusqueda = 0
Cotas ==
    /\ \A s \in Sucursales : cuenta[s] + SFalta(atencion) <= TotalBusquedas
    /\ cuentaNegocio + SPendiente(atencion) <= TotalBusquedas
    /\ terminadas + SBusca(atencion) <= busquedas
Sumadas ==
    SinFallas => /\ cuentaNegocio = terminadas + SNegocio(atencion)
                 /\ Sumatoria(cuenta, Sucursales) = Cuantas * terminadas + SAvance(atencion)
EnFila ==
    SinFallas /\ ~gustosMovidos =>
        /\ \A s \in Sucursales : cuenta[s] = terminadas + SVista(atencion, lista, s)
        /\ \A b \in Atenciones : Recorriendo(atencion[b]) =>
             EnOrden(lista[atencion[b].lista])
             /\ atencion[b].actual = lista[atencion[b].lista][atencion[b].i]
BusqInv == BusqForma /\ Cotas /\ Sumadas /\ EnFila

LEMMA IndicesBien == ASSUME BusqForma PROVE \A b \in Atenciones : ConIndice(atencion[b])
  BY DEF BusqForma, Bien, ConIndice

LEMMA ListaBien ==
    ASSUME BusqForma, NEW b \in Atenciones,
           Esta(b, "likes") \/ Recorriendo(atencion[b])
    PROVE  /\ Barajada(lista[atencion[b].lista]) /\ Cuantas > 0
           /\ atencion[b].lista \in Listas /\ atencion[b].lista \in 1 .. busquedas
<1>1. Bien(atencion[b]) /\ lista \in [Listas -> Resultados] /\ busquedas \in 0 .. MaxBusquedas
  BY DEF BusqForma
<1>2. atencion[b].lista \in 1 .. busquedas /\ lista[atencion[b].lista] # <<>>
  BY <1>1 DEF Bien, Esta, Buscando, Recorriendo
<1>3. atencion[b].lista \in Listas  BY <1>1, <1>2 DEF Listas
<1>4. lista[atencion[b].lista] \in Resultados  BY <1>1, <1>3
<1> QED BY <1>2, <1>3, <1>4, ListaOVacia

LEMMA SinAtencionBien ==
    /\ SinAtencion \in Atencion /\ SinAtencion.paso = "idle" /\ ~SinAtencion.contado
    /\ MAvance(SinAtencion) = 0 /\ MNegocio(SinAtencion) = 0 /\ MFalta(SinAtencion) = 0
    /\ MPendiente(SinAtencion) = 0 /\ MBusca(SinAtencion) = 0
    /\ ~Recorriendo(SinAtencion) /\ ~Buscando(SinAtencion)
<1>1. 0 \in 0 .. Cardinality(Sucursales)  BY CuantasNat DEF Cuantas
<1> QED BY <1>1 DEF SinAtencion, Atencion, MAvance, MNegocio, MFalta, MPendiente, MBusca,
                    Recorriendo, Buscando

LEMMA BusqEmpieza == BusquedasInit => BusqInv
<1> SUFFICES ASSUME BusquedasInit PROVE BusqInv  OBVIOUS
<1>1. \A b \in Atenciones : atencion[b] = SinAtencion  BY DEF BusquedasInit
<1>2. <<>> \in Resultados  BY DEF Resultados
<1>3. BusqForma
  <2>1. \A b \in Atenciones : Bien(atencion[b])
    BY <1>1, SinAtencionBien DEF Bien, Recorriendo, Buscando
  <2>2. atencion \in [Atenciones -> Atencion] /\ lista \in [Listas -> Resultados]
        /\ \A n \in Listas : lista[n] = <<>>
    BY <1>2, SinAtencionBien DEF BusquedasInit
  <2>3. meGusta \in [MeGustaIds -> Sucursales \cup {NoSucursal}] /\ cuenta \in [Sucursales -> Nat]
    BY DEF BusquedasInit
  <2>4. gustosMovidos \in BOOLEAN  BY DEF BusquedasInit
  <2>5. \A b \in Atenciones : ~Esta(b, "interpreta")  BY <1>1, SinAtencionBien DEF Esta
  <2>6. guardada = 0 /\ busquedas = 0 /\ cuentaNegocio = 0 /\ terminadas = 0 /\ toques = 0
        /\ fallasBusqueda = 0
    BY DEF BusquedasInit
  <2> QED BY <2>1, <2>2, <2>3, <2>4, <2>5, <2>6 DEF BusqForma
<1>4. /\ SAvance(atencion) = 0 /\ SNegocio(atencion) = 0 /\ SFalta(atencion) = 0
      /\ SPendiente(atencion) = 0 /\ SBusca(atencion) = 0
  BY <1>1, SinAtencionBien, SumaCeros
     DEF SAvance, SNegocio, SFalta, SPendiente, SBusca
<1>5. \A s : SVista(atencion, lista, s) = 0
  <2> SUFFICES ASSUME NEW s PROVE SVista(atencion, lista, s) = 0  OBVIOUS
  <2>1. \A b \in Atenciones : MVista(atencion[b], lista, s) = 0  BY <1>1, SinAtencionBien DEF MVista
  <2> QED BY <2>1, SumaCeros DEF SVista
<1>6. \A s \in Sucursales : cuenta[s] = 0  BY DEF BusquedasInit
<1>7. Sumatoria(cuenta, Sucursales) = 0  BY ONLY IsFiniteSet(Sucursales), <1>6, SumaCeros
<1>8. busquedas = 0 /\ cuentaNegocio = 0 /\ terminadas = 0  BY DEF BusquedasInit
<1>9. Cotas /\ Sumadas  BY <1>4, <1>6, <1>7, <1>8, CuantasNat DEF Cotas, Sumadas, TotalBusquedas
<1>10. EnFila  BY <1>1, <1>5, <1>6, <1>8, SinAtencionBien DEF EnFila
<1> QED BY <1>3, <1>9, <1>10 DEF BusqInv

--------------------
(* The shapes and the bounds after a step.                                 *)

LEMMA AtiendeUno ==
    ASSUME BusqForma, NEW b \in Atenciones, NEW w \in Atencion, Atiende(b, w)
    PROVE  /\ atencion' \in [Atenciones -> Atencion] /\ atencion'[b] = w
           /\ \A d \in Atenciones : d # b => atencion'[d] = atencion[d]
  BY DEF BusqForma, Atiende

Demas ==
    /\ meGusta' \in [MeGustaIds -> Sucursales \cup {NoSucursal}]
    /\ cuenta' \in [Sucursales -> Nat] /\ cuentaNegocio' \in Nat /\ terminadas' \in Nat
    /\ toques' \in 0 .. MaxToques /\ fallasBusqueda' \in 0 .. MaxFallasBusqueda
    /\ gustosMovidos' \in BOOLEAN

\* The shapes after a step of b that touches no list.
LEMMA FormaUna ==
    ASSUME BusqForma, NEW b \in Atenciones, NEW w \in Atencion, Atiende(b, w),
           UNCHANGED <<lista, guardada, busquedas>>, Demas, Bien(w), w.paso # "interpreta"
    PROVE  BusqForma'
<1>1. /\ atencion' \in [Atenciones -> Atencion] /\ atencion'[b] = w
      /\ \A d \in Atenciones : d # b => atencion'[d] = atencion[d]
  BY AtiendeUno
<1>2. \A d \in Atenciones : Bien(atencion[d])'  BY <1>1 DEF BusqForma, Bien
<1>3. \A c, d \in Atenciones :
        c # d /\ Esta(c, "interpreta")' /\ Esta(d, "interpreta")' =>
          atencion'[c].lista # atencion'[d].lista
  BY <1>1 DEF BusqForma, Esta
<1>4. /\ lista' \in [Listas -> Resultados] /\ guardada' \in 0 .. busquedas'
      /\ (guardada' # 0 => lista'[guardada'] # <<>>) /\ busquedas' \in 0 .. MaxBusquedas
      /\ \A n \in Listas : n > busquedas' => lista'[n] = <<>>
  BY DEF BusqForma
<1> QED BY <1>1, <1>2, <1>3, <1>4 DEF BusqForma, Demas

\* The shapes after a step of b that writes the list it holds.
LEMMA FormaLista ==
    ASSUME BusqForma, NEW b \in Atenciones, NEW w \in Atencion, Atiende(b, w), Demas,
           NEW n \in Listas, n <= busquedas, NEW r \in Resultados,
           lista' = [lista EXCEPT ![n] = r],
           r = <<>> => lista[n] = <<>>, UNCHANGED busquedas,
           guardada' = guardada \/ (guardada' = n /\ r # <<>>),
           \A d \in Atenciones : d # b /\ Esta(d, "interpreta") => atencion[d].lista # n,
           Bien(w)', w.paso # "interpreta"
    PROVE  BusqForma'
<1>1. /\ atencion' \in [Atenciones -> Atencion] /\ atencion'[b] = w
      /\ \A d \in Atenciones : d # b => atencion'[d] = atencion[d]
  BY AtiendeUno
<1>2. /\ lista' \in [Listas -> Resultados] /\ lista'[n] = r
      /\ \A m \in Listas : m # n => lista'[m] = lista[m]
  BY DEF BusqForma
<1>3. \A m \in Listas : lista[m] # <<>> => lista'[m] # <<>>  BY <1>2
<1>4. ASSUME NEW d \in Atenciones PROVE Bien(atencion[d])'
  <2>1. CASE d = b  BY <1>1, <2>1 DEF Bien
  <2>2. CASE d # b
    <3>1. PICK x : x = atencion[d] /\ x = atencion'[d] /\ Bien(x)  BY <1>1, <2>2 DEF BusqForma
    <3>2. Buscando(x) \/ Recorriendo(x) => x.lista \in 1 .. busquedas /\ x.lista \in Listas
      BY <3>1 DEF Bien, BusqForma, Listas
    <3>3. x.paso = "interpreta" => lista'[x.lista] = <<>>
      BY <2>2, <3>1, <3>2, <1>2 DEF Esta, Buscando, Bien
    <3>4. x.paso = "likes" \/ Recorriendo(x) => lista'[x.lista] # <<>>
      BY <1>3, <3>1, <3>2 DEF Bien, Buscando
    <3> QED BY <3>1, <3>2, <3>3, <3>4 DEF Bien
  <2> QED BY <2>1, <2>2
<1>5. \A c, d \in Atenciones :
        c # d /\ Esta(c, "interpreta")' /\ Esta(d, "interpreta")' =>
          atencion'[c].lista # atencion'[d].lista
  BY <1>1 DEF BusqForma, Esta
<1>6. guardada' \in 0 .. busquedas' /\ (guardada' # 0 => lista'[guardada'] # <<>>)
  <2>1. CASE guardada' = guardada  BY <1>3, <2>1 DEF BusqForma, Listas
  <2>2. CASE guardada' = n /\ r # <<>>  BY <1>2, <2>2 DEF Listas
  <2> QED BY <2>1, <2>2
<1>7. /\ busquedas' \in 0 .. MaxBusquedas
      /\ \A m \in Listas : m > busquedas' => lista'[m] = <<>>
  BY <1>2 DEF Listas, BusqForma
<1> QED BY <1>1, <1>2, <1>4, <1>5, <1>6, <1>7 DEF BusqForma, Demas

LEMMA CotasSiguen ==
    ASSUME BusqInv, BusqForma', NEW b \in Atenciones,
           \A d \in Atenciones : d # b => atencion'[d] = atencion[d],
           NEW k \in {0, 1}, NEW kt, kt = IF k = 0 THEN 0 ELSE Cuantas, busquedas' = busquedas + k,
           \A s \in Sucursales :
             cuenta'[s] + MFalta(atencion'[b]) <= cuenta[s] + MFalta(atencion[b]) + kt,
           cuentaNegocio' + MPendiente(atencion'[b]) <=
               cuentaNegocio + MPendiente(atencion[b]) + kt,
           terminadas' + MBusca(atencion'[b]) <= terminadas + MBusca(atencion[b]) + k
    PROVE  Cotas'
<1>1. \A d \in Atenciones : ConIndice(atencion[d]) /\ ConIndice(atencion'[d])
  BY IndicesBien DEF BusqForma, Bien, ConIndice, Recorriendo, BusqInv
<1>2. PICK v, w : v = atencion[b] /\ w = atencion'[b] /\ MedidasDe(v) /\ MedidasDe(w)
  BY <1>1, MedidaNat
<1>3. PICK f, p, e, ff, pp, ee :
        /\ f = SFalta(atencion) /\ p = SPendiente(atencion) /\ e = SBusca(atencion)
        /\ ff = SFalta(atencion') /\ pp = SPendiente(atencion') /\ ee = SBusca(atencion')
        /\ f \in Nat /\ p \in Nat /\ e \in Nat
        /\ ff = f - MFalta(v) + MFalta(w) /\ pp = p - MPendiente(v) + MPendiente(w)
        /\ ee = e - MBusca(v) + MBusca(w)
  BY <1>1, <1>2, CambiaUna
<1>4. PICK t, tt, q \in Nat : t = TotalBusquedas /\ tt = Cuantas * (busquedas + k) /\ tt = t + kt
               /\ q = busquedas
  <2>1. PICK n, q \in Nat : n = Cuantas /\ q = busquedas  BY CuantasNat DEF BusqInv, BusqForma
  <2>2. n * q \in Nat /\ n * (q + 0) = n * q + 0 /\ n * (q + 1) = n * q + n /\ n * (q + 1) \in Nat
    BY <2>1
  <2>3. CASE k = 0  BY <2>1, <2>2, <2>3 DEF TotalBusquedas
  <2>4. CASE k = 1  BY <2>1, <2>2, <2>4 DEF TotalBusquedas
  <2> QED BY <2>3, <2>4
<1>5. PICK mf, mp, me, nf, np, ne \in Nat :
        /\ mf = MFalta(v) /\ mp = MPendiente(v) /\ me = MBusca(v)
        /\ nf = MFalta(w) /\ np = MPendiente(w) /\ ne = MBusca(w)
  BY <1>2 DEF MedidasDe
<1>6. \A s \in Sucursales : cuenta'[s] + ff <= tt
  <2> SUFFICES ASSUME NEW s \in Sucursales PROVE cuenta'[s] + ff <= tt  OBVIOUS
  <2>1. PICK c, d \in Nat : c = cuenta[s] /\ d = cuenta'[s]  BY DEF BusqInv, BusqForma
  <2>2. d + nf <= c + mf + kt  BY <1>2, <1>5, <2>1
  <2>3. c + f <= t  BY <1>3, <1>4, <2>1 DEF BusqInv, Cotas
  <2> QED BY <1>3, <1>4, <1>5, <2>1, <2>2, <2>3
<1>7. cuentaNegocio' + pp <= tt
  <2>1. PICK c, d \in Nat : c = cuentaNegocio /\ d = cuentaNegocio'  BY DEF BusqInv, BusqForma
  <2>2. d + np <= c + mp + kt  BY <1>2, <1>5, <2>1
  <2>3. c + p <= t  BY <1>3, <1>4, <2>1 DEF BusqInv, Cotas
  <2> QED BY <1>3, <1>4, <1>5, <2>1, <2>2, <2>3
<1>8. terminadas' + ee <= busquedas'
  <2>1. PICK c, d \in Nat : c = terminadas /\ d = terminadas'  BY DEF BusqInv, BusqForma
  <2>2. d + ne <= c + me + k  BY <1>2, <1>5, <2>1
  <2>3. c + e <= q  BY <1>3, <1>4, <2>1 DEF BusqInv, Cotas
  <2> QED BY <1>3, <1>4, <1>5, <2>1, <2>2, <2>3
<1>9. TotalBusquedas' = tt  BY <1>4 DEF TotalBusquedas, Cuantas
<1> QED BY <1>3, <1>6, <1>7, <1>8, <1>9 DEF Cotas

\* A step that counts nothing: those that walk a list find it as it was.
LEMMA Quieta ==
    ASSUME BusqInv, BusqForma', NEW b \in Atenciones,
           \A d \in Atenciones : d # b => atencion'[d] = atencion[d],
           MAvance(atencion[b]) = 0, MAvance(atencion'[b]) = 0,
           MNegocio(atencion[b]) = 0, MNegocio(atencion'[b]) = 0,
           \A d \in Atenciones : d # b /\ Recorriendo(atencion[d]) /\ ~gustosMovidos'
               /\ SinFallas' =>
               lista'[atencion[d].lista] = lista[atencion[d].lista],
           UNCHANGED <<cuenta, cuentaNegocio, terminadas>>,
           Cotas', SinFallas' => SinFallas, gustosMovidos => gustosMovidos',
           meGusta' = meGusta \/ gustosMovidos' \/ busquedas = 0,
           SinFallas' /\ ~gustosMovidos' /\ Recorriendo(atencion'[b]) =>
               EnOrden(lista[atencion[b].lista])'
               /\ atencion'[b].actual = lista'[atencion'[b].lista][atencion'[b].i]
    PROVE  BusqInv'
<1>1. \A d \in Atenciones : ConIndice(atencion[d]) /\ ConIndice(atencion'[d])
  BY IndicesBien DEF BusqForma, Bien, ConIndice, Recorriendo, BusqInv
<1>2. /\ SAvance(atencion) \in Nat /\ SNegocio(atencion) \in Nat
      /\ SAvance(atencion') = SAvance(atencion) /\ SNegocio(atencion') = SNegocio(atencion)
  BY <1>1, CambiaUna
<1>3. Sumadas'  BY <1>2 DEF BusqInv, Sumadas, Cuantas
<1>4. ASSUME SinFallas', ~gustosMovidos', NEW s \in Sucursales
      PROVE  cuenta'[s] = terminadas' + SVista(atencion', lista', s)
  <2>1. \A d \in Atenciones : d # b => MVista(atencion'[d], lista', s) =
            MVista(atencion[d], lista, s)
    <3> SUFFICES ASSUME NEW d \in Atenciones, d # b
                 PROVE  MVista(atencion'[d], lista', s) = MVista(atencion[d], lista, s)
      OBVIOUS
    <3>1. CASE Recorriendo(atencion[d])  BY <1>4, <3>1 DEF MVista
    <3>2. CASE ~Recorriendo(atencion[d])  BY <3>2 DEF MAvance, Recorriendo, MVista
    <3> QED BY <3>1, <3>2
  <2>2. MVista(atencion[b], lista, s) = 0 /\ MVista(atencion'[b], lista', s) = 0  BY DEF MVista
  <2>3. SVista(atencion, lista, s) \in Nat
        /\ SVista(atencion', lista', s) = SVista(atencion, lista, s)
    BY <2>1, <2>2, CambiaVista
  <2>4. cuenta[s] = terminadas + SVista(atencion, lista, s)  BY <1>4 DEF BusqInv, EnFila
  <2> QED BY <2>3, <2>4
<1>5. ASSUME SinFallas', ~gustosMovidos', NEW d \in Atenciones, Recorriendo(atencion'[d])
      PROVE  EnOrden(lista[atencion[d].lista])'
             /\ atencion'[d].actual = lista'[atencion'[d].lista][atencion'[d].i]
  <2>1. CASE d = b  BY <1>5, <2>1
  <2>2. CASE d # b
    <3>1. atencion'[d] = atencion[d] /\ Recorriendo(atencion[d])
          /\ lista'[atencion[d].lista] = lista[atencion[d].lista]
      BY <1>5, <2>2
    <3>2. /\ EnOrden(lista[atencion[d].lista])
          /\ atencion[d].actual = lista[atencion[d].lista][atencion[d].i]
      BY <1>5, <3>1 DEF BusqInv, EnFila
    <3>3. meGusta' = meGusta  BY <3>1, <1>5 DEF BusqInv, BusqForma, Bien
    <3>4. EnOrden(lista[atencion[d].lista])'  BY <3>1, <3>2, <3>3 DEF EnOrden, Likes
    <3> QED BY <3>1, <3>2, <3>4
  <2> QED BY <2>1, <2>2
<1>6. EnFila'  BY <1>4, <1>5 DEF EnFila, Recorriendo
<1> QED BY <1>3, <1>6 DEF BusqInv

--------------------
(* A reader at the likes.                                                  *)

LEMMA SinMedida ==
    ASSUME NEW w, ~Buscando(w), ~Recorriendo(w)
    PROVE  /\ MAvance(w) = 0 /\ MNegocio(w) = 0 /\ MFalta(w) = 0
           /\ MPendiente(w) = 0 /\ MBusca(w) = 0
  BY DEF Buscando, Recorriendo, MAvance, MNegocio, MFalta, MPendiente, MBusca

\* A step of a reader at the likes.
LEMMA DeGustos ==
    ASSUME BusqInv, NEW b \in Atenciones, NEW w \in Atencion, Atiende(b, w),
           ~Buscando(atencion[b]), ~Recorriendo(atencion[b]), ~Buscando(w), ~Recorriendo(w),
           w.paso = "quita" => w.id \in MeGustaIds,
           UNCHANGED <<lista, guardada, busquedas, cuenta, cuentaNegocio, terminadas,
               fallasBusqueda>>,
           meGusta' \in [MeGustaIds -> Sucursales \cup {NoSucursal}],
           toques' \in 0 .. MaxToques,
           gustosMovidos' \in BOOLEAN, gustosMovidos => gustosMovidos',
           meGusta' = meGusta \/ gustosMovidos' \/ busquedas = 0
    PROVE  BusqInv'
<1>1. /\ atencion' \in [Atenciones -> Atencion] /\ atencion'[b] = w
      /\ \A d \in Atenciones : d # b => atencion'[d] = atencion[d]
  BY AtiendeUno DEF BusqInv
<1>2. Demas  BY DEF Demas, BusqInv, BusqForma
<1>3. Bien(w) /\ w.paso # "interpreta"  BY DEF Bien, Buscando, Recorriendo
<1>4. BusqForma'  BY <1>2, <1>3, FormaUna DEF BusqInv
<1>5. /\ MAvance(atencion[b]) = 0 /\ MNegocio(atencion[b]) = 0 /\ MFalta(atencion[b]) = 0
      /\ MPendiente(atencion[b]) = 0 /\ MBusca(atencion[b]) = 0
      /\ MAvance(atencion'[b]) = 0 /\ MNegocio(atencion'[b]) = 0 /\ MFalta(atencion'[b]) = 0
      /\ MPendiente(atencion'[b]) = 0 /\ MBusca(atencion'[b]) = 0
  BY <1>1, SinMedida
<1>6. Cotas'
  <2>1. cuenta \in [Sucursales -> Nat] /\ cuentaNegocio \in Nat /\ terminadas \in Nat
        /\ busquedas \in Nat
    BY DEF BusqInv, BusqForma
  <2>2. busquedas' = busquedas + 0  BY <2>1
  <2>3. \A s \in Sucursales :
          cuenta'[s] + MFalta(atencion'[b]) <= cuenta[s] + MFalta(atencion[b]) + 0
    BY <1>5, <2>1
  <2>4. /\ cuentaNegocio' + MPendiente(atencion'[b]) <= cuentaNegocio + MPendiente(atencion[b]) + 0
        /\ terminadas' + MBusca(atencion'[b]) <= terminadas + MBusca(atencion[b]) + 0
    BY <1>5, <2>1
  <2>5. 0 = IF 0 = 0 THEN 0 ELSE Cuantas  OBVIOUS
  <2> QED BY <1>1, <1>4, <2>2, <2>3, <2>4, <2>5, CotasSiguen
<1>7. ~Recorriendo(atencion'[b])  BY <1>1
<1> QED BY <1>1, <1>4, <1>5, <1>6, <1>7, Quieta DEF SinFallas

LEMMA TocaBien == ASSUME BusqInv, NEW b \in Atenciones, NEW s \in Sucursales, Toca(b, s)
                  PROVE BusqInv'
<1>1. PICK w : w = [SinAtencion EXCEPT !.paso = "busca", !.actual = s, !.tenia = DelUsuario(s) # {}]
  OBVIOUS
<1>2. w \in Atencion /\ w.paso = "busca"  BY <1>1, SinAtencionBien DEF SinAtencion, Atencion
<1>3. Atiende(b, w)  BY <1>1 DEF Toca
<1>4. ~Buscando(w) /\ ~Recorriendo(w) /\ ~Buscando(atencion[b]) /\ ~Recorriendo(atencion[b])
  BY <1>2 DEF Toca, Esta, Buscando, Recorriendo
<1>5. toques' \in 0 .. MaxToques /\ meGusta' \in [MeGustaIds -> Sucursales \cup {NoSucursal}]
      /\ gustosMovidos' = gustosMovidos /\ meGusta' = meGusta /\ gustosMovidos \in BOOLEAN
  BY DEF Toca, BusqInv, BusqForma
<1>6. UNCHANGED <<lista, guardada, busquedas, cuenta, cuentaNegocio, terminadas, fallasBusqueda>>
  BY DEF Toca, MemoriaIgual, CuentasIgual
<1> QED BY <1>2, <1>3, <1>4, <1>5, <1>6, DeGustos

LEMMA BuscaLikeBien == ASSUME BusqInv, NEW b \in Atenciones, BuscaLike(b) PROVE BusqInv'
<1>1. PICK v : v = atencion[b] /\ v \in Atencion /\ v.paso = "busca"
  BY DEF BuscaLike, Esta, BusqInv, BusqForma
<1>2. PICK w : /\ Atiende(b, w)
               /\ \/ w = [v EXCEPT !.paso = "inserta"]
                  \/ \E n \in MeGustaIds : w = [v EXCEPT !.paso = "quita", !.id = n]
                  \/ w = SinAtencion
  BY <1>1 DEF BuscaLike, DelUsuario
<1>3. w \in Atencion /\ w.paso \in {"inserta", "quita", "idle"}
          /\ (w.paso = "quita" => w.id \in MeGustaIds)
  <2>1. CASE w = [v EXCEPT !.paso = "inserta"]  BY <1>1, <2>1 DEF Atencion
  <2>2. CASE \E n \in MeGustaIds : w = [v EXCEPT !.paso = "quita", !.id = n]
    BY <1>1, <2>2 DEF Atencion
  <2>3. CASE w = SinAtencion  BY <2>3, SinAtencionBien
  <2> QED BY <1>2, <2>1, <2>2, <2>3
<1>4. ~Buscando(w) /\ ~Recorriendo(w) /\ ~Buscando(atencion[b]) /\ ~Recorriendo(atencion[b])
  BY <1>1, <1>3 DEF Buscando, Recorriendo
<1>5. /\ UNCHANGED <<lista, guardada, busquedas, cuenta, cuentaNegocio, terminadas, fallasBusqueda>>
      /\ UNCHANGED <<meGusta, toques, gustosMovidos>>
  BY DEF BuscaLike, MemoriaIgual, CuentasIgual, GustosIgual
<1>6. toques' \in 0 .. MaxToques /\ meGusta' \in [MeGustaIds -> Sucursales \cup {NoSucursal}]
      /\ gustosMovidos \in BOOLEAN
  BY <1>5 DEF BusqInv, BusqForma
<1> QED BY <1>2, <1>3, <1>4, <1>5, <1>6, DeGustos

LEMMA MueveBien ==
    ASSUME BusqInv, NEW b \in Atenciones, Esta(b, "inserta") \/ Esta(b, "quita"),
           NEW n \in MeGustaIds, NEW s \in Sucursales \cup {NoSucursal}, MueveLike(b, n, s)
    PROVE  BusqInv'
<1>1. ~Buscando(atencion[b]) /\ ~Recorriendo(atencion[b])  BY DEF Esta, Buscando, Recorriendo
<1>2. /\ UNCHANGED <<lista, guardada, busquedas, cuenta, cuentaNegocio, terminadas, fallasBusqueda>>
      /\ Atiende(b, SinAtencion) /\ toques' = toques
  BY DEF MueveLike, MemoriaIgual, CuentasIgual
<1>3. meGusta' \in [MeGustaIds -> Sucursales \cup {NoSucursal}] /\ toques' \in 0 .. MaxToques
  BY <1>2 DEF MueveLike, BusqInv, BusqForma
<1>4. busquedas \in Nat /\ gustosMovidos \in BOOLEAN  BY DEF BusqInv, BusqForma
<1>5. gustosMovidos' \in BOOLEAN /\ (gustosMovidos => gustosMovidos')
      /\ (gustosMovidos' \/ busquedas = 0)
  <2>1. gustosMovidos' = (gustosMovidos \/ busquedas > 0)  BY DEF MueveLike
  <2>2. busquedas > 0 \/ busquedas = 0  BY <1>4
  <2> QED BY <1>4, <2>1, <2>2
<1>6. SinAtencion.paso # "quita"  BY SinAtencionBien
<1> QED BY <1>1, <1>2, <1>3, <1>5, <1>6, SinAtencionBien, DeGustos

LEMMA DarLikeBien == ASSUME BusqInv, NEW b \in Atenciones, DarLike(b) PROVE BusqInv'
<1>1. PICK n \in MeGustaIds : MueveLike(b, n, atencion[b].actual)  BY DEF DarLike
<1>2. atencion[b].actual \in Sucursales \cup {NoSucursal} /\ Esta(b, "inserta")
  BY DEF DarLike, BusqInv, BusqForma, Atencion
<1> QED BY <1>1, <1>2, MueveBien

LEMMA QuitarLikeBien == ASSUME BusqInv, NEW b \in Atenciones, QuitarLike(b) PROVE BusqInv'
<1>1. Esta(b, "quita") /\ MueveLike(b, atencion[b].id, NoSucursal)  BY DEF QuitarLike
<1>2. atencion[b].id \in MeGustaIds  BY <1>1 DEF Esta, BusqInv, BusqForma, Bien
<1> QED BY <1>1, <1>2, MueveBien

LEMMA BusqQuieto ==
    ASSUME BusqInv, guardada' = 0 \/ guardada' = guardada,
           UNCHANGED <<lista, meGusta, cuenta, cuentaNegocio, atencion, busquedas, toques,
                       fallasBusqueda, terminadas, gustosMovidos>>
    PROVE  BusqInv'
<1>1. BusqForma'  BY DEF BusqInv, BusqForma, Bien, Esta
<1>2. Cotas' /\ Sumadas'  BY DEF BusqInv, Cotas, Sumadas, TotalBusquedas, Cuantas, SinFallas
<1>3. EnFila'  BY DEF BusqInv, EnFila, SinFallas, EnOrden, Likes
<1> QED BY <1>1, <1>2, <1>3 DEF BusqInv

--------------------
(* A search comes; its text is interpreted.                                *)

LEMMA BuscaBien == ASSUME BusqInv, NEW b \in Atenciones, Busca(b) PROVE BusqInv'
<1>1. PICK w : w = [SinAtencion EXCEPT
           !.paso = IF guardada # 0 THEN "likes" ELSE "interpreta",
           !.lista = IF guardada # 0 THEN guardada ELSE busquedas + 1]
  OBVIOUS
<1>0. PICK q \in Nat : q = busquedas /\ q < MaxBusquedas /\ busquedas' = q + 1
  BY DEF Busca, BusqInv, BusqForma
<1>2. guardada \in 0 .. q /\ q + 1 \in Listas  BY <1>0 DEF BusqInv, BusqForma, Listas
<1>3. /\ w \in Atencion /\ w.paso \in {"likes", "interpreta"} /\ ~w.contado
      /\ w.paso = "likes" => guardada # 0 /\ w.lista = guardada
      /\ w.paso = "interpreta" => w.lista = q + 1
  <2>1. PICK x : x = SinAtencion /\ x \in Atencion /\ ~x.contado  BY SinAtencionBien
  <2>2. CASE guardada # 0
    <3>1. w = [x EXCEPT !.paso = "likes", !.lista = guardada]  BY <1>1, <2>1, <2>2
    <3>2. guardada \in Listas  BY <1>0, <1>2, <2>2 DEF Listas
    <3> QED BY <2>1, <2>2, <3>1, <3>2 DEF Atencion
  <2>3. CASE guardada = 0  BY <1>0, <1>1, <2>1, <2>3, <1>2 DEF Atencion
  <2> QED BY <2>2, <2>3
<1>4. Atiende(b, w) /\ Esta(b, "idle")  BY <1>1 DEF Busca
<1>5. /\ atencion' \in [Atenciones -> Atencion] /\ atencion'[b] = w
      /\ \A d \in Atenciones : d # b => atencion'[d] = atencion[d]
  BY <1>3, <1>4, AtiendeUno DEF BusqInv
<1>6. UNCHANGED <<lista, guardada, meGusta, cuenta, cuentaNegocio, toques, fallasBusqueda,
                  terminadas, gustosMovidos>>
  BY DEF Busca, MemoriaIgual, CuentasIgual, GustosIgual
<1>7. BusqForma'
  <2>1. ASSUME NEW d \in Atenciones PROVE Bien(atencion[d])'
    <3>1. CASE d = b
      <4>1. Bien(w)'  BY <1>0, <1>2, <1>3, <1>6 DEF BusqInv, BusqForma, Bien, Buscando, Recorriendo
      <4> QED BY <1>5, <3>1, <4>1 DEF Bien
    <3>2. CASE d # b
      <4>1. PICK x : x = atencion[d] /\ x = atencion'[d] /\ Bien(x)
        BY <1>5, <3>2 DEF BusqInv, BusqForma
      <4>2. Buscando(x) \/ Recorriendo(x) => x.lista \in 1 .. busquedas'  BY <1>0, <4>1 DEF Bien
      <4> QED BY <1>6, <4>1, <4>2 DEF Bien
    <3> QED BY <3>1, <3>2
  <2>2. ASSUME NEW d \in Atenciones, d # b, Esta(d, "interpreta") PROVE atencion[d].lista \in 1 .. q
    BY <1>0, <2>2 DEF BusqInv, BusqForma, Bien, Buscando, Esta
  <2>3. \A c, d \in Atenciones :
          c # d /\ Esta(c, "interpreta")' /\ Esta(d, "interpreta")' =>
            atencion'[c].lista # atencion'[d].lista
    <3> SUFFICES ASSUME NEW c \in Atenciones, NEW d \in Atenciones, c # d,
                        Esta(c, "interpreta")', Esta(d, "interpreta")'
                 PROVE  atencion'[c].lista # atencion'[d].lista
      OBVIOUS
    <3>1. CASE c = b  BY <1>3, <1>5, <3>1, <2>2 DEF Esta
    <3>2. CASE d = b  BY <1>3, <1>5, <3>2, <2>2 DEF Esta
    <3>3. CASE c # b /\ d # b  BY <1>5, <3>3 DEF BusqInv, BusqForma, Esta
    <3> QED BY <3>1, <3>2, <3>3
  <2>4. /\ lista' \in [Listas -> Resultados] /\ busquedas' \in 0 .. MaxBusquedas
        /\ guardada' \in 0 .. busquedas' /\ (guardada' # 0 => lista'[guardada'] # <<>>)
        /\ \A n \in Listas : n > busquedas' => lista'[n] = <<>>
    BY <1>0, <1>2, <1>6 DEF Listas, BusqInv, BusqForma
  <2>5. Demas  BY <1>6 DEF Demas, BusqInv, BusqForma
  <2> QED BY <1>5, <2>1, <2>3, <2>4, <2>5 DEF BusqForma, Demas
<1>8. /\ MAvance(atencion[b]) = 0 /\ MNegocio(atencion[b]) = 0 /\ MFalta(atencion[b]) = 0
      /\ MPendiente(atencion[b]) = 0 /\ MBusca(atencion[b]) = 0
  BY <1>4, SinMedida DEF Esta, Buscando, Recorriendo
<1>9. MAvance(w) = 0 /\ MNegocio(w) = 0 /\ MFalta(w) = Cuantas /\ MPendiente(w) = Cuantas
      /\ MBusca(w) = 1 /\ ~Recorriendo(w)
  BY <1>3 DEF MAvance, MNegocio, MFalta, MPendiente, MBusca, Buscando, Recorriendo
<1>10. Cotas'
  <2>1. cuenta \in [Sucursales -> Nat] /\ cuentaNegocio \in Nat /\ terminadas \in Nat
    BY DEF BusqInv, BusqForma
  <2>2. \A s \in Sucursales :
          cuenta'[s] + MFalta(atencion'[b]) <= cuenta[s] + MFalta(atencion[b]) + Cuantas
    BY <1>5, <1>6, <1>8, <1>9, <2>1, CuantasNat
  <2>3. /\ cuentaNegocio' + MPendiente(atencion'[b]) <=
               cuentaNegocio + MPendiente(atencion[b]) + Cuantas
        /\ terminadas' + MBusca(atencion'[b]) <= terminadas + MBusca(atencion[b]) + 1
    BY <1>5, <1>6, <1>8, <1>9, <2>1, CuantasNat
  <2>4. Cuantas = IF 1 = 0 THEN 0 ELSE Cuantas  OBVIOUS
  <2>5. busquedas' = busquedas + 1  BY <1>0
  <2> QED BY <1>5, <1>7, <2>2, <2>3, <2>4, <2>5, CotasSiguen
<1> QED BY <1>5, <1>6, <1>7, <1>8, <1>9, <1>10, Quieta DEF SinFallas

LEMMA InterpretarBien == ASSUME BusqInv, NEW b \in Atenciones, Interpretar(b) PROVE BusqInv'
<1>1. PICK v : v = atencion[b] /\ v \in Atencion /\ v.paso = "interpreta" /\ Bien(v)
  BY DEF Interpretar, Esta, BusqInv, BusqForma
<1>2. PICK n : n = v.lista  OBVIOUS
<1>3. n \in 1 .. busquedas /\ busquedas \in 0 .. MaxBusquedas /\ lista[n] = <<>> /\ ~v.contado
  BY <1>1, <1>2 DEF Bien, Buscando, BusqInv, BusqForma
<1>4. n \in Listas /\ n <= busquedas  BY <1>3 DEF Listas
<1>5. PICK r \in Resultados :
        /\ lista' = [lista EXCEPT ![n] = r]
        /\ guardada' = IF r = <<>> THEN guardada ELSE n
        /\ Atiende(b, IF r = <<>> THEN SinAtencion ELSE [v EXCEPT !.paso = "likes"])
  BY <1>1, <1>2 DEF Interpretar
<1>6. PICK w : w = IF r = <<>> THEN SinAtencion ELSE [v EXCEPT !.paso = "likes"]  OBVIOUS
<1>7. /\ Atiende(b, w) /\ w \in Atencion /\ ~Recorriendo(w) /\ ~w.contado
      /\ IF r = <<>> THEN w.paso = "idle" ELSE w.paso = "likes" /\ w.lista = n
  <2>1. CASE r = <<>>  BY <1>5, <1>6, <2>1, SinAtencionBien
  <2>2. CASE r # <<>>  BY <1>1, <1>2, <1>3, <1>5, <1>6, <2>2 DEF Atencion, Recorriendo
  <2> QED BY <2>1, <2>2
<1>8. UNCHANGED <<meGusta, cuenta, cuentaNegocio, busquedas, toques, fallasBusqueda, terminadas,
                  gustosMovidos>>
  BY DEF Interpretar, CuentasIgual, GustosIgual
<1>9. Demas  BY <1>8 DEF Demas, BusqInv, BusqForma
<1>10. /\ atencion' \in [Atenciones -> Atencion] /\ atencion'[b] = w
       /\ \A d \in Atenciones : d # b => atencion'[d] = atencion[d]
  BY <1>7, AtiendeUno DEF BusqInv
<1>11. lista'[n] = r /\ \A m \in Listas : m # n => lista'[m] = lista[m]
  BY <1>4, <1>5 DEF BusqInv, BusqForma
<1>12. BusqForma'
  <2>1. Bien(w)' /\ w.paso # "interpreta"
    BY <1>3, <1>7, <1>8, <1>11 DEF Bien, Buscando, Recorriendo
  <2>2. \A d \in Atenciones : d # b /\ Esta(d, "interpreta") => atencion[d].lista # n
    BY <1>1, <1>2 DEF BusqInv, BusqForma, Esta
  <2>3. guardada' = guardada \/ (guardada' = n /\ r # <<>>)  BY <1>5
  <2>4. lista' = [lista EXCEPT ![n] = r] /\ (r = <<>> => lista[n] = <<>>) /\ busquedas' = busquedas
    BY <1>3, <1>5, <1>8
  <2>5. BusqForma /\ Atiende(b, w) /\ w \in Atencion  BY <1>7 DEF BusqInv
  <2> QED BY <1>4, <1>9, <2>1, <2>2, <2>3, <2>4, <2>5, FormaLista
<1>13. /\ MAvance(v) = 0 /\ MNegocio(v) = 0 /\ MFalta(v) = Cuantas
       /\ MPendiente(v) = Cuantas /\ MBusca(v) = 1
  BY <1>1 DEF MAvance, MNegocio, MFalta, MPendiente, MBusca, Buscando, Recorriendo
<1>14. /\ MAvance(w) = 0 /\ MNegocio(w) = 0 /\ MFalta(w) \in {0, Cuantas}
       /\ MPendiente(w) \in {0, Cuantas} /\ MBusca(w) \in {0, 1}
  BY <1>7 DEF MAvance, MNegocio, MFalta, MPendiente, MBusca, Buscando, Recorriendo
<1>15. Cotas'
  <2>1. cuenta \in [Sucursales -> Nat] /\ cuentaNegocio \in Nat /\ terminadas \in Nat
            /\ busquedas \in Nat
    BY DEF BusqInv, BusqForma
  <2>2. \A s \in Sucursales :
          cuenta'[s] + MFalta(atencion'[b]) <= cuenta[s] + MFalta(atencion[b]) + 0
    BY <1>1, <1>8, <1>10, <1>13, <1>14, <2>1, CuantasNat
  <2>3. /\ cuentaNegocio' + MPendiente(atencion'[b]) <= cuentaNegocio + MPendiente(atencion[b]) + 0
        /\ terminadas' + MBusca(atencion'[b]) <= terminadas + MBusca(atencion[b]) + 0
    BY <1>1, <1>8, <1>10, <1>13, <1>14, <2>1, CuantasNat
  <2>4. 0 = IF 0 = 0 THEN 0 ELSE Cuantas  OBVIOUS
  <2>5. busquedas' = busquedas + 0  BY <1>8, <2>1
  <2> QED BY <1>10, <1>12, <2>2, <2>3, <2>4, <2>5, CotasSiguen
<1>16. ASSUME NEW d \in Atenciones, Recorriendo(atencion[d])
       PROVE  lista'[atencion[d].lista] = lista[atencion[d].lista]
  <2>1. atencion[d].lista \in Listas /\ lista[atencion[d].lista] # <<>>
    BY <1>16 DEF BusqInv, BusqForma, Bien, Listas
  <2> QED BY <1>3, <1>11, <2>1
<1> QED BY <1>1, <1>7, <1>8, <1>10, <1>12, <1>13, <1>14, <1>15, <1>16, Quieta DEF SinFallas

--------------------
(* A list is ranked, and walked.                                           *)

\* A request that begins to walk its list.
LEMMA BusquedaComienza ==
    ASSUME BusqInv, NEW b \in Atenciones, Esta(b, "likes"), NEW q, Barajada(q), Cuantas > 0,
           NEW w, w = Recorre(atencion[b], q, 1)
    PROVE  /\ w \in Atencion /\ w.paso = "sucursal" /\ w.i = 1 /\ w.actual = q[1]
           /\ w.lista = atencion[b].lista /\ ~w.contado /\ w.actual \in Sucursales
           /\ w.lista \in 1 .. busquedas
<1>1. PICK v : v = atencion[b] /\ v \in Atencion /\ v.paso = "likes" /\ Bien(v)
  BY DEF Esta, BusqInv, BusqForma
<1>2. q \in Seq(Sucursales) /\ Len(q) = Cuantas /\ ~(1 > Len(q)) /\ q[1] \in Sucursales
  BY CuantasNat DEF Barajada
<1>3. w = [v EXCEPT !.paso = "sucursal", !.i = 1, !.actual = q[1]]  BY <1>1, <1>2 DEF Recorre
<1>4. 1 \in 0 .. Cardinality(Sucursales)  BY CuantasNat DEF Cuantas
<1>5. w \in Atencion /\ w.paso = "sucursal" /\ w.i = 1 /\ w.actual = q[1] /\ w.lista = v.lista
      /\ w.contado = v.contado
  BY <1>1, <1>2, <1>3, <1>4 DEF Atencion
<1> QED BY <1>1, <1>2, <1>5 DEF Bien, Buscando

\* The business that is still to count.
LEMMA AlNegocio ==
    ASSUME BusqInv, NEW b \in Atenciones, Esta(b, "sucursal"), ~atencion[b].contado,
           NEW w, w = [atencion[b] EXCEPT !.paso = "negocio", !.contado = TRUE]
    PROVE  /\ w \in Atencion /\ w.paso = "negocio" /\ w.contado /\ Bien(w)
           /\ w.i = atencion[b].i /\ w.lista = atencion[b].lista /\ w.actual = atencion[b].actual
<1>1. PICK v : v = atencion[b] /\ v \in Atencion /\ v.paso = "sucursal" /\ Bien(v)
  BY DEF Esta, BusqInv, BusqForma
<1>2. w = [v EXCEPT !.paso = "negocio", !.contado = TRUE]  BY <1>1
<1>3. w \in Atencion /\ w.paso = "negocio" /\ w.contado /\ w.i = v.i /\ w.lista = v.lista
      /\ w.actual = v.actual
  BY <1>1, <1>2 DEF Atencion
<1>4. Bien(w)  BY <1>1, <1>3 DEF Bien, Buscando, Recorriendo
<1> QED BY <1>1, <1>3, <1>4

\* The next of the list, or its end.
LEMMA BusquedaAvanza ==
    ASSUME BusqInv, NEW b \in Atenciones, Recorriendo(atencion[b]), atencion[b].contado,
           NEW w, w = Recorre(atencion[b], lista[atencion[b].lista], atencion[b].i + 1),
           NEW k, k = Suma1(atencion[b].i + 1, lista[atencion[b].lista])
    PROVE  /\ w \in Atencion /\ Bien(w) /\ w.paso # "interpreta"
           /\ \/ atencion[b].i = Cuantas /\ w = SinAtencion /\ k = 1
              \/ /\ atencion[b].i < Cuantas /\ k = 0 /\ w.paso = "sucursal" /\ w.contado
                 /\ w.i = atencion[b].i + 1 /\ w.lista = atencion[b].lista
                 /\ w.actual = lista[w.lista][w.i]
<1>1. PICK v : v = atencion[b] /\ v \in Atencion /\ Recorriendo(v) /\ Bien(v)
  BY DEF BusqInv, BusqForma
<1>2. PICK q : q = lista[v.lista] /\ Barajada(q) /\ v.lista \in 1 .. busquedas
  BY <1>1, ListaBien DEF BusqInv
<1>3. PICK n, i \in Nat : n = Cuantas /\ i = v.i /\ i \in 1 .. n  BY <1>1, CuantasNat DEF Bien
<1>4. q \in Seq(Sucursales) /\ Len(q) = n  BY <1>2, <1>3 DEF Barajada
<1>5. CASE i = n  BY <1>1, <1>2, <1>3, <1>4, <1>5, SinAtencionBien DEF Recorre, Suma1, Bien
<1>6. CASE i < n
  <2>1. w = [v EXCEPT !.paso = "sucursal", !.i = i + 1, !.actual = q[i + 1]] /\ k = 0
    BY <1>1, <1>2, <1>3, <1>4, <1>6 DEF Recorre, Suma1
  <2>2. q[i + 1] \in Sucursales /\ i + 1 \in 1 .. n /\ i + 1 \in 0 .. Cardinality(Sucursales)
    BY <1>3, <1>4, <1>6 DEF Cuantas
  <2>3. w \in Atencion /\ w.paso = "sucursal" /\ w.i = i + 1 /\ w.actual = q[i + 1]
        /\ w.lista = v.lista /\ w.contado = v.contado
    BY <1>1, <2>1, <2>2 DEF Atencion
  <2>4. Bien(w)  BY <1>1, <1>2, <1>3, <2>2, <2>3 DEF Bien, Buscando, Recorriendo
  <2> QED BY <1>1, <1>2, <1>3, <1>6, <2>1, <2>3, <2>4
<1> QED BY <1>3, <1>5, <1>6

LEMMA OrdenaBien == ASSUME BusqInv, NEW b \in Atenciones, OrdenaPorLikes(b) PROVE BusqInv'
<1>1. PICK v : v = atencion[b] /\ v \in Atencion /\ v.paso = "likes" /\ Bien(v)
  BY DEF OrdenaPorLikes, Esta, BusqInv, BusqForma
<1>2. PICK n : n = v.lista /\ Barajada(lista[n]) /\ Cuantas > 0 /\ n \in Listas
               /\ n \in 1 .. busquedas
  BY <1>1, ListaBien DEF BusqInv, Esta
<1>3. PICK r : r = Ordenada(lista[n])  OBVIOUS
<1>4. Barajada(r) /\ EnOrden(r) /\ (EnOrden(lista[n]) => r = lista[n])  BY <1>2, <1>3, OrdenadaBien
<1>5. r \in Resultados /\ r # <<>> /\ lista[n] # <<>>
  BY <1>2, <1>4, BarajadaEsLista, CuantasNat DEF Barajada
<1>6. PICK w : w = Recorre(v, r, 1)  OBVIOUS
<1>7. /\ w \in Atencion /\ w.paso = "sucursal" /\ w.i = 1 /\ w.actual = r[1]
      /\ w.lista = n /\ ~w.contado /\ w.actual \in Sucursales
  BY <1>1, <1>2, <1>4, <1>6, BusquedaComienza DEF Esta
<1>8. lista' = [lista EXCEPT ![n] = r] /\ Atiende(b, w)
  BY <1>1, <1>2, <1>3, <1>6 DEF OrdenaPorLikes
<1>9. UNCHANGED <<guardada, meGusta, cuenta, cuentaNegocio, busquedas, toques, fallasBusqueda,
                  terminadas, gustosMovidos>>
  BY DEF OrdenaPorLikes, CuentasIgual, GustosIgual
<1>10. Demas  BY <1>9 DEF Demas, BusqInv, BusqForma
<1>11. /\ atencion' \in [Atenciones -> Atencion] /\ atencion'[b] = w
       /\ \A d \in Atenciones : d # b => atencion'[d] = atencion[d]
  BY <1>7, <1>8, AtiendeUno DEF BusqInv
<1>12. lista'[n] = r /\ \A m \in Listas : m # n => lista'[m] = lista[m]
  BY <1>2, <1>8 DEF BusqInv, BusqForma
<1>13. BusqForma'
  <2>1. Bien(w)' /\ w.paso # "interpreta"
    BY <1>2, <1>7, CuantasNat, <1>5, <1>9, <1>12 DEF Cuantas, Bien, Buscando, Recorriendo
  <2>2. \A d \in Atenciones : d # b /\ Esta(d, "interpreta") => atencion[d].lista # n
    BY <1>5 DEF BusqInv, BusqForma, Esta, Bien
  <2>3. guardada' = guardada \/ (guardada' = n /\ r # <<>>)  BY <1>9
  <2>4. lista' = [lista EXCEPT ![n] = r] /\ (r = <<>> => lista[n] = <<>>) /\ busquedas' = busquedas
        /\ n <= busquedas /\ r \in Resultados /\ n \in Listas
    BY <1>2, <1>5, <1>8, <1>9 DEF BusqInv, BusqForma
  <2>5. BusqForma /\ Atiende(b, w) /\ w \in Atencion  BY <1>7, <1>8 DEF BusqInv
  <2> QED BY <1>10, <2>1, <2>2, <2>3, <2>4, <2>5, FormaLista
<1>14. /\ MAvance(v) = 0 /\ MNegocio(v) = 0 /\ MFalta(v) = Cuantas
       /\ MPendiente(v) = Cuantas /\ MBusca(v) = 1
  BY <1>1 DEF MAvance, MNegocio, MFalta, MPendiente, MBusca, Buscando, Recorriendo
<1>15. /\ MAvance(w) = 0 /\ MNegocio(w) = 0 /\ MFalta(w) = Cuantas
       /\ MPendiente(w) = Cuantas /\ MBusca(w) = 1
  BY <1>7, CuantasNat DEF MAvance, MNegocio, MFalta, MPendiente, MBusca, Buscando, Recorriendo
<1>16. Cotas'
  <2>1. cuenta \in [Sucursales -> Nat] /\ cuentaNegocio \in Nat /\ terminadas \in Nat
            /\ busquedas \in Nat
    BY DEF BusqInv, BusqForma
  <2>2. \A s \in Sucursales :
          cuenta'[s] + MFalta(atencion'[b]) <= cuenta[s] + MFalta(atencion[b]) + 0
    BY <1>1, <1>9, <1>11, <1>14, <1>15, <2>1, CuantasNat
  <2>3. /\ cuentaNegocio' + MPendiente(atencion'[b]) <= cuentaNegocio + MPendiente(atencion[b]) + 0
        /\ terminadas' + MBusca(atencion'[b]) <= terminadas + MBusca(atencion[b]) + 0
    BY <1>1, <1>9, <1>11, <1>14, <1>15, <2>1, CuantasNat
  <2>4. 0 = IF 0 = 0 THEN 0 ELSE Cuantas  OBVIOUS
  <2>5. busquedas' = busquedas + 0  BY <1>9, <2>1
  <2> QED BY <1>11, <1>13, <2>2, <2>3, <2>4, <2>5, CotasSiguen
<1>17. ASSUME NEW d \in Atenciones, Recorriendo(atencion[d]), ~gustosMovidos', SinFallas'
       PROVE  lista'[atencion[d].lista] = lista[atencion[d].lista]
  BY <1>17, ListaBien, <1>9, <1>4, <1>12 DEF BusqInv, EnFila, SinFallas
<1>18. /\ EnOrden(lista[atencion[b].lista])'
       /\ atencion'[b].actual = lista'[atencion'[b].lista][atencion'[b].i]
  BY <1>9, <1>4, <1>7, <1>11, <1>12 DEF EnOrden, Likes
<1> QED BY <1>1, <1>9, <1>11, <1>13, <1>14, <1>15, <1>16, <1>17, <1>18, Quieta DEF SinFallas

--------------------
(* A step of a walk.                                                       *)

\* A step of a walk: it counts the branch (ks) or the business (kn), and may end (e).
Paso(v, w, ks, kn, e) ==
    /\ ks \in {0, 1} /\ kn = 1 - ks /\ e \in {0, 1}
    /\ v.i \in 1 .. Cuantas /\ (ks = 1 <=> v.paso = "sucursal")
    /\ MFalta(v) = Cuantas - v.i + ks /\ MFalta(w) = Cuantas - v.i
    /\ MPendiente(w) + kn <= MPendiente(v) /\ MBusca(v) = 1 /\ MBusca(w) = 1 - e
    /\ MAvance(v) = v.i - ks /\ MAvance(w) = IF e = 1 THEN 0 ELSE v.i
    /\ MNegocio(w) = MNegocio(v) + kn - e
    /\ e = 1 => v.i = Cuantas
    /\ e = 0 => w.lista = v.lista
    /\ Recorriendo(w) => e = 0 /\ \/ w.i = v.i /\ w.actual = v.actual
                                  \/ w.actual = lista[w.lista][w.i]

LEMMA PasoAlNegocio ==
    ASSUME NEW v, NEW w, v.paso = "sucursal", ~v.contado, v.i \in 1 .. Cuantas,
           w.paso = "negocio", w.i = v.i, w.lista = v.lista, w.actual = v.actual
    PROVE  Paso(v, w, 1, 0, 0)
  BY CuantasNat DEF Paso, MFalta, MPendiente, MBusca, MAvance, MNegocio, Buscando, Recorriendo

LEMMA PasoAdelante ==
    ASSUME NEW v, NEW w, Recorriendo(v), v.contado, v.i \in 1 .. Cuantas, NEW ks, NEW k,
           ks = IF v.paso = "sucursal" THEN 1 ELSE 0,
           \/ v.i = Cuantas /\ w = SinAtencion /\ k = 1
           \/ /\ v.i < Cuantas /\ k = 0 /\ w.paso = "sucursal" /\ w.contado
              /\ w.i = v.i + 1 /\ w.lista = v.lista /\ w.actual = lista[w.lista][w.i]
    PROVE  Paso(v, w, ks, 1 - ks, k)
<1>1. PICK n, i \in Nat : n = Cuantas /\ i = v.i /\ i \in 1 .. n  BY CuantasNat
<1>2. CASE v.paso = "sucursal"
  <2>1. ks = 1 /\ 1 - ks = 0 /\ MFalta(v) = n - i + 1 /\ MPendiente(v) = 0 /\ MBusca(v) = 1
        /\ MAvance(v) = i - 1 /\ MNegocio(v) = 1
    BY <1>1, <1>2 DEF MFalta, MPendiente, MBusca, MAvance, MNegocio, Buscando, Recorriendo
  <2>2. CASE v.i = Cuantas  BY <1>1, <2>2, <1>2, <2>1, SinAtencionBien DEF Paso
  <2>3. CASE v.i # Cuantas
    BY <1>1, <2>3, <1>2, <2>1 DEF MFalta, MPendiente, MBusca, MAvance, MNegocio, Buscando,
       Recorriendo, Paso
  <2> QED BY <2>2, <2>3
<1>3. CASE v.paso = "negocio"
  <2>1. ks = 0 /\ 1 - ks = 1 /\ MFalta(v) = n - i /\ MPendiente(v) = n - i + 1 /\ MBusca(v) = 1
        /\ MAvance(v) = i /\ MNegocio(v) = 0
    <3>1. ~Buscando(v) /\ Recorriendo(v) /\ v.paso # "sucursal"  BY <1>3 DEF Buscando, Recorriendo
    <3>2. ks = 0 /\ 1 - ks = 1  BY <3>1
    <3>3. MAvance(v) = i /\ MNegocio(v) = 0 /\ MBusca(v) = 1
      BY <1>1, <1>3, <3>1 DEF MBusca, MAvance, MNegocio
    <3>4. MFalta(v) = n - i  BY <1>1, <3>1, <3>3 DEF MFalta
    <3>5. MPendiente(v) = n - i + 1  BY <1>3, <3>1, <1>1 DEF MPendiente
    <3> QED BY <3>2, <3>3, <3>4, <3>5
  <2>2. CASE v.i = Cuantas
    <3>1. w = SinAtencion /\ k = 1  BY <1>1, <2>2
    <3> QED BY <1>1, <1>3, <2>1, <2>2, <3>1, SinAtencionBien DEF Paso
  <2>3. CASE v.i # Cuantas
    BY <1>1, <2>3, <1>3, <2>1 DEF MFalta, MPendiente, MBusca, MAvance, MNegocio, Buscando,
       Recorriendo, Paso
  <2> QED BY <2>2, <2>3
<1> QED BY <1>2, <1>3 DEF Recorriendo

\* What a walk may count, whether the call is counted or fails.
LEMMA CotasPaso ==
    ASSUME BusqInv, BusqForma', NEW b \in Atenciones,
           \A d \in Atenciones : d # b => atencion'[d] = atencion[d],
           NEW ks, NEW kn, NEW e, Paso(atencion[b], atencion'[b], ks, kn, e),
           \A s \in Sucursales : cuenta'[s] <= cuenta[s] + ks,
           cuentaNegocio' <= cuentaNegocio + kn, terminadas' = terminadas + e,
           busquedas' = busquedas
    PROVE  Cotas'
<1>1. cuenta \in [Sucursales -> Nat] /\ cuentaNegocio \in Nat /\ terminadas \in Nat
          /\ busquedas \in Nat
      /\ cuenta' \in [Sucursales -> Nat] /\ cuentaNegocio' \in Nat
  BY DEF BusqInv, BusqForma
<1>2. PICK v, w : v = atencion[b] /\ w = atencion'[b] /\ MedidasDe(v) /\ MedidasDe(w)
  BY IndicesBien, MedidaNat DEF BusqInv, BusqForma, Bien, ConIndice, Recorriendo
<1>3. PICK i, n, mp, np \in Nat : i = v.i /\ n = Cuantas /\ mp = MPendiente(v) /\ np = MPendiente(w)
                                  /\ i <= n
  BY <1>2, CuantasNat DEF Paso, MedidasDe
<1>4. /\ ks \in {0, 1} /\ kn \in {0, 1} /\ e \in {0, 1}
      /\ MFalta(v) = n - i + ks /\ MFalta(w) = n - i /\ np + kn <= mp
      /\ MBusca(v) = 1 /\ MBusca(w) = 1 - e
  BY <1>2, <1>3 DEF Paso
<1>5. \A s \in Sucursales :
        cuenta'[s] + MFalta(atencion'[b]) <= cuenta[s] + MFalta(atencion[b]) + 0
  <2> SUFFICES ASSUME NEW s \in Sucursales
               PROVE  cuenta'[s] + MFalta(w) <= cuenta[s] + MFalta(v) + 0
    BY <1>2
  <2>1. PICK c, d \in Nat : c = cuenta[s] /\ d = cuenta'[s] /\ d <= c + ks  BY <1>1
  <2> QED BY <1>3, <1>4, <2>1
<1>6. cuentaNegocio' + MPendiente(atencion'[b]) <= cuentaNegocio + MPendiente(atencion[b]) + 0
  <2>1. PICK c, d \in Nat : c = cuentaNegocio /\ d = cuentaNegocio' /\ d <= c + kn  BY <1>1
  <2> QED BY <1>2, <1>3, <1>4, <2>1
<1>7. terminadas' + MBusca(atencion'[b]) <= terminadas + MBusca(atencion[b]) + 0
  BY <1>1, <1>2, <1>4
<1>8. 0 = (IF 0 = 0 THEN 0 ELSE Cuantas) /\ busquedas' = busquedas + 0  BY <1>1
<1> QED BY <1>5, <1>6, <1>7, <1>8, CotasSiguen

--------------------
(* What it counts.                                                         *)

\* What one step adds to what it had seen is what it counts.
LEMMA VistaPaso ==
    ASSUME NEW v, NEW w, NEW ks, NEW kn, NEW e, Paso(v, w, ks, kn, e), NEW li,
               Barajada(li[v.lista]),
           NEW a, a = li[v.lista][v.i], NEW s \in Sucursales
    PROVE  MVista(w, li, s) + e = MVista(v, li, s) + (IF ks = 1 /\ s = a THEN 1 ELSE 0)
<1>1. PICK n, i \in Nat : n = Cuantas /\ i = v.i /\ i \in 1 .. n
  <2>1. v.i \in 1 .. Cuantas /\ Cuantas \in Nat  BY CuantasNat DEF Paso
  <2> QED BY <2>1
<1>2. PICK q : q = li[v.lista] /\ Barajada(q)  OBVIOUS
<1>3. \A j, k \in 1 .. n : q[j] = q[k] => j = k  BY <1>1, <1>2 DEF Barajada
<1>4. PICK x, y : x = MVista(v, li, s) /\ y = MVista(w, li, s)  OBVIOUS
<1>5. x = IF \E j \in 1 .. i - ks : q[j] = s THEN 1 ELSE 0  BY <1>1, <1>2, <1>4 DEF MVista, Paso
<1>6. y = IF e = 0 /\ \E j \in 1 .. i : q[j] = s THEN 1 ELSE 0
  <2>1. CASE e = 0  BY <1>1, <2>1, <1>2, <1>4 DEF Paso, MVista
  <2>2. CASE e = 1
    <3>1. MAvance(w) = 0  BY <2>2 DEF Paso
    <3> QED BY <1>4, <2>2, <3>1 DEF MVista
  <2> QED BY <2>1, <2>2 DEF Paso
<1>7. ks \in {0, 1} /\ e \in {0, 1} /\ (e = 1 => i = n)  BY <1>1 DEF Paso
<1>8. PICK j \in 1 .. n : q[j] = s  BY <1>1, <1>2, TodasEstan
<1>9. q[i] = a  BY <1>1, <1>2
<1>10. CASE ks = 0
  <2>1. x = IF \E k \in 1 .. i : q[k] = s THEN 1 ELSE 0  BY <1>1, <1>5, <1>10
  <2>2. CASE e = 0  BY <1>4, <1>6, <1>10, <2>1, <2>2
  <2>3. CASE e = 1
    <3>1. x = 1 /\ y = 0  BY <1>6, <1>7, <1>8, <2>1, <2>3
    <3> QED BY <1>4, <1>10, <2>3, <3>1
  <2> QED BY <1>7, <2>2, <2>3
<1>11. CASE ks = 1 /\ s = a  BY <1>1, <1>3, <1>9, <1>11, <1>5, <1>6, <1>7, <1>4
<1>12. CASE ks = 1 /\ s # a
  <2>1. \A k \in 1 .. i : q[k] = s => k \in 1 .. i - 1  BY <1>1, <1>9, <1>12
  <2>2. CASE e = 0  BY <1>1, <1>5, <1>6, <1>12, <2>1, <2>2, <1>4
  <2>3. CASE e = 1
    <3>1. x = 1 /\ y = 0  BY <1>1, <1>5, <1>6, <1>7, <1>8, <1>12, <2>1, <2>3
    <3> QED BY <1>4, <1>12, <2>3, <3>1
  <2> QED BY <1>7, <2>2, <2>3
<1> QED BY <1>7, <1>10, <1>11, <1>12

LEMMA CuentanBien ==
    ASSUME BusqInv, BusqForma', Cotas', NEW b \in Atenciones, Recorriendo(atencion[b]),
           \A d \in Atenciones : d # b => atencion'[d] = atencion[d],
           NEW ks, NEW kn, NEW e, Paso(atencion[b], atencion'[b], ks, kn, e),
           cuenta' = IF ks = 1 THEN [cuenta EXCEPT ![atencion[b].actual] = @ + 1] ELSE cuenta,
           cuentaNegocio' = cuentaNegocio + kn, terminadas' = terminadas + e,
           UNCHANGED <<lista, busquedas, meGusta, gustosMovidos, fallasBusqueda>>
    PROVE  BusqInv'
<1>1. \A d \in Atenciones : ConIndice(atencion[d]) /\ ConIndice(atencion'[d])
  BY IndicesBien DEF BusqForma, Bien, ConIndice, Recorriendo, BusqInv
<1>2. PICK v, w : v = atencion[b] /\ w = atencion'[b] /\ MedidasDe(v) /\ MedidasDe(w)
  BY <1>1, MedidaNat
<1>3. PICK i, n \in Nat : i = v.i /\ n = Cuantas  BY <1>2, CuantasNat DEF Paso
<1>4. /\ ks \in {0, 1} /\ kn \in {0, 1} /\ e \in {0, 1} /\ (e = 1 => i = n)
      /\ MAvance(v) = i - ks /\ MAvance(w) = (IF e = 1 THEN 0 ELSE i)
      /\ MNegocio(w) = MNegocio(v) + kn - e
  BY <1>2, <1>3 DEF Paso
<1>5. cuenta \in [Sucursales -> Nat] /\ cuenta' \in [Sucursales -> Nat] /\ cuentaNegocio \in Nat
      /\ terminadas \in Nat
  BY DEF BusqInv, BusqForma
<1>6. v.actual \in Sucursales /\ Barajada(lista[v.lista])
  BY <1>2, ListaBien DEF BusqInv, BusqForma, Bien
<1>7. \A s \in Sucursales : cuenta'[s] = cuenta[s] + (IF ks = 1 /\ s = v.actual THEN 1 ELSE 0)
  BY <1>2, <1>4, <1>5, <1>6
<1>8. Sumadas'
  <2> SUFFICES ASSUME SinFallas'
               PROVE  /\ cuentaNegocio' = terminadas' + SNegocio(atencion')
                      /\ Sumatoria(cuenta', Sucursales) = Cuantas * terminadas' + SAvance(atencion')
    BY DEF Sumadas, Cuantas
  <2>1. /\ cuentaNegocio = terminadas + SNegocio(atencion)
        /\ Sumatoria(cuenta, Sucursales) = Cuantas * terminadas + SAvance(atencion)
    BY DEF BusqInv, Sumadas, SinFallas
  <2>2. PICK na, sa, nb, sb :
          /\ na \in Nat /\ sa \in Nat
          /\ na = SNegocio(atencion) /\ sa = SAvance(atencion)
          /\ nb = SNegocio(atencion') /\ sb = SAvance(atencion')
          /\ nb = na - MNegocio(v) + MNegocio(w) /\ sb = sa - MAvance(v) + MAvance(w)
    BY <1>1, <1>2, CambiaUna
  <2>3. cuentaNegocio' = terminadas' + nb
    <3>1. PICK mn \in Nat : mn = MNegocio(v)  BY <1>2 DEF MedidasDe
    <3> QED BY <1>4, <1>5, <2>1, <2>2, <3>1
  <2>4. Sumatoria(cuenta', Sucursales) = Sumatoria(cuenta, Sucursales) + ks
    <3>1. \A s \in Sucursales : cuenta[s] \in Int /\ cuenta'[s] \in Int  BY <1>5
    <3>2. Sumatoria(cuenta, Sucursales) \in Int  BY ONLY IsFiniteSet(Sucursales), <3>1, SumaInt
    <3>3. CASE ks = 0  BY <3>2, <3>3
    <3>4. CASE ks = 1
      <4>1. PICK a \in Sucursales : a = v.actual  BY <1>6
      <4>2. \A s \in Sucursales : s # a => cuenta[s] = cuenta'[s]  BY <1>5, <1>7, <4>1
      <4>3. Sumatoria(cuenta', Sucursales) = Sumatoria(cuenta, Sucursales) - cuenta[a] + cuenta'[a]
        BY ONLY IsFiniteSet(Sucursales), a \in Sucursales, <3>1, <4>1, <4>2, SumaCambia
      <4>4. cuenta'[a] = cuenta[a] + 1  BY <1>7, <3>4, <4>1
      <4>5. PICK c \in Nat : c = cuenta[a]  BY <1>5, <4>1
      <4> QED BY <3>2, <3>4, <4>3, <4>4, <4>5
    <3> QED BY <1>4, <3>3, <3>4
  <2>5. Cuantas * terminadas' + sb = Cuantas * terminadas + sa + ks
    <3>1. PICK t, p \in Nat : t = terminadas /\ p = n * t /\ n * (t + 1) = p + n
      <4>1. PICK t \in Nat : t = terminadas  BY <1>5
      <4>2. n * t \in Nat /\ n * (t + 1) = n * t + n  OBVIOUS
      <4> QED BY <4>1, <4>2
    <3>2. CASE e = 0  BY <1>5, <3>1, <3>2, <1>3, <1>4, <2>2
    <3>3. CASE e = 1  BY <1>5, <3>1, <3>3, <1>4, <2>2, <1>3
    <3> QED BY <1>4, <3>2, <3>3
  <2>6. Cuantas * terminadas \in Int  BY <1>5, CuantasNat
  <2> QED BY <2>1, <2>2, <2>3, <2>4, <2>5, <2>6, <1>4
<1>9. ASSUME SinFallas', ~gustosMovidos', NEW s \in Sucursales
      PROVE  cuenta'[s] = terminadas' + SVista(atencion', lista', s)
  <2>1. cuenta[s] = terminadas + SVista(atencion, lista, s) /\ v.actual = lista[v.lista][i]
    BY <1>2, <1>3, <1>9 DEF BusqInv, EnFila, SinFallas
  <2>2. MVista(w, lista, s) + e = MVista(v, lista, s) + (IF ks = 1 /\ s = v.actual THEN 1 ELSE 0)
    BY <1>2, <1>3, <1>6, <2>1, VistaPaso
  <2>3. \A d \in Atenciones : d # b => MVista(atencion'[d], lista', s) =
            MVista(atencion[d], lista, s)
    OBVIOUS
  <2>4. /\ SVista(atencion, lista, s) \in Nat
        /\ SVista(atencion', lista', s) =
             SVista(atencion, lista, s) - MVista(v, lista, s) + MVista(w, lista, s)
    <3>1. PICK at, au, lj : at = atencion /\ au = atencion' /\ lj = lista'  OBVIOUS
    <3>2. \A d \in Atenciones : d # b => MVista(au[d], lj, s) = MVista(at[d], lista, s)
      BY <2>3, <3>1
    <3>3. /\ SVista(at, lista, s) \in Nat
          /\ SVista(au, lj, s) = SVista(at, lista, s) - MVista(at[b], lista, s)
                 + MVista(au[b], lj, s)
      BY ONLY b \in Atenciones, <3>2, CambiaVista, IsFiniteSet(Atenciones)
    <3> QED BY <1>2, <3>1, <3>3
  <2>5. PICK mv, mw \in Nat : mv = MVista(v, lista, s) /\ mw = MVista(w, lista, s)  BY DEF MVista
  <2>6. PICK sv, c, t \in Nat : sv = SVista(atencion, lista, s) /\ c = cuenta[s] /\ t = terminadas
    BY <1>5, <2>4
  <2>7. PICK k \in {0, 1} : k = IF ks = 1 /\ s = v.actual THEN 1 ELSE 0  OBVIOUS
  <2>8. cuenta'[s] = c + k /\ mw + e = mv + k /\ c = t + sv /\ terminadas' = t + e
        /\ SVista(atencion', lista', s) = sv - mv + mw
    BY <1>7, <2>1, <2>2, <2>4, <2>5, <2>6, <2>7
  <2> QED BY <1>4, <2>5, <2>6, <2>7, <2>8
<1>10. ASSUME SinFallas', ~gustosMovidos', NEW d \in Atenciones, Recorriendo(atencion'[d])
       PROVE  EnOrden(lista[atencion[d].lista])'
              /\ atencion'[d].actual = lista'[atencion'[d].lista][atencion'[d].i]
  <2>0. \A q : EnOrden(q) => EnOrden(q)'  BY DEF EnOrden, Likes
  <2>1. \A x \in Atenciones : Recorriendo(atencion[x]) =>
           EnOrden(lista[atencion[x].lista])
           /\ atencion[x].actual = lista[atencion[x].lista][atencion[x].i]
    BY <1>10 DEF BusqInv, EnFila, SinFallas
  <2>2. CASE d = b  BY <1>2, <1>10, <2>2, <2>1 DEF Paso, EnOrden, Likes
  <2>3. CASE d # b  BY <1>10, <2>1, <2>3 DEF EnOrden, Likes
  <2> QED BY <2>2, <2>3
<1>11. EnFila'  BY <1>9, <1>10 DEF EnFila, Recorriendo
<1> QED BY <1>8, <1>11 DEF BusqInv

--------------------
(* Every action.                                                           *)

LEMMA CuentaSucursalBien == ASSUME BusqInv, NEW b \in Atenciones, CuentaSucursal(b) PROVE BusqInv'
<1>1. PICK v : v = atencion[b] /\ v \in Atencion /\ v.paso = "sucursal" /\ Bien(v) /\ Recorriendo(v)
  BY DEF CuentaSucursal, Esta, Recorriendo, BusqInv, BusqForma
<1>2. v.i \in 1 .. Cuantas /\ v.actual \in Sucursales  BY <1>1 DEF Bien
<1>3. UNCHANGED <<lista, guardada, meGusta, busquedas, toques, fallasBusqueda, gustosMovidos,
                  cuentaNegocio>>
  BY DEF CuentaSucursal, MemoriaIgual, GustosIgual
<1>4. cuenta' = [cuenta EXCEPT ![v.actual] = @ + 1] /\ cuenta' \in [Sucursales -> Nat]
  BY <1>1, <1>2 DEF CuentaSucursal, BusqInv, BusqForma
<1>5. PICK w, e :
        /\ Atiende(b, w) /\ w \in Atencion /\ Bien(w) /\ w.paso # "interpreta"
        /\ Paso(v, w, 1, 0, e) /\ terminadas' = terminadas + e /\ e \in {0, 1}
  <2>1. CASE ~v.contado
    <3>1. PICK w : w = [v EXCEPT !.paso = "negocio", !.contado = TRUE]  OBVIOUS
    <3>2. Atiende(b, w) /\ terminadas' = terminadas + 0
      BY <1>1, <2>1, <3>1 DEF CuentaSucursal, NegocioPendiente, BusqInv, BusqForma
    <3>3. /\ w \in Atencion /\ w.paso = "negocio" /\ w.contado /\ Bien(w)
          /\ w.i = v.i /\ w.lista = v.lista /\ w.actual = v.actual
      BY <1>1, <2>1, <3>1, AlNegocio DEF Esta
    <3>4. Paso(v, w, 1, 0, 0)  BY <1>1, <1>2, <2>1, <3>3, PasoAlNegocio
    <3> QED BY <3>2, <3>3, <3>4
  <2>2. CASE v.contado
    <3>1. PICK w, k : w = Recorre(v, lista[v.lista], v.i + 1) /\ k = Suma1(v.i + 1, lista[v.lista])
      OBVIOUS
    <3>2. Atiende(b, w) /\ terminadas' = terminadas + k
      BY <1>1, <2>2, <3>1 DEF CuentaSucursal, NegocioPendiente, Adelante
    <3>3. /\ w \in Atencion /\ Bien(w) /\ w.paso # "interpreta"
          /\ \/ v.i = Cuantas /\ w = SinAtencion /\ k = 1
             \/ /\ v.i < Cuantas /\ k = 0 /\ w.paso = "sucursal" /\ w.contado
                /\ w.i = v.i + 1 /\ w.lista = v.lista /\ w.actual = lista[w.lista][w.i]
      BY <1>1, <2>2, <3>1, BusquedaAvanza
    <3>4. Paso(v, w, 1, 1 - 1, k)  BY <1>1, <1>2, <2>2, <3>3, PasoAdelante
    <3>5. Paso(v, w, 1, 0, k) /\ k \in {0, 1}  BY <3>4 DEF Paso
    <3> QED BY <3>2, <3>3, <3>5
  <2> QED BY <2>1, <2>2
<1>6. terminadas' \in Nat  BY <1>5 DEF BusqInv, BusqForma
<1>7. BusqForma'  BY <1>3, <1>4, <1>5, <1>6, FormaUna DEF Demas, BusqInv, BusqForma
<1>8. /\ atencion'[b] = w /\ \A d \in Atenciones : d # b => atencion'[d] = atencion[d]
  BY <1>5, AtiendeUno DEF BusqInv
<1>9. Cotas'
  <2>1. \A s \in Sucursales : cuenta'[s] <= cuenta[s] + 1  BY <1>2, <1>4 DEF BusqInv, BusqForma
  <2>2. cuentaNegocio' <= cuentaNegocio + 0  BY <1>3 DEF BusqInv, BusqForma
  <2> QED BY <1>1, <1>3, <1>5, <1>7, <1>8, <2>1, <2>2, CotasPaso
<1>10. cuentaNegocio' = cuentaNegocio + 0  BY <1>3 DEF BusqInv, BusqForma
<1> QED BY <1>1, <1>3, <1>4, <1>5, <1>7, <1>8, <1>9, <1>10, CuentanBien

LEMMA CuentaNegocioBien == ASSUME BusqInv, NEW b \in Atenciones, CuentaNegocio(b) PROVE BusqInv'
<1>1. PICK v : v = atencion[b] /\ v \in Atencion /\ v.paso = "negocio" /\ Bien(v) /\ Recorriendo(v)
  BY DEF CuentaNegocio, Esta, Recorriendo, BusqInv, BusqForma
<1>2. v.i \in 1 .. Cuantas /\ v.contado  BY <1>1 DEF Bien
<1>3. UNCHANGED <<lista, guardada, meGusta, busquedas, toques, fallasBusqueda, gustosMovidos,
          cuenta>>
  BY DEF CuentaNegocio, MemoriaIgual, GustosIgual
<1>4. cuentaNegocio' = cuentaNegocio + 1 /\ cuentaNegocio' \in Nat
          /\ cuenta' \in [Sucursales -> Nat]
  BY <1>3 DEF CuentaNegocio, BusqInv, BusqForma
<1>5. PICK w, e :
        /\ Atiende(b, w) /\ w \in Atencion /\ Bien(w) /\ w.paso # "interpreta"
        /\ Paso(v, w, 0, 1, e) /\ terminadas' = terminadas + e /\ e \in {0, 1}
  <3>1. PICK w, k : w = Recorre(v, lista[v.lista], v.i + 1) /\ k = Suma1(v.i + 1, lista[v.lista])
    OBVIOUS
  <3>2. Atiende(b, w) /\ terminadas' = terminadas + k  BY <1>1, <3>1 DEF CuentaNegocio, Adelante
  <3>3. /\ w \in Atencion /\ Bien(w) /\ w.paso # "interpreta"
        /\ \/ v.i = Cuantas /\ w = SinAtencion /\ k = 1
           \/ /\ v.i < Cuantas /\ k = 0 /\ w.paso = "sucursal" /\ w.contado
              /\ w.i = v.i + 1 /\ w.lista = v.lista /\ w.actual = lista[w.lista][w.i]
    BY <1>1, <1>2, <3>1, BusquedaAvanza
  <3>4. Paso(v, w, 0, 1 - 0, k)  BY <1>1, <1>2, <3>3, PasoAdelante
  <3>5. Paso(v, w, 0, 1, k) /\ k \in {0, 1}  BY <3>4 DEF Paso
  <3> QED BY <3>2, <3>3, <3>5
<1>6. terminadas' \in Nat  BY <1>5 DEF BusqInv, BusqForma
<1>7. BusqForma'  BY <1>3, <1>4, <1>5, <1>6, FormaUna DEF Demas, BusqInv, BusqForma
<1>8. /\ atencion'[b] = w /\ \A d \in Atenciones : d # b => atencion'[d] = atencion[d]
  BY <1>5, AtiendeUno DEF BusqInv
<1>9. Cotas'  BY <1>3, <1>4, <1>1, <1>5, <1>7, <1>8, CotasPaso DEF BusqInv, BusqForma
<1>10. cuenta' = IF 0 = 1 THEN [cuenta EXCEPT ![atencion[b].actual] = @ + 1] ELSE cuenta  BY <1>3
<1> QED BY <1>1, <1>3, <1>4, <1>5, <1>7, <1>8, <1>9, <1>10, CuentanBien

\* After a call that failed only the shapes and the bounds are left to say.
LEMMA FallaPaso ==
    ASSUME BusqInv, NEW b \in Atenciones, NEW v, v = atencion[b], NEW w \in Atencion, Atiende(b, w),
           Bien(w), w.paso # "interpreta", fallasBusqueda' # 0,
           fallasBusqueda' \in 0 .. MaxFallasBusqueda,
           UNCHANGED <<lista, guardada, meGusta, busquedas, toques, gustosMovidos, cuenta,
               cuentaNegocio>>,
           NEW e \in {0, 1}, terminadas' = terminadas + e,
           MFalta(w) \in Nat /\ MFalta(v) \in Nat /\ MFalta(w) <= MFalta(v),
           MPendiente(w) \in Nat /\ MPendiente(v) \in Nat /\ MPendiente(w) <= MPendiente(v),
           MBusca(w) \in Nat /\ MBusca(v) \in Nat /\ MBusca(w) + e <= MBusca(v)
    PROVE  BusqInv'
<1>1. Demas  BY DEF Demas, BusqInv, BusqForma
<1>2. BusqForma'  BY <1>1, FormaUna DEF BusqInv
<1>3. /\ atencion'[b] = w /\ \A d \in Atenciones : d # b => atencion'[d] = atencion[d]
  BY AtiendeUno DEF BusqInv
<1>4. cuenta \in [Sucursales -> Nat] /\ cuentaNegocio \in Nat /\ terminadas \in Nat
          /\ busquedas \in Nat
  BY DEF BusqInv, BusqForma
<1>5. Cotas'
  <2>1. \A s \in Sucursales :
          cuenta'[s] + MFalta(atencion'[b]) <= cuenta[s] + MFalta(atencion[b]) + 0
    BY <1>3, <1>4
  <2>2. cuentaNegocio' + MPendiente(atencion'[b]) <= cuentaNegocio + MPendiente(atencion[b]) + 0
    BY <1>3, <1>4
  <2>3. terminadas' + MBusca(atencion'[b]) <= terminadas + MBusca(atencion[b]) + 0  BY <1>3, <1>4
  <2>4. 0 = (IF 0 = 0 THEN 0 ELSE Cuantas) /\ busquedas' = busquedas + 0  BY <1>4
  <2> QED BY <1>2, <1>3, <2>1, <2>2, <2>3, <2>4, CotasSiguen
<1>6. Sumadas' /\ EnFila'  BY DEF Sumadas, EnFila, SinFallas
<1> QED BY <1>2, <1>5, <1>6 DEF BusqInv

LEMMA FallaBien == ASSUME BusqInv, NEW b \in Atenciones, FallaBusqueda(b) PROVE BusqInv'
<1>1. PICK v : v = atencion[b] /\ v \in Atencion /\ Bien(v)  BY DEF BusqInv, BusqForma
<1>2. UNCHANGED <<lista, guardada, meGusta, busquedas, toques, gustosMovidos, cuenta,
          cuentaNegocio>>
  BY DEF FallaBusqueda, MemoriaIgual, GustosIgual
<1>3. fallasBusqueda' # 0 /\ fallasBusqueda' \in 0 .. MaxFallasBusqueda
  BY DEF FallaBusqueda, BusqInv, BusqForma
<1>4. terminadas \in Nat /\ terminadas + 0 = terminadas  BY DEF BusqInv, BusqForma
<1>5. ASSUME NEW w \in Atencion, NEW ks, NEW kn, NEW e \in {0, 1}, Paso(v, w, ks, kn, e),
                 Atiende(b, w), Bien(w),
             w.paso # "interpreta", terminadas' = terminadas + e
      PROVE  BusqInv'
  <2>1. PICK i, n \in Nat : i = v.i /\ n = Cuantas /\ i <= n  BY <1>5, CuantasNat DEF Paso
  <2>2. MPendiente(v) \in Nat /\ MPendiente(w) \in Nat
    <3>1. ConIndice(v) /\ ConIndice(w)  BY <1>1, <1>5 DEF Bien, ConIndice
    <3> QED BY <3>1, MedidaNat DEF MedidasDe
  <2>3. /\ ks \in {0, 1} /\ kn \in {0, 1} /\ MFalta(v) = n - i + ks /\ MFalta(w) = n - i
        /\ MPendiente(w) + kn <= MPendiente(v) /\ MBusca(v) = 1 /\ MBusca(w) = 1 - e
    BY <1>5, <2>1 DEF Paso
  <2>4. /\ MFalta(w) \in Nat /\ MFalta(v) \in Nat /\ MFalta(w) <= MFalta(v)
        /\ MPendiente(w) <= MPendiente(v)
        /\ MBusca(w) \in Nat /\ MBusca(v) \in Nat /\ MBusca(w) + e <= MBusca(v)
    BY <2>1, <2>2, <2>3
  <2> QED BY <1>1, <1>2, <1>3, <1>5, <2>2, <2>4, FallaPaso
<1>6. CASE Esta(b, "likes") /\ Atiende(b, Recorre(v, lista[v.lista], 1)) /\ UNCHANGED terminadas
  <2>1. Barajada(lista[v.lista]) /\ Cuantas > 0  BY <1>1, <1>6, ListaBien DEF BusqInv
  <2>2. PICK w : w = Recorre(v, lista[v.lista], 1)  OBVIOUS
  <2>3. /\ w \in Atencion /\ w.paso = "sucursal" /\ w.i = 1 /\ ~w.contado
        /\ w.lista = v.lista /\ w.actual \in Sucursales /\ w.lista \in 1 .. busquedas
    BY <1>1, <1>6, <2>1, <2>2, BusquedaComienza
  <2>4. Bien(w)  BY <1>1, <1>6, <2>1, <2>3, CuantasNat DEF Bien, Buscando, Recorriendo, Esta
  <2>5. MFalta(v) = Cuantas /\ MPendiente(v) = Cuantas /\ MBusca(v) = 1
    BY <1>1, <1>6 DEF MFalta, MPendiente, MBusca, Buscando, Recorriendo, Esta
  <2>6. MFalta(w) = Cuantas /\ MPendiente(w) = Cuantas /\ MBusca(w) = 1
    BY <2>3, CuantasNat DEF MFalta, MPendiente, MBusca, MAvance, Buscando, Recorriendo
  <2> QED BY <1>1, <1>2, <1>3, <1>4, <1>6, <2>2, <2>3, <2>4, <2>5, <2>6, CuantasNat, FallaPaso
<1>7. CASE /\ Esta(b, "sucursal") /\ NegocioPendiente(v)
           /\ Atiende(b, [v EXCEPT !.paso = "negocio", !.contado = TRUE]) /\ UNCHANGED terminadas
  <2>1. PICK w : w = [v EXCEPT !.paso = "negocio", !.contado = TRUE]  OBVIOUS
  <2>2. ~v.contado /\ v.paso = "sucursal" /\ v.i \in 1 .. Cuantas
    BY <1>1, <1>7 DEF NegocioPendiente, Esta, Bien, Recorriendo
  <2>3. /\ w \in Atencion /\ w.paso = "negocio" /\ w.contado /\ Bien(w)
        /\ w.i = v.i /\ w.lista = v.lista /\ w.actual = v.actual
    BY <1>1, <1>7, <2>1, <2>2, AlNegocio
  <2>4. Paso(v, w, 1, 0, 0)  BY <2>2, <2>3, PasoAlNegocio
  <2> QED BY <1>4, <1>5, <1>7, <2>1, <2>3, <2>4
<1>8. CASE Recorriendo(v) /\ v.contado /\ Adelante(b)
  <2>1. PICK w, k : w = Recorre(v, lista[v.lista], v.i + 1) /\ k = Suma1(v.i + 1, lista[v.lista])
    OBVIOUS
  <2>2. Atiende(b, w) /\ terminadas' = terminadas + k  BY <1>1, <1>8, <2>1 DEF Adelante
  <2>3. /\ w \in Atencion /\ Bien(w) /\ w.paso # "interpreta"
        /\ \/ v.i = Cuantas /\ w = SinAtencion /\ k = 1
           \/ /\ v.i < Cuantas /\ k = 0 /\ w.paso = "sucursal" /\ w.contado
              /\ w.i = v.i + 1 /\ w.lista = v.lista /\ w.actual = lista[w.lista][w.i]
    BY <1>1, <1>8, <2>1, BusquedaAvanza
  <2>4. PICK ks : ks = IF v.paso = "sucursal" THEN 1 ELSE 0  OBVIOUS
  <2>5. Paso(v, w, ks, 1 - ks, k) /\ k \in {0, 1}  BY <1>1, <1>8, <2>3, <2>4, PasoAdelante DEF Bien
  <2> QED BY <1>5, <2>2, <2>3, <2>5
<1>9. CASE Atiende(b, SinAtencion) /\ UNCHANGED terminadas
           /\ \E p \in {"interpreta", "busca", "inserta", "quita"} : Esta(b, p)
  <2>1. /\ MFalta(SinAtencion) = 0 /\ MPendiente(SinAtencion) = 0 /\ MBusca(SinAtencion) = 0
        /\ SinAtencion \in Atencion /\ Bien(SinAtencion) /\ SinAtencion.paso # "interpreta"
    BY SinAtencionBien DEF Bien
  <2>2. MFalta(v) \in Nat /\ MPendiente(v) \in Nat /\ MBusca(v) \in Nat
    <3>1. ConIndice(v)  BY <1>1 DEF Bien, ConIndice
    <3> QED BY <3>1, MedidaNat DEF MedidasDe
  <2> QED BY <1>1, <1>2, <1>3, <1>4, <1>9, <2>1, <2>2, FallaPaso
<1>10. ASSUME Esta(b, "negocio") PROVE v.contado /\ Recorriendo(v)
  BY <1>1, <1>10 DEF Esta, Bien, Recorriendo
<1>11. ASSUME Esta(b, "sucursal"), ~NegocioPendiente(v) PROVE v.contado /\ Recorriendo(v)
  BY <1>1, <1>11 DEF Esta, NegocioPendiente, Recorriendo
<1> QED BY <1>1, <1>6, <1>7, <1>8, <1>9, <1>10, <1>11 DEF FallaBusqueda

\* BusqInv is inductive.
LEMMA BusqSiempre == BusquedasSpec => []BusqInv
<1>1. ASSUME BusqInv, [BusquedasNext]_busquedasVars PROVE BusqInv'
  <2>1. CASE UNCHANGED busquedasVars  BY <1>1, <2>1, BusqQuieto DEF busquedasVars
  <2>2. CASE Caducan  BY <1>1, <2>2, BusqQuieto DEF Caducan, CuentasIgual, GustosIgual
  <2>3. ASSUME NEW b \in Atenciones,
               \/ Busca(b) \/ Interpretar(b) \/ OrdenaPorLikes(b) \/ CuentaSucursal(b)
               \/ CuentaNegocio(b) \/ FallaBusqueda(b) \/ BuscaLike(b) \/ DarLike(b)
                      \/ QuitarLike(b)
               \/ \E s \in Sucursales : Toca(b, s)
        PROVE  BusqInv'
    BY <1>1, <2>3, BuscaBien, InterpretarBien, OrdenaBien, CuentaSucursalBien, CuentaNegocioBien,
       FallaBien, BuscaLikeBien, DarLikeBien, QuitarLikeBien, TocaBien
  <2> QED BY <1>1, <2>1, <2>2, <2>3 DEF BusquedasNext
<1> QED BY <1>1, BusqEmpieza, PTL DEF BusquedasSpec

\* With every request answered there is nothing in between.
LEMMA CuentaBasta == ASSUME BusqInv PROVE CuentaCadaUna
<1> SUFFICES ASSUME \A b \in Atenciones : Esta(b, "idle"), fallasBusqueda = 0
             PROVE  /\ cuentaNegocio = terminadas
                    /\ SumFunction(cuenta) = Cardinality(Sucursales) * terminadas
                    /\ ~gustosMovidos => \A s \in Sucursales : cuenta[s] = terminadas
  BY DEF CuentaCadaUna
<1>1. \A b \in Atenciones : MAvance(atencion[b]) = 0 /\ MNegocio(atencion[b]) = 0
  BY DEF Esta, MAvance, MNegocio
<1>2. SAvance(atencion) = 0 /\ SNegocio(atencion) = 0  BY <1>1, SumaCeros DEF SAvance, SNegocio
<1>3. \A s : SVista(atencion, lista, s) = 0
  <2> SUFFICES ASSUME NEW s PROVE SVista(atencion, lista, s) = 0  OBVIOUS
  <2>1. \A b \in Atenciones : MVista(atencion[b], lista, s) = 0  BY <1>1 DEF MVista
  <2> QED BY <2>1, SumaCeros DEF SVista
<1>4. cuenta \in [Sucursales -> Nat] /\ terminadas \in Nat /\ cuentaNegocio \in Nat
  BY DEF BusqInv, BusqForma
<1>5. SinFallas  BY DEF SinFallas
<1>6. SumFunction(cuenta) = Sumatoria(cuenta, Sucursales)
  <2>1. DOMAIN cuenta = Sucursales  BY <1>4
  <2> QED BY <2>1 DEF SumFunction, SumFunctionOnSet, Sumatoria
<1>7. Sumatoria(cuenta, Sucursales) = Cuantas * terminadas + 0 /\ cuentaNegocio = terminadas + 0
  BY <1>2, <1>5 DEF BusqInv, Sumadas
<1>8. Cuantas * terminadas \in Nat  BY <1>4, CuantasNat
<1>9. ~gustosMovidos => \A s \in Sucursales : cuenta[s] = terminadas
  BY <1>3, <1>4, <1>5 DEF BusqInv, EnFila
<1> QED BY <1>4, <1>6, <1>7, <1>8, <1>9 DEF Cuantas

LEMMA BusqTipo == ASSUME BusqInv PROVE BusquedasTypeOK
<1>1. PICK c, q, m, f, p, e \in Nat :
        /\ c = Cuantas /\ q = busquedas /\ q + m = MaxBusquedas
        /\ f = SFalta(atencion) /\ p = SPendiente(atencion) /\ e = SBusca(atencion)
  <2>1. busquedas \in Nat /\ MaxBusquedas - busquedas \in Nat
        /\ busquedas + (MaxBusquedas - busquedas) = MaxBusquedas
    BY DEF BusqInv, BusqForma
  <2>2. SFalta(atencion) \in Nat /\ SPendiente(atencion) \in Nat /\ SBusca(atencion) \in Nat
    <3>1. \A d \in Atenciones : MedidasDe(atencion[d])  BY IndicesBien, MedidaNat DEF BusqInv
    <3>2. PICK f1, f2, f3 : /\ f1 = [d \in Atenciones |-> MFalta(atencion[d])]
                            /\ f2 = [d \in Atenciones |-> MPendiente(atencion[d])]
                            /\ f3 = [d \in Atenciones |-> MBusca(atencion[d])]
      OBVIOUS
    <3>3. \A d \in Atenciones : f1[d] \in Nat /\ f2[d] \in Nat /\ f3[d] \in Nat
      BY <3>1, <3>2 DEF MedidasDe
    <3>4. Sumatoria(f1, Atenciones) \in Nat /\ Sumatoria(f2, Atenciones) \in Nat
          /\ Sumatoria(f3, Atenciones) \in Nat
      BY ONLY IsFiniteSet(Atenciones), <3>3, SumaNat
    <3> QED BY <3>2, <3>4 DEF SFalta, SPendiente, SBusca
  <2> QED BY <2>1, <2>2, CuantasNat
<1>2. PICK t, x \in Nat : t = c * q /\ x = c * MaxBusquedas /\ t <= x  BY <1>1
<1>3. \A s \in Sucursales : cuenta[s] \in 0 .. x
  <2> SUFFICES ASSUME NEW s \in Sucursales PROVE cuenta[s] \in 0 .. x  OBVIOUS
  <2>1. PICK n \in Nat : n = cuenta[s]  BY DEF BusqInv, BusqForma
  <2>2. n + f <= t  BY <1>1, <1>2, <2>1 DEF BusqInv, Cotas, TotalBusquedas
  <2> QED BY <1>2, <2>1, <2>2
<1>4. cuentaNegocio \in 0 .. x
  <2>1. PICK n \in Nat : n = cuentaNegocio  BY DEF BusqInv, BusqForma
  <2>2. n + p <= t  BY <1>1, <1>2, <2>1 DEF BusqInv, Cotas, TotalBusquedas
  <2> QED BY <1>2, <2>1, <2>2
<1>5. terminadas \in 0 .. busquedas
  <2>1. PICK n \in Nat : n = terminadas  BY DEF BusqInv, BusqForma
  <2>2. n + e <= q  BY <1>1, <2>1 DEF BusqInv, Cotas
  <2> QED BY <1>1, <2>1, <2>2
<1>6. x = Cardinality(Sucursales) * MaxBusquedas  BY <1>1, <1>2 DEF Cuantas
<1>7. cuenta \in [Sucursales -> 0 .. x]  BY <1>3 DEF BusqInv, BusqForma
<1>8. guardada \in Listas \cup {0}  BY DEF BusqInv, BusqForma, Listas
<1> QED BY <1>4, <1>5, <1>6, <1>7, <1>8 DEF BusquedasTypeOK, BusqInv, BusqForma

HIDE BusquedasAssumption DEF BusquedasAssumption

--------------------
(* Conversacion: ChatInv is inductive alone.  ParejasInv and RespuestaInv  *)
(* are inductive with it.                                                  *)

USE ConversacionAssumption DEF ConversacionAssumption

\* The shape of what the argument needs: of the calls left, that they are a sequence.
Pasos == {"idle", "lee", "porUsuario", "guarda", "crea", "elige", "guion"}
HiloConLlamadas == [paso : Pasos, id : SesionIds \cup {NoSesionId}, fila : Fila \cup {NoFila},
                    guion : Seq(Llamada), de : 0 .. MaxMensajes]
ChatTypeOK ==
    /\ sesion \in [SesionIds -> Fila \cup {NoFila}]
    /\ hilo \in [Hilos -> HiloConLlamadas]
    /\ limpieza \in [Hilos -> Limpieza]
    /\ dia \in Dias /\ mensajes \in 0 .. MaxMensajes /\ fallasChat \in Nat
    /\ solapoChat \in BOOLEAN

\* A clean-up looks for what is older than today.
LimpiaLoViejo == \A h \in Hilos : limpieza[h].paso # "no" => limpieza[h].limite < dia

\* A message that found a session holds an open one.
Encontrada == \A h \in Hilos : EnHilo(h, "guarda") =>
                 hilo[h].id \in SesionIds /\ hilo[h].fila \in Fila /\ hilo[h].fila.activa

\* A message being answered has its session, touched today.
TocadaHoy == \A h \in Hilos : EnHilo(h, "elige") \/ EnHilo(h, "guion") =>
                /\ hilo[h].id \in SesionIds
                /\ sesion[hilo[h].id] \in Fila /\ sesion[hilo[h].id].tocada = dia

DeUno == ~solapoChat => \A h, k \in Hilos : ~EnHilo(h, "idle") /\ ~EnHilo(k, "idle") => h = k

\* Nobody but the message at work opens a session, and it when none is.
SinOtra == ~solapoChat /\ fallasChat = 0 =>
             /\ \A s, o \in Activas : s = o
             /\ \A h \in Hilos : EnHilo(h, "guarda") => Activas \subseteq {hilo[h].id}
             /\ \A h \in Hilos : EnHilo(h, "crea") => Activas = {}

ChatInv == ChatTypeOK /\ LimpiaLoViejo /\ Encontrada /\ TocadaHoy /\ DeUno /\ SinOtra

--------------------
\* A session, a question, a message and a clean-up that are none.
LEMMA FilaNoFila == NoFila \notin Fila /\ NoFila.activa = FALSE
  BY DEF NoFila, Fila

LEMMA SinPreguntaType == SinPregunta \in Pregunta
  BY DEF SinPregunta, Pregunta

LEMMA FilaNuevaType ==
    ASSUME ChatInv PROVE FilaNueva \in Fila /\ FilaNueva.activa /\ FilaNueva.tocada = dia
  BY SinPreguntaType DEF FilaNueva, Fila, ChatInv, ChatTypeOK

LEMMA SinHiloType == SinHilo \in HiloConLlamadas /\ SinHilo.paso = "idle" /\ SinHilo.fila = NoFila
  BY DEF SinHilo, HiloConLlamadas, Pasos

LEMMA SinLimpiezaType == SinLimpieza \in Limpieza /\ SinLimpieza.paso = "no"
  BY DEF SinLimpieza, Limpieza, Dias

\* A sequence of calls, written out, is one.
LEMMA LlamadasSon ==
    /\ "U" \in Llamada /\ "A" \in Llamada /\ "q" \in Llamada /\ "ctx" \in Llamada
    /\ "null" \in Llamada /\ "quien" \in Llamada /\ "similares" \in Llamada
    /\ "categoria" \in Llamada /\ "catalogo" \in Llamada
  BY DEF Llamada, Tipos

LEMMA Uno == ASSUME NEW a \in Llamada PROVE <<a>> \in Seq(Llamada)
  OBVIOUS
LEMMA Dos == ASSUME NEW a \in Llamada, NEW b \in Llamada PROVE <<a, b>> \in Seq(Llamada)
  OBVIOUS
LEMMA Tres ==
    ASSUME NEW a \in Llamada, NEW b \in Llamada, NEW c \in Llamada
    PROVE  <<a, b, c>> \in Seq(Llamada)
  OBVIOUS
LEMMA Cuatro ==
    ASSUME NEW a \in Llamada, NEW b \in Llamada, NEW c \in Llamada, NEW d \in Llamada
    PROVE  <<a, b, c, d>> \in Seq(Llamada)
  OBVIOUS
LEMMA Cinco ==
    ASSUME NEW a \in Llamada, NEW b \in Llamada, NEW c \in Llamada, NEW d \in Llamada,
           NEW e \in Llamada
    PROVE  <<a, b, c, d, e>> \in Seq(Llamada)
  OBVIOUS
LEMMA LlamadaAntes == ASSUME NEW a \in Llamada, NEW g \in Seq(Llamada)
                      PROVE <<a>> \o g \in Seq(Llamada)
  OBVIOUS

\* What a message does is a sequence of calls.
LEMMA GuionesSonSecuencias ==
    ASSUME NEW t, NEW c
    PROVE  /\ \A g \in SinResolver : g \in Seq(Llamada)
           /\ \A g \in NoConsume(t, c) : g \in Seq(Llamada)
           /\ \A g \in Consume(t) : g \in Seq(Llamada)
           /\ \A g \in Resto : g \in Seq(Llamada)
<1>1. /\ Aviso \in Seq(Llamada) /\ PromosGenericas \in Seq(Llamada)
      /\ Negativa \in Seq(Llamada) /\ CatalogoAmbiguo \in Seq(Llamada)
      /\ Aclara \in Seq(Llamada) /\ Charla \in Seq(Llamada)
  BY LlamadasSon, Dos, Tres
     DEF Aviso, PromosGenericas, Negativa, CatalogoAmbiguo, Aclara, Charla
<1>2. PromosCiudad \in Seq(Llamada) /\ Interpretada \in Seq(Llamada)
  BY LlamadasSon, Cuatro DEF PromosCiudad, Interpretada
<1>3. Busqueda \in Seq(Llamada)  BY LlamadasSon, Cinco DEF Busqueda
<1>4. \A g \in Detalle : g \in Seq(Llamada)  BY LlamadasSon, Tres DEF Detalle
<1>5. \A g \in Filtradas : g \in Seq(Llamada)
  <2> TAKE g \in Filtradas
  <2>1. PICK p \in {"null", "catalogo"} : g = <<"q", "U", "q", "A", p>>  BY DEF Filtradas
  <2>2. p \in Llamada  BY LlamadasSon
  <2>3. <<"q", "U", "q", "A", p>> \in Seq(Llamada)  BY <2>2, LlamadasSon, Cinco
  <2> QED BY <2>1, <2>3
<1>6. \A g \in Resto : g \in Seq(Llamada)  BY <1>1, <1>2, <1>3, <1>5 DEF Resto
<1>7. \A g \in NoConsume(t, c) : g \in Seq(Llamada)  BY <1>4, <1>6 DEF NoConsume
<1>8. \A g \in {<<"null">> \o r : r \in Resto} : g \in Seq(Llamada)
  BY <1>6, LlamadasSon, LlamadaAntes
<1>9. \A g \in Consume(t) : g \in Seq(Llamada)  BY <1>1, <1>8 DEF Consume
<1> QED BY <1>1, <1>2, <1>6, <1>7, <1>9 DEF SinResolver

\* A step of a message.
LEMMA Sigue1 ==
    ASSUME ChatTypeOK, NEW h \in Hilos, NEW w \in HiloConLlamadas, Sigue(h, w)
    PROVE  /\ hilo' \in [Hilos -> HiloConLlamadas]
           /\ hilo'[h] = w
           /\ \A k \in Hilos : k # h => hilo'[k] = hilo[k]
  BY DEF ChatTypeOK, Sigue

\* A step of a session.
LEMMA Escribe1 ==
    ASSUME ChatTypeOK, NEW s \in SesionIds, NEW f \in Fila, sesion' = [sesion EXCEPT ![s] = f]
    PROVE  /\ sesion' \in [SesionIds -> Fila \cup {NoFila}]
           /\ sesion'[s] = f
           /\ \A o \in SesionIds : o # s => sesion'[o] = sesion[o]
  BY DEF ChatTypeOK

\* An open session is a row.
LEMMA Abiertas ==
    ASSUME ChatTypeOK, NEW s \in Activas
    PROVE  s \in SesionIds /\ sesion[s] \in Fila /\ sesion[s].activa
  BY FilaNoFila DEF ChatTypeOK, Activas

LEMMA InvInit == ConversacionInit => ChatInv
<1> SUFFICES ASSUME ConversacionInit PROVE ChatInv  OBVIOUS
<1>1. ChatTypeOK
  <2>1. sesion \in [SesionIds -> Fila \cup {NoFila}]  BY DEF ConversacionInit
  <2>2. hilo \in [Hilos -> HiloConLlamadas] /\ limpieza \in [Hilos -> Limpieza]
    BY SinHiloType, SinLimpiezaType DEF ConversacionInit
  <2>3. dia = 0 /\ mensajes = 0 /\ fallasChat = 0 /\ solapoChat \in BOOLEAN
    BY Zenon DEF ConversacionInit
  <2> QED BY <2>1, <2>2, <2>3 DEF ChatTypeOK, Dias
<1>2. Activas = {}  BY FilaNoFila DEF ConversacionInit, Activas
<1>3. \A h \in Hilos : hilo[h].paso = "idle" /\ limpieza[h].paso = "no"
  BY SinHiloType, SinLimpiezaType DEF ConversacionInit
<1> QED BY <1>1, <1>2, <1>3
        DEF ChatInv, LimpiaLoViejo, Encontrada, TocadaHoy, DeUno, SinOtra, EnHilo

\* One lemma by action.
LEMMA InvMensaje ==
    ASSUME ChatInv, NEW h \in Hilos, NEW id \in SesionIds \cup {NoSesionId},
           ProcessUserMessage(h, id)
    PROVE  ChatInv'
<1> DEFINE q == IF id = NoSesionId THEN "porUsuario" ELSE "lee"
           w == [SinHilo EXCEPT !.paso = q, !.id = id, !.de = mensajes + 1]
<1>1. mensajes + 1 \in 0 .. MaxMensajes /\ mensajes' = mensajes + 1
  BY DEF ProcessUserMessage, ChatInv, ChatTypeOK
<1>2. Sigue(h, w)  BY DEF ProcessUserMessage
<1>3. q \in {"porUsuario", "lee"}  OBVIOUS
<1> HIDE DEF q
<1>4. w \in HiloConLlamadas /\ w.paso = q  BY <1>1, <1>3, SinHiloType DEF HiloConLlamadas, Pasos
<1> HIDE DEF w
<1>5. /\ hilo' \in [Hilos -> HiloConLlamadas]
      /\ hilo'[h] = w
      /\ \A k \in Hilos : k # h => hilo'[k] = hilo[k]
  BY <1>4, <1>2, Sigue1 DEF ChatInv
<1>6. /\ limpieza' \in [Hilos -> Limpieza]
      /\ \A k \in Hilos : limpieza'[k].paso # "no" => limpieza'[k].limite < dia
  <2>1. CASE dia < 2  BY <2>1 DEF ProcessUserMessage, ChatInv, ChatTypeOK, LimpiaLoViejo
  <2>2. CASE ~(dia < 2)
    BY <2>2 DEF ChatInv, ChatTypeOK, Dias, Limpieza, ProcessUserMessage, LimpiaLoViejo
  <2> QED BY <2>1, <2>2
<1>7. /\ UNCHANGED <<sesion, dia, fallasChat>> /\ solapoChat' \in BOOLEAN
      /\ hilo[h].paso = "idle"
      /\ ~solapoChat' => ~solapoChat /\ \A k \in Hilos : hilo[k].paso = "idle"
  BY DEF ProcessUserMessage, ChatInv, ChatTypeOK, Contestado, EnHilo
<1>8. ChatTypeOK'  BY <1>1, <1>5, <1>6, <1>7 DEF ChatInv, ChatTypeOK
<1>9. LimpiaLoViejo' /\ Encontrada' /\ TocadaHoy'
  BY <1>3, <1>4, <1>5, <1>6, <1>7
     DEF ChatInv, LimpiaLoViejo, Encontrada, TocadaHoy, EnHilo
<1>10. DeUno' /\ SinOtra'  BY <1>3, <1>4, <1>5, <1>7 DEF ChatInv, DeUno, SinOtra, EnHilo, Activas
<1> QED BY <1>8, <1>9, <1>10 DEF ChatInv

LEMMA InvLee == ASSUME ChatInv, NEW h \in Hilos, LeeSesion(h) PROVE ChatInv'
<1> DEFINE w == IF hilo[h].id \in Activas
                THEN [hilo[h] EXCEPT !.paso = "guarda", !.fila = sesion[hilo[h].id]]
                ELSE [hilo[h] EXCEPT !.paso = "porUsuario"]
<1>1. hilo[h] \in HiloConLlamadas /\ hilo[h].paso = "lee"
  BY DEF ChatInv, ChatTypeOK, LeeSesion, EnHilo
<1>2. /\ w \in HiloConLlamadas /\ w.id = hilo[h].id
      /\ \/ w.paso = "porUsuario"
         \/ w.paso = "guarda" /\ w.id \in Activas /\ w.fila = sesion[w.id]
  <2>1. CASE hilo[h].id \in Activas  BY <1>1, <2>1, Abiertas DEF ChatInv, HiloConLlamadas, Pasos
  <2>2. CASE hilo[h].id \notin Activas  BY <1>1, <2>2 DEF HiloConLlamadas, Pasos
  <2> QED BY <2>1, <2>2
<1>3. Sigue(h, w) /\ UNCHANGED <<sesion, limpieza, dia, mensajes, fallasChat, solapoChat>>
  BY DEF LeeSesion, Quieto, conversacionHistoria
<1> HIDE DEF w
<1>4. /\ hilo' \in [Hilos -> HiloConLlamadas]
      /\ hilo'[h] = w
      /\ \A k \in Hilos : k # h => hilo'[k] = hilo[k]
  BY <1>2, <1>3, Sigue1 DEF ChatInv
<1>5. ChatTypeOK' /\ LimpiaLoViejo' /\ TocadaHoy'
  BY <1>2, <1>3, <1>4 DEF ChatInv, ChatTypeOK, LimpiaLoViejo, TocadaHoy, EnHilo
<1>6. Encontrada'  BY <1>2, <1>3, <1>4, Abiertas DEF ChatInv, Encontrada, EnHilo
<1>7. DeUno'  BY <1>1, <1>3, <1>4 DEF ChatInv, DeUno, EnHilo
<1>8. Activas' = Activas  BY <1>3 DEF Activas
<1>9. SinOtra'  BY <1>2, <1>3, <1>4, <1>8 DEF ChatInv, SinOtra, EnHilo
<1> QED BY <1>5, <1>6, <1>7, <1>9 DEF ChatInv

LEMMA InvPorUsuario == ASSUME ChatInv, NEW h \in Hilos, LeePorUsuario(h) PROVE ChatInv'
<1>1. hilo[h] \in HiloConLlamadas /\ hilo[h].paso = "porUsuario"
  BY DEF ChatInv, ChatTypeOK, LeePorUsuario, EnHilo
<1>2. PICK w \in HiloConLlamadas :
         /\ Sigue(h, w)
         /\ \/ w.paso = "guarda" /\ w.id \in Activas /\ w.fila = sesion[w.id]
            \/ w.paso = "crea" /\ Activas = {}
  <2>1. CASE \E s \in Recientes :
               Sigue(h, [hilo[h] EXCEPT !.paso = "guarda", !.id = s, !.fila = sesion[s]])
    <3>1. PICK s \in Activas :
             Sigue(h, [hilo[h] EXCEPT !.paso = "guarda", !.id = s, !.fila = sesion[s]])
      BY <2>1 DEF Recientes
    <3>2. s \in SesionIds /\ sesion[s] \in Fila  BY Abiertas DEF ChatInv
    <3> DEFINE v == [hilo[h] EXCEPT !.paso = "guarda", !.id = s, !.fila = sesion[s]]
    <3>3. /\ v \in HiloConLlamadas /\ v.paso = "guarda" /\ v.id = s /\ v.fila = sesion[s]
      BY <1>1, <3>2 DEF HiloConLlamadas, Pasos
    <3> QED BY <3>1, <3>3
  <2>2. CASE Activas = {} /\ Sigue(h, [hilo[h] EXCEPT !.paso = "crea"])
    <3> DEFINE v == [hilo[h] EXCEPT !.paso = "crea"]
    <3>1. v \in HiloConLlamadas /\ v.paso = "crea"  BY <1>1 DEF HiloConLlamadas, Pasos
    <3> QED BY <2>2, <3>1
  <2> QED BY <2>1, <2>2 DEF LeePorUsuario
<1>3. UNCHANGED <<sesion, limpieza, dia, mensajes, fallasChat, solapoChat>>
  BY DEF LeePorUsuario, Quieto, conversacionHistoria
<1>4. /\ hilo' \in [Hilos -> HiloConLlamadas]
      /\ hilo'[h] = w
      /\ \A k \in Hilos : k # h => hilo'[k] = hilo[k]
  BY <1>2, Sigue1 DEF ChatInv
<1>5. ChatTypeOK' /\ LimpiaLoViejo' /\ TocadaHoy'
  BY <1>2, <1>3, <1>4 DEF ChatInv, ChatTypeOK, LimpiaLoViejo, TocadaHoy, EnHilo
<1>6. Encontrada'  BY <1>2, <1>3, <1>4, Abiertas DEF ChatInv, Encontrada, EnHilo
<1>7. DeUno'  BY <1>1, <1>3, <1>4 DEF ChatInv, DeUno, EnHilo
<1>8. Activas' = Activas  BY <1>3 DEF Activas
<1>9. SinOtra'  BY <1>2, <1>3, <1>4, <1>8 DEF ChatInv, SinOtra, EnHilo
<1> QED BY <1>5, <1>6, <1>7, <1>9 DEF ChatInv

LEMMA InvGuarda == ASSUME ChatInv, NEW h \in Hilos, GuardaSesion(h) PROVE ChatInv'
<1> DEFINE w == [hilo[h] EXCEPT !.paso = "elige"]
           f == [hilo[h].fila EXCEPT !.tocada = dia]
           i == hilo[h].id
<1>1. hilo[h] \in HiloConLlamadas /\ hilo[h].paso = "guarda"
  BY DEF ChatInv, ChatTypeOK, GuardaSesion, EnHilo
<1>2. i \in SesionIds /\ hilo[h].fila \in Fila /\ hilo[h].fila.activa
  BY <1>1 DEF ChatInv, Encontrada, EnHilo
<1>3. w \in HiloConLlamadas /\ w.paso = "elige" /\ w.id = i  BY <1>1 DEF HiloConLlamadas, Pasos
<1>4. f \in Fila /\ f.tocada = dia  BY <1>2 DEF Fila, ChatInv, ChatTypeOK
<1>5. /\ Sigue(h, w) /\ UNCHANGED <<limpieza, dia, mensajes, fallasChat, solapoChat>>
      /\ sesion' = [sesion EXCEPT ![i] = f]
  BY DEF GuardaSesion, Quieto, conversacionHistoria
<1> HIDE DEF w, f
<1>6. /\ hilo' \in [Hilos -> HiloConLlamadas]
      /\ hilo'[h] = w
      /\ \A k \in Hilos : k # h => hilo'[k] = hilo[k]
  BY <1>3, <1>5, Sigue1 DEF ChatInv
<1>7. /\ sesion' \in [SesionIds -> Fila \cup {NoFila}]
      /\ sesion'[i] = f
      /\ \A o \in SesionIds : o # i => sesion'[o] = sesion[o]
  <2> HIDE DEF i
  <2> QED BY <1>2, <1>4, <1>5, Escribe1 DEF ChatInv
<1>8. ChatTypeOK' /\ LimpiaLoViejo' /\ Encontrada' /\ DeUno'
  BY <1>1, <1>3, <1>5, <1>6, <1>7
     DEF ChatInv, ChatTypeOK, LimpiaLoViejo, Encontrada, DeUno, EnHilo
<1>9. TocadaHoy'  BY <1>2, <1>3, <1>4, <1>5, <1>6, <1>7 DEF ChatInv, TocadaHoy, EnHilo
<1>10. SinOtra'
  <2> SUFFICES ASSUME ~solapoChat, fallasChat = 0
               PROVE  /\ \A s, o \in Activas' : s = o
                      /\ \A k \in Hilos : hilo'[k].paso \notin {"guarda", "crea"}
    BY <1>5 DEF SinOtra, EnHilo
  <2>1. Activas \subseteq {i}  BY <1>1 DEF ChatInv, SinOtra, EnHilo
  <2>2. Activas' \subseteq {i}  BY <2>1, <1>7 DEF Activas
  <2>3. \A k \in Hilos : k # h => hilo[k].paso = "idle"  BY <1>1 DEF ChatInv, DeUno, EnHilo
  <2> QED BY <2>2, <2>3, <1>3, <1>6
<1> QED BY <1>8, <1>9, <1>10 DEF ChatInv

LEMMA InvCrea == ASSUME ChatInv, NEW h \in Hilos, CreaSesion(h) PROVE ChatInv'
<1>1. hilo[h] \in HiloConLlamadas /\ hilo[h].paso = "crea"
  BY DEF ChatInv, ChatTypeOK, CreaSesion, EnHilo
<1>2. PICK i \in SesionIds :
         /\ sesion' = [sesion EXCEPT ![i] =
               IF @ = NoFila THEN FilaNueva ELSE [@ EXCEPT !.activa = TRUE, !.tocada = dia]]
         /\ Sigue(h, [hilo[h] EXCEPT !.paso = "elige", !.id = i, !.fila = FilaNueva])
  BY <1>1 DEF CreaSesion, HiloConLlamadas
<1> DEFINE w == [hilo[h] EXCEPT !.paso = "elige", !.id = i, !.fila = FilaNueva]
           f == IF sesion[i] = NoFila THEN FilaNueva
                ELSE [sesion[i] EXCEPT !.activa = TRUE, !.tocada = dia]
<1>3. w \in HiloConLlamadas /\ w.paso = "elige" /\ w.id = i
  BY <1>1, FilaNuevaType DEF HiloConLlamadas, Pasos
<1>4. f \in Fila /\ f.tocada = dia  BY FilaNuevaType DEF Fila, ChatInv, ChatTypeOK
<1>5. /\ Sigue(h, w) /\ UNCHANGED <<limpieza, dia, mensajes, fallasChat, solapoChat>>
      /\ sesion' = [sesion EXCEPT ![i] = f]
  BY <1>2 DEF CreaSesion, Quieto, conversacionHistoria
<1> HIDE DEF w, f
<1>6. /\ hilo' \in [Hilos -> HiloConLlamadas]
      /\ hilo'[h] = w
      /\ \A k \in Hilos : k # h => hilo'[k] = hilo[k]
  BY <1>3, <1>5, Sigue1 DEF ChatInv
<1>7. /\ sesion' \in [SesionIds -> Fila \cup {NoFila}]
      /\ sesion'[i] = f
      /\ \A o \in SesionIds : o # i => sesion'[o] = sesion[o]
  BY <1>4, <1>5, Escribe1 DEF ChatInv
<1>8. ChatTypeOK' /\ LimpiaLoViejo' /\ Encontrada' /\ DeUno'
  BY <1>1, <1>3, <1>5, <1>6, <1>7
     DEF ChatInv, ChatTypeOK, LimpiaLoViejo, Encontrada, DeUno, EnHilo
<1>9. TocadaHoy'  BY <1>3, <1>4, <1>5, <1>6, <1>7 DEF ChatInv, TocadaHoy, EnHilo
<1>10. SinOtra'
  <2> SUFFICES ASSUME ~solapoChat, fallasChat = 0
               PROVE  /\ \A s, o \in Activas' : s = o
                      /\ \A k \in Hilos : hilo'[k].paso \notin {"guarda", "crea"}
    BY <1>5 DEF SinOtra, EnHilo
  <2>1. Activas = {}  BY <1>1 DEF ChatInv, SinOtra, EnHilo
  <2>2. Activas' \subseteq {i}  BY <2>1, <1>7 DEF Activas
  <2>3. \A k \in Hilos : k # h => hilo[k].paso = "idle"  BY <1>1 DEF ChatInv, DeUno, EnHilo
  <2> QED BY <2>2, <2>3, <1>3, <1>6
<1> QED BY <1>8, <1>9, <1>10 DEF ChatInv

LEMMA InvElige == ASSUME ChatInv, NEW h \in Hilos, Elige(h) PROVE ChatInv'
<1>1. hilo[h] \in HiloConLlamadas /\ hilo[h].paso = "elige"
  BY DEF ChatInv, ChatTypeOK, Elige, EnHilo
<1>2. PICK g \in Seq(Llamada) :
         Sigue(h, [hilo[h] EXCEPT !.paso = "guion", !.guion = g, !.fila = NoFila])
  BY GuionesSonSecuencias DEF Elige
<1> DEFINE w == [hilo[h] EXCEPT !.paso = "guion", !.guion = g, !.fila = NoFila]
<1>3. w \in HiloConLlamadas /\ w.paso = "guion" /\ w.id = hilo[h].id
  BY <1>1 DEF HiloConLlamadas, Pasos
<1>4. Sigue(h, w) /\ UNCHANGED <<sesion, limpieza, dia, mensajes, fallasChat, solapoChat>>
  BY <1>2 DEF Elige
<1> HIDE DEF w
<1>5. /\ hilo' \in [Hilos -> HiloConLlamadas]
      /\ hilo'[h] = w
      /\ \A k \in Hilos : k # h => hilo'[k] = hilo[k]
  BY <1>3, <1>4, Sigue1 DEF ChatInv
<1>6. ChatTypeOK' /\ LimpiaLoViejo' /\ Encontrada' /\ TocadaHoy' /\ DeUno'
  BY <1>1, <1>3, <1>4, <1>5
     DEF ChatInv, ChatTypeOK, LimpiaLoViejo, Encontrada, TocadaHoy, DeUno, EnHilo
<1>7. Activas' = Activas  BY <1>4 DEF Activas
<1>8. SinOtra'  BY <1>3, <1>4, <1>5, <1>7 DEF ChatInv, SinOtra, EnHilo
<1> QED BY <1>6, <1>8 DEF ChatInv

\* A call of a guion leaves the message with the calls after it, or answered.
LEMMA AvanzaType ==
    ASSUME ChatTypeOK, NEW h \in Hilos, EnHilo(h, "guion"), hilo[h].guion # <<>>, Avanza(h)
    PROVE  /\ hilo' \in [Hilos -> HiloConLlamadas]
           /\ \/ hilo'[h].paso = "idle"
              \/ hilo'[h].paso = "guion" /\ hilo'[h].id = hilo[h].id
           /\ \A k \in Hilos : k # h => hilo'[k] = hilo[k]
<1> DEFINE g == Tail(hilo[h].guion)
           w == IF g = <<>> THEN SinHilo ELSE [hilo[h] EXCEPT !.guion = g]
<1>1. hilo[h] \in HiloConLlamadas /\ hilo[h].paso = "guion"  BY DEF ChatTypeOK, EnHilo
<1>2. hilo[h].guion \in Seq(Llamada)  BY <1>1 DEF HiloConLlamadas
<1>3. g \in Seq(Llamada)  BY <1>2
<1>4. Sigue(h, w)  BY DEF Avanza
<1> HIDE DEF g
<1>5. /\ w \in HiloConLlamadas
      /\ \/ w.paso = "idle"
         \/ w.paso = "guion" /\ w.id = hilo[h].id
  BY <1>1, <1>3, SinHiloType DEF HiloConLlamadas
<1> QED BY <1>4, <1>5, Sigue1

\* A call that leaves the session open or closed, and touches it if it writes.
LEMMA InvLlamada ==
    ASSUME ChatInv, NEW h \in Hilos, EnHilo(h, "guion"), hilo[h].guion # <<>>, Avanza(h),
           NEW f \in Fila, f.tocada = dia, f.activa = sesion[hilo[h].id].activa,
           sesion' = [sesion EXCEPT ![hilo[h].id] = f],
           UNCHANGED <<limpieza, dia, mensajes, solapoChat>>,
           fallasChat' = fallasChat
    PROVE  ChatInv'
<1> DEFINE i == hilo[h].id
<1>1. hilo[h].paso = "guion" /\ i \in SesionIds /\ sesion[i] \in Fila
  BY DEF ChatInv, TocadaHoy, EnHilo
<1>2. /\ hilo' \in [Hilos -> HiloConLlamadas]
      /\ \/ hilo'[h].paso = "idle"
         \/ hilo'[h].paso = "guion" /\ hilo'[h].id = i
      /\ \A k \in Hilos : k # h => hilo'[k] = hilo[k]
  BY AvanzaType DEF ChatInv
<1>3. sesion' = [sesion EXCEPT ![i] = f] /\ f.activa = sesion[i].activa  OBVIOUS
<1> HIDE DEF i
<1>4. /\ sesion' \in [SesionIds -> Fila \cup {NoFila}]
      /\ sesion'[i] = f
      /\ \A o \in SesionIds : o # i => sesion'[o] = sesion[o]
  BY <1>1, <1>3, Escribe1 DEF ChatInv
<1>5. ChatTypeOK' /\ LimpiaLoViejo' /\ Encontrada' /\ DeUno'
  BY <1>1, <1>2, <1>4 DEF ChatInv, ChatTypeOK, LimpiaLoViejo, Encontrada, DeUno, EnHilo
<1>6. TocadaHoy'  BY <1>1, <1>2, <1>4 DEF ChatInv, TocadaHoy, EnHilo
<1>7. Activas' = Activas  BY <1>1, <1>3, <1>4 DEF Activas
<1>8. SinOtra'  BY <1>2, <1>7 DEF ChatInv, SinOtra, EnHilo
<1> QED BY <1>5, <1>6, <1>8 DEF ChatInv

\* A call that touches no session.
LEMMA InvSinEscribir ==
    ASSUME ChatInv, NEW h \in Hilos, EnHilo(h, "guion"), hilo[h].guion # <<>>, Avanza(h),
           UNCHANGED <<sesion, limpieza, dia, mensajes, solapoChat>>,
           fallasChat' = fallasChat \/ fallasChat' = fallasChat + 1
    PROVE  ChatInv'
<1>1. hilo[h].paso = "guion"  BY DEF EnHilo
<1>2. /\ hilo' \in [Hilos -> HiloConLlamadas]
      /\ \/ hilo'[h].paso = "idle"
         \/ hilo'[h].paso = "guion" /\ hilo'[h].id = hilo[h].id
      /\ \A k \in Hilos : k # h => hilo'[k] = hilo[k]
  BY AvanzaType DEF ChatInv
<1>3. ChatTypeOK' /\ LimpiaLoViejo' /\ Encontrada' /\ TocadaHoy' /\ DeUno'
  BY <1>1, <1>2
     DEF ChatInv, ChatTypeOK, LimpiaLoViejo, Encontrada, TocadaHoy, DeUno, EnHilo
<1>4. Activas' = Activas  BY DEF Activas
<1>5. fallasChat' = 0 => fallasChat = 0  BY DEF ChatInv, ChatTypeOK
<1>6. SinOtra'  BY <1>2, <1>4, <1>5 DEF ChatInv, SinOtra, EnHilo
<1> QED BY <1>3, <1>6 DEF ChatInv

LEMMA InvTurno ==
    ASSUME ChatInv, NEW h \in Hilos, NEW r \in Roles, GuardarTurno(h, r) PROVE ChatInv'
  BY InvSinEscribir DEF GuardarTurno, Llama, Quieto, conversacionHistoria

LEMMA InvConsulta == ASSUME ChatInv, NEW h \in Hilos, Consulta(h) PROVE ChatInv'
  BY InvSinEscribir DEF Consulta, Llama, Quieto, conversacionHistoria

LEMMA InvPregunta ==
    ASSUME ChatInv, NEW h \in Hilos, NEW t \in Tipos \cup {"null"}, GuardarPreguntaPendiente(h, t)
    PROVE  ChatInv'
<1> DEFINE i == hilo[h].id
           p == IF t = "null" THEN SinPregunta ELSE [tipo |-> t, de |-> hilo[h].de]
           f == [sesion[i] EXCEPT !.pend = p, !.tocada = dia]
<1>1. EnHilo(h, "guion") /\ hilo[h].guion # <<>> /\ Avanza(h)
  BY DEF GuardarPreguntaPendiente, Llama
<1>2. i \in SesionIds /\ sesion[i] \in Fila /\ hilo[h].de \in 0 .. MaxMensajes
  BY <1>1 DEF ChatInv, ChatTypeOK, HiloConLlamadas, TocadaHoy
<1>3. p \in Pregunta  BY <1>2, SinPreguntaType DEF Pregunta
<1>4. f \in Fila /\ f.tocada = dia /\ f.activa = sesion[i].activa
  <2> HIDE DEF p
  <2> QED BY <1>2, <1>3 DEF Fila, ChatInv, ChatTypeOK
<1>5. sesion' = [sesion EXCEPT ![i] = f]  BY <1>2, FilaNoFila DEF GuardarPreguntaPendiente
<1>6. UNCHANGED <<limpieza, dia, mensajes, solapoChat>> /\ fallasChat' = fallasChat
  BY DEF GuardarPreguntaPendiente, Quieto, conversacionHistoria
<1> HIDE DEF f
<1> QED BY <1>1, <1>4, <1>5, <1>6, InvLlamada

LEMMA InvContexto ==
    ASSUME ChatInv, NEW h \in Hilos, ActualizarContextoBusqueda(h) PROVE ChatInv'
<1> DEFINE i == hilo[h].id
           f == [sesion[i] EXCEPT !.pend = SinPregunta, !.ctx = TRUE, !.tocada = dia]
<1>1. EnHilo(h, "guion") /\ hilo[h].guion # <<>> /\ Avanza(h)
  BY DEF ActualizarContextoBusqueda, Llama
<1>2. i \in SesionIds /\ sesion[i] \in Fila  BY <1>1 DEF ChatInv, TocadaHoy
<1>3. f \in Fila /\ f.tocada = dia /\ f.activa = sesion[i].activa
  BY <1>2, SinPreguntaType DEF Fila, ChatInv, ChatTypeOK
<1>4. sesion' = [sesion EXCEPT ![i] = f]  BY <1>2, FilaNoFila DEF ActualizarContextoBusqueda
<1>5. UNCHANGED <<limpieza, dia, mensajes, solapoChat>> /\ fallasChat' = fallasChat
  BY DEF ActualizarContextoBusqueda, Quieto, conversacionHistoria
<1> HIDE DEF f
<1> QED BY <1>1, <1>3, <1>4, <1>5, InvLlamada

\* Any other call that rejects ends the message, or leaves it without a session found.
LEMMA InvFalla == ASSUME ChatInv, NEW h \in Hilos, FallaChat(h) PROVE ChatInv'
<1>1. /\ UNCHANGED <<sesion, limpieza, dia, mensajes, solapoChat>>
      /\ fallasChat' = fallasChat + 1 /\ ~EnHilo(h, "idle")
  BY DEF FallaChat, conversacionHistoria
<1>2. hilo[h] \in HiloConLlamadas /\ hilo[h].paso # "idle"  BY <1>1 DEF ChatInv, ChatTypeOK, EnHilo
<1>3. CASE \E w \in HiloConLlamadas : Sigue(h, w) /\ w.paso \in {"idle", "crea"}
  <2>1. PICK w \in HiloConLlamadas : Sigue(h, w) /\ w.paso \in {"idle", "crea"}  BY <1>3
  <2>2. /\ hilo' \in [Hilos -> HiloConLlamadas]
        /\ hilo'[h] = w
        /\ \A k \in Hilos : k # h => hilo'[k] = hilo[k]
    BY <2>1, Sigue1 DEF ChatInv
  <2>3. ChatTypeOK' /\ LimpiaLoViejo' /\ Encontrada' /\ TocadaHoy' /\ DeUno'
    BY <1>1, <1>2, <2>1, <2>2
       DEF ChatInv, ChatTypeOK, LimpiaLoViejo, Encontrada, TocadaHoy, DeUno, EnHilo
  <2>4. fallasChat' # 0  BY <1>1 DEF ChatInv, ChatTypeOK
  <2>5. SinOtra'  BY <2>4 DEF SinOtra
  <2> QED BY <2>3, <2>5 DEF ChatInv
<1>4. CASE ~Tolerada(h)
  <2>1. Sigue(h, SinHilo)  BY <1>4 DEF FallaChat
  <2> QED BY <2>1, SinHiloType, <1>3
<1>5. CASE EnHilo(h, "porUsuario")
  <2>1. Tolerada(h)  BY <1>5 DEF Tolerada
  <2>2. Sigue(h, [hilo[h] EXCEPT !.paso = "crea"])  BY <1>5, <2>1 DEF FallaChat
  <2> DEFINE w == [hilo[h] EXCEPT !.paso = "crea"]
  <2>3. w \in HiloConLlamadas /\ w.paso = "crea"  BY <1>2 DEF HiloConLlamadas, Pasos
  <2> QED BY <2>2, <2>3, <1>3
<1>6. CASE Tolerada(h) /\ ~EnHilo(h, "porUsuario")
  BY <1>6, <1>1, InvSinEscribir DEF Tolerada, Llama, FallaChat
<1> QED BY <1>4, <1>5, <1>6

LEMMA InvLimpiaTurnos == ASSUME ChatInv, NEW h \in Hilos, LimpiaTurnos(h) PROVE ChatInv'
<1>1. /\ UNCHANGED <<sesion, hilo, dia, mensajes, fallasChat, solapoChat>>
      /\ limpieza[h].paso = "turnos"
      /\ limpieza' = [limpieza EXCEPT ![h].paso = "sesiones"]
  BY DEF LimpiaTurnos, conversacionHistoria
<1>2. /\ limpieza' \in [Hilos -> Limpieza]
      /\ limpieza'[h].limite = limpieza[h].limite
      /\ \A k \in Hilos : k # h => limpieza'[k] = limpieza[k]
  BY <1>1 DEF ChatInv, ChatTypeOK, Limpieza
<1>3. Activas' = Activas  BY <1>1 DEF Activas
<1>4. LimpiaLoViejo'  BY <1>1, <1>2 DEF ChatInv, LimpiaLoViejo
<1>5. ChatTypeOK' /\ Encontrada' /\ TocadaHoy' /\ DeUno'
  BY <1>1, <1>2 DEF ChatInv, ChatTypeOK, Encontrada, TocadaHoy, DeUno, EnHilo
<1>6. SinOtra'  BY <1>1, <1>3 DEF ChatInv, SinOtra, EnHilo
<1> QED BY <1>4, <1>5, <1>6 DEF ChatInv

LEMMA InvLimpiaSesiones == ASSUME ChatInv, NEW h \in Hilos, LimpiaSesiones(h) PROVE ChatInv'
<1>1. /\ UNCHANGED <<hilo, dia, mensajes, fallasChat, solapoChat>>
      /\ limpieza[h].paso = "sesiones"
      /\ limpieza' = [limpieza EXCEPT ![h] = SinLimpieza]
  BY DEF LimpiaSesiones, conversacionHistoria
<1>2. limpieza[h] \in Limpieza /\ limpieza[h].limite < dia
  BY <1>1 DEF ChatInv, ChatTypeOK, LimpiaLoViejo
<1>3. limpieza' \in [Hilos -> Limpieza] /\ LimpiaLoViejo'
  BY <1>1, SinLimpiezaType DEF ChatInv, ChatTypeOK, LimpiaLoViejo
<1>4. /\ sesion' \in [SesionIds -> Fila \cup {NoFila}]
      /\ \A s \in SesionIds : sesion'[s] = NoFila \/ sesion'[s] = sesion[s]
      /\ \A s \in SesionIds : sesion[s] \in Fila /\ sesion[s].tocada = dia
                                => sesion'[s] = sesion[s]
  BY <1>2 DEF LimpiaSesiones, Vieja, ChatInv, ChatTypeOK, Limpieza, Dias
<1>5. Activas' \subseteq Activas  BY <1>4, FilaNoFila DEF Activas
<1>6. ChatTypeOK' /\ Encontrada' /\ DeUno'
  BY <1>1, <1>3, <1>4 DEF ChatInv, ChatTypeOK, Encontrada, DeUno, EnHilo
<1>7. TocadaHoy'  BY <1>1, <1>4 DEF ChatInv, TocadaHoy, EnHilo
<1>8. SinOtra'  BY <1>1, <1>5 DEF ChatInv, SinOtra, EnHilo
<1> QED BY <1>3, <1>6, <1>7, <1>8 DEF ChatInv

LEMMA InvFallaLimpieza == ASSUME ChatInv, NEW h \in Hilos, FallaLimpieza(h) PROVE ChatInv'
<1>1. /\ UNCHANGED <<sesion, hilo, dia, mensajes, solapoChat>>
      /\ fallasChat' = fallasChat + 1
      /\ limpieza' = [limpieza EXCEPT ![h] = SinLimpieza]
  BY DEF FallaLimpieza, conversacionHistoria
<1>2. fallasChat' \in Nat /\ fallasChat' # 0  BY <1>1 DEF ChatInv, ChatTypeOK
<1>3. limpieza' \in [Hilos -> Limpieza] /\ LimpiaLoViejo'
  BY <1>1, SinLimpiezaType DEF ChatInv, ChatTypeOK, LimpiaLoViejo
<1>4. ChatTypeOK' /\ Encontrada' /\ TocadaHoy' /\ DeUno'
  BY <1>1, <1>2, <1>3 DEF ChatInv, ChatTypeOK, Encontrada, TocadaHoy, DeUno, EnHilo
<1>5. SinOtra'  BY <1>2 DEF SinOtra
<1> QED BY <1>3, <1>4, <1>5 DEF ChatInv

LEMMA InvCerrar == ASSUME ChatInv, NEW s \in SesionIds, CerrarSesion(s) PROVE ChatInv'
<1> DEFINE f == [sesion[s] EXCEPT !.activa = FALSE]
<1>1. /\ UNCHANGED <<hilo, limpieza, dia, mensajes, fallasChat>>
      /\ s \in Activas /\ sesion' = [sesion EXCEPT ![s] = f]
      /\ solapoChat' \in BOOLEAN
      /\ ~solapoChat' => ~solapoChat /\ \A k \in Hilos : hilo[k].paso = "idle"
  BY DEF CerrarSesion, ChatInv, ChatTypeOK, Contestado, EnHilo
<1>2. f \in Fila /\ f.activa = FALSE /\ f.tocada = sesion[s].tocada
  BY <1>1, Abiertas DEF ChatInv, Fila
<1> HIDE DEF f
<1>3. /\ sesion' \in [SesionIds -> Fila \cup {NoFila}]
      /\ sesion'[s] = f
      /\ \A o \in SesionIds : o # s => sesion'[o] = sesion[o]
  BY <1>1, <1>2, Escribe1 DEF ChatInv
<1>4. ChatTypeOK' /\ LimpiaLoViejo' /\ Encontrada' /\ DeUno'
  BY <1>1, <1>3 DEF ChatInv, ChatTypeOK, LimpiaLoViejo, Encontrada, DeUno, EnHilo
<1>5. TocadaHoy'  BY <1>1, <1>2, <1>3 DEF ChatInv, TocadaHoy, EnHilo
<1>6. Activas' \subseteq Activas  BY <1>2, <1>3 DEF Activas
<1>7. SinOtra'  BY <1>1, <1>6 DEF ChatInv, SinOtra, EnHilo
<1> QED BY <1>4, <1>5, <1>7 DEF ChatInv

LEMMA InvPasaDia == ASSUME ChatInv, PasaDia PROVE ChatInv'
<1>1. /\ UNCHANGED <<sesion, hilo, limpieza, mensajes, fallasChat, solapoChat>>
      /\ dia' = dia + 1 /\ dia' \in Dias
      /\ \A h \in Hilos : hilo[h].paso = "idle"
  BY DEF PasaDia, conversacionHistoria, ChatInv, ChatTypeOK, Dias, Contestado, EnHilo
<1>2. LimpiaLoViejo'  BY <1>1 DEF ChatInv, ChatTypeOK, LimpiaLoViejo, Limpieza, Dias
<1>3. ChatTypeOK' /\ Encontrada' /\ TocadaHoy' /\ DeUno'
  BY <1>1 DEF ChatInv, ChatTypeOK, Encontrada, TocadaHoy, DeUno, EnHilo
<1>4. Activas' = Activas  BY <1>1 DEF Activas
<1>5. SinOtra'  BY <1>1, <1>4 DEF ChatInv, SinOtra, EnHilo
<1> QED BY <1>2, <1>3, <1>5 DEF ChatInv

LEMMA InvStep == ChatInv /\ [ConversacionNext]_conversacionVars => ChatInv'
<1> SUFFICES ASSUME ChatInv, [ConversacionNext]_conversacionVars PROVE ChatInv'  OBVIOUS
<1>1. CASE UNCHANGED conversacionVars
  <2>1. UNCHANGED <<sesion, hilo, limpieza, dia, mensajes, fallasChat, solapoChat>>
    BY <1>1 DEF conversacionVars
  <2> QED BY <2>1 DEF ChatInv, ChatTypeOK, LimpiaLoViejo, Encontrada, TocadaHoy, DeUno,
                      SinOtra, EnHilo, Activas
<1>2. CASE \E h \in Hilos, id \in SesionIds \cup {NoSesionId} : ProcessUserMessage(h, id)
  BY <1>2, InvMensaje
<1>3. ASSUME NEW h \in Hilos,
             \/ LeeSesion(h) \/ LeePorUsuario(h) \/ GuardaSesion(h) \/ CreaSesion(h)
             \/ Elige(h)
      PROVE  ChatInv'
  BY <1>3, InvLee, InvPorUsuario, InvGuarda, InvCrea, InvElige
<1>4. ASSUME NEW h \in Hilos,
             ActualizarContextoBusqueda(h) \/ Consulta(h) \/ FallaChat(h)
      PROVE  ChatInv'
  BY <1>4, InvContexto, InvConsulta, InvFalla
<1>5. ASSUME NEW h \in Hilos, LimpiaTurnos(h) \/ LimpiaSesiones(h) \/ FallaLimpieza(h)
      PROVE  ChatInv'
  BY <1>5, InvLimpiaTurnos, InvLimpiaSesiones, InvFallaLimpieza
<1>6. CASE \E h \in Hilos, r \in Roles : GuardarTurno(h, r)  BY <1>6, InvTurno
<1>7. CASE \E h \in Hilos, t \in Tipos \cup {"null"} : GuardarPreguntaPendiente(h, t)
  BY <1>7, InvPregunta
<1>8. CASE \E s \in SesionIds : CerrarSesion(s)  BY <1>8, InvCerrar
<1>9. CASE PasaDia  BY <1>9, InvPasaDia
<1> QED BY <1>1, <1>2, <1>3, <1>4, <1>5, <1>6, <1>7, <1>8, <1>9 DEF ConversacionNext

\* Every reachable state of the chat has the shape of the model, a message that is being
\* answered has a session touched today, and a clean-up looks for older ones
\* (AiService.processUserMessage, ConversationService.limpiarSesionesViejas).
THEOREM ChatSiempre == ConversacionSpec => []ChatInv
BY InvInit, InvStep, PTL DEF ConversacionSpec

\* One conversation open while no two messages overlapped and nothing failed, and the
\* session of a message being answered always there (obtenerOCrearSesion against the
\* clean-up no message waits for).
THEOREM ConversacionCumple == ConversacionSpec => []SesionEnRegla
<1>1. ChatInv => SesionEnRegla
  BY FilaNoFila DEF ChatInv, SesionEnRegla, UnaSesionActiva, SesionViva, TocadaHoy, SinOtra
<1> QED BY <1>1, ChatSiempre, PTL

--------------------
\* The turns a guion has to write still.
SinTurno(g) == \A i \in 1 .. Len(g) : g[i] \notin Roles
UnTurno(g) == \E i \in 1 .. Len(g) :
                 g[i] = "A" /\ \A k \in 1 .. Len(g) : g[k] \in Roles => k = i
DosTurnos(g) == \E i, j \in 1 .. Len(g) :
                   /\ i < j /\ g[i] = "U" /\ g[j] = "A"
                   /\ \A k \in 1 .. Len(g) : g[k] \in Roles => k \in {i, j}
Turnos(g) == SinTurno(g) \/ UnTurno(g) \/ DosTurnos(g)

\* The messages that wrote the turn of the user in a session, and not yet the other.
EnEspera(s) == {h \in Hilos : EnHilo(h, "guion") /\ UnTurno(hilo[h].guion) /\ hilo[h].id = s}

\* While no call failed, the turns of a session that are not paired are those of the
\* messages that are about to pair them, and all of today.
ParejasInv ==
    /\ turno \in [SesionIds -> [Dias -> Int]]
    /\ \A h \in Hilos : EnHilo(h, "guion") => Turnos(hilo[h].guion)
    /\ fallasChat = 0 =>
           \A s \in SesionIds, d \in Dias :
              turno[s][d] = IF d = dia THEN Cardinality(EnEspera(s)) ELSE 0

LEMMA LosRoles == Roles = {"U", "A"}
  BY DEF Roles

\* What a call leaves to write.
LEMMA ColaDeDos ==
    ASSUME NEW g \in Seq(Llamada), g # <<>>, DosTurnos(g)
    PROVE  /\ Head(g) # "A"
           /\ Head(g) = "U" => UnTurno(Tail(g))
           /\ Head(g) # "U" => DosTurnos(Tail(g))
<1> DEFINE t == Tail(g)
<1>1. /\ Len(g) \in Nat \ {0} /\ Len(t) = Len(g) - 1
      /\ \A k \in 1 .. Len(t) : t[k] = g[k + 1]
      /\ Head(g) = g[1]
  OBVIOUS
<1>2. PICK i, j \in 1 .. Len(g) :
         /\ i < j /\ g[i] = "U" /\ g[j] = "A"
         /\ \A k \in 1 .. Len(g) : g[k] \in Roles => k \in {i, j}
  BY DEF DosTurnos
<1> HIDE DEF t
<1>3. Head(g) # "A"  BY <1>1, <1>2 DEF Roles
<1>4. j - 1 \in 1 .. Len(t) /\ t[j - 1] = "A"  BY <1>1, <1>2
<1>5. ASSUME g[1] = "U" PROVE UnTurno(t)
  <2>1. i = 1  BY <1>1, <1>2, <1>5 DEF Roles
  <2>2. \A k \in 1 .. Len(t) : t[k] \in Roles => k = j - 1  BY <1>1, <1>2, <2>1
  <2> QED BY <1>4, <2>2 DEF UnTurno
<1>6. ASSUME g[1] # "U" PROVE DosTurnos(t)
  <2>1. i - 1 \in 1 .. Len(t) /\ t[i - 1] = "U" /\ i - 1 < j - 1  BY <1>1, <1>2, <1>6
  <2>2. \A k \in 1 .. Len(t) : t[k] \in Roles => k \in {i - 1, j - 1}  BY <1>1, <1>2
  <2> QED BY <1>4, <2>1, <2>2 DEF DosTurnos
<1> QED BY <1>1, <1>3, <1>5, <1>6 DEF t

LEMMA ColaDeUno ==
    ASSUME NEW g \in Seq(Llamada), g # <<>>, UnTurno(g)
    PROVE  /\ Head(g) # "U"
           /\ Head(g) = "A" => SinTurno(Tail(g))
           /\ Head(g) # "A" => UnTurno(Tail(g))
<1> DEFINE t == Tail(g)
<1>1. /\ Len(g) \in Nat \ {0} /\ Len(t) = Len(g) - 1
      /\ \A k \in 1 .. Len(t) : t[k] = g[k + 1]
      /\ Head(g) = g[1]
  OBVIOUS
<1>2. PICK i \in 1 .. Len(g) : g[i] = "A" /\ \A k \in 1 .. Len(g) : g[k] \in Roles => k = i
  BY DEF UnTurno
<1> HIDE DEF t
<1>3. Head(g) # "U"  BY <1>1, <1>2 DEF Roles
<1>4. ASSUME g[1] = "A" PROVE SinTurno(t)
  <2>1. i = 1  BY <1>1, <1>2, <1>4 DEF Roles
  <2> QED BY <1>1, <1>2, <2>1 DEF SinTurno
<1>5. ASSUME g[1] # "A" PROVE UnTurno(t)
  <2>1. i - 1 \in 1 .. Len(t) /\ t[i - 1] = "A"  BY <1>1, <1>2, <1>5
  <2>2. \A k \in 1 .. Len(t) : t[k] \in Roles => k = i - 1  BY <1>1, <1>2
  <2> QED BY <2>1, <2>2 DEF UnTurno
<1> QED BY <1>1, <1>3, <1>4, <1>5 DEF t

LEMMA ColaDeNinguno ==
    ASSUME NEW g \in Seq(Llamada), g # <<>>, SinTurno(g)
    PROVE  Head(g) \notin Roles /\ SinTurno(Tail(g))
<1> DEFINE t == Tail(g)
<1>1. /\ Len(g) \in Nat \ {0} /\ Len(t) = Len(g) - 1
      /\ \A k \in 1 .. Len(t) : t[k] = g[k + 1]
      /\ Head(g) = g[1]
  OBVIOUS
<1> HIDE DEF t
<1>2. Head(g) \notin Roles /\ SinTurno(t)  BY <1>1 DEF SinTurno
<1> QED BY <1>2 DEF t

LEMMA UnoOtro ==
    /\ \A g : UnTurno(g) => ~SinTurno(g) /\ ~DosTurnos(g)
    /\ ~UnTurno(<<>>)
  BY DEF SinTurno, UnTurno, DosTurnos, Roles

\* Every branch writes the turn of the user and, after it, that of the assistant.
LEMMA DosEnTres ==
    /\ DosTurnos(<<"U", "A">>)
    /\ \A a \in Llamada \ Roles :
          /\ DosTurnos(<<a, "U", "A">>) /\ DosTurnos(<<"U", a, "A">>)
<1>1. DosTurnos(<<"U", "A">>)  BY DEF DosTurnos
<1>2. ASSUME NEW a \in Llamada \ Roles PROVE DosTurnos(<<a, "U", "A">>)
  <2> DEFINE g == <<a, "U", "A">>
  <2>1. Len(g) = 3 /\ g[1] = a /\ g[2] = "U" /\ g[3] = "A"  OBVIOUS
  <2> HIDE DEF g
  <2>2. DosTurnos(g)  BY <2>1 DEF DosTurnos
  <2> QED BY <2>2 DEF g
<1>3. ASSUME NEW a \in Llamada \ Roles PROVE DosTurnos(<<"U", a, "A">>)
  <2> DEFINE g == <<"U", a, "A">>
  <2>1. Len(g) = 3 /\ g[1] = "U" /\ g[2] = a /\ g[3] = "A"  OBVIOUS
  <2> HIDE DEF g
  <2>2. DosTurnos(g)  BY <2>1 DEF DosTurnos
  <2> QED BY <2>2 DEF g
<1> QED BY <1>1, <1>2, <1>3

LEMMA DosEnCuatro ==
    ASSUME NEW a \in Llamada \ Roles, NEW b \in Llamada \ Roles
    PROVE  DosTurnos(<<"U", a, b, "A">>) /\ DosTurnos(<<a, "U", b, "A">>)
<1> DEFINE g == <<"U", a, b, "A">>
           f == <<a, "U", b, "A">>
<1>1. Len(g) = 4 /\ g[1] = "U" /\ g[2] = a /\ g[3] = b /\ g[4] = "A"  OBVIOUS
<1>2. Len(f) = 4 /\ f[1] = a /\ f[2] = "U" /\ f[3] = b /\ f[4] = "A"  OBVIOUS
<1> HIDE DEF f, g
<1>3. DosTurnos(g)  BY <1>1 DEF DosTurnos
<1>4. DosTurnos(f)  BY <1>2 DEF DosTurnos
<1> QED BY <1>3, <1>4 DEF f, g

LEMMA DosEnCinco ==
    ASSUME NEW a \in Llamada \ Roles, NEW b \in Llamada \ Roles, NEW c \in Llamada \ Roles
    PROVE  DosTurnos(<<a, "U", b, "A", c>>) /\ DosTurnos(<<a, "U", b, c, "A">>)
<1> DEFINE g == <<a, "U", b, "A", c>>
           f == <<a, "U", b, c, "A">>
<1>1. Len(g) = 5 /\ g[1] = a /\ g[2] = "U" /\ g[3] = b /\ g[4] = "A" /\ g[5] = c  OBVIOUS
<1>2. Len(f) = 5 /\ f[1] = a /\ f[2] = "U" /\ f[3] = b /\ f[4] = c /\ f[5] = "A"  OBVIOUS
<1> HIDE DEF f, g
<1>3. DosTurnos(g)  BY <1>1 DEF DosTurnos
<1>4. DosTurnos(f)  BY <1>2 DEF DosTurnos
<1> QED BY <1>3, <1>4 DEF f, g

LEMMA DosTras ==
    ASSUME NEW a \in Llamada \ Roles, NEW g \in Seq(Llamada), DosTurnos(g)
    PROVE  DosTurnos(<<a>> \o g)
<1> DEFINE f == <<a>> \o g
<1>1. /\ Len(f) = Len(g) + 1 /\ f[1] = a /\ Len(g) \in Nat
      /\ \A k \in 1 .. Len(f) : k # 1 => f[k] = g[k - 1]
  OBVIOUS
<1>2. PICK i, j \in 1 .. Len(g) :
         /\ i < j /\ g[i] = "U" /\ g[j] = "A"
         /\ \A k \in 1 .. Len(g) : g[k] \in Roles => k \in {i, j}
  BY DEF DosTurnos
<1> HIDE DEF f
<1>3. /\ i + 1 \in 1 .. Len(f) /\ j + 1 \in 1 .. Len(f) /\ i + 1 < j + 1
      /\ f[i + 1] = "U" /\ f[j + 1] = "A"
  BY <1>1, <1>2
<1>4. \A k \in 1 .. Len(f) : f[k] \in Roles => k \in {i + 1, j + 1}
  <2> SUFFICES ASSUME NEW k \in 1 .. Len(f), f[k] \in Roles PROVE k \in {i + 1, j + 1}  OBVIOUS
  <2>1. k # 1 /\ k - 1 \in 1 .. Len(g) /\ f[k] = g[k - 1]  BY <1>1
  <2> QED BY <1>2, <2>1
<1>5. DosTurnos(f)  BY <1>3, <1>4 DEF DosTurnos
<1> QED BY <1>5 DEF f

LEMMA GuionesConSusTurnos ==
    ASSUME NEW t, NEW c
    PROVE  /\ \A g \in SinResolver : DosTurnos(g)
           /\ \A g \in NoConsume(t, c) : DosTurnos(g)
           /\ \A g \in Consume(t) : DosTurnos(g)
<1>0. /\ "q" \in Llamada \ Roles /\ "ctx" \in Llamada \ Roles /\ "null" \in Llamada \ Roles
      /\ "quien" \in Llamada \ Roles /\ "similares" \in Llamada \ Roles
      /\ "categoria" \in Llamada \ Roles /\ "catalogo" \in Llamada \ Roles
  BY LlamadasSon DEF Roles
<1>1. DosTurnos(Aviso) /\ DosTurnos(PromosGenericas) /\ DosTurnos(Negativa)
  BY <1>0, DosEnTres DEF Aviso, PromosGenericas, Negativa
<1>2. DosTurnos(CatalogoAmbiguo) /\ DosTurnos(Aclara) /\ DosTurnos(Charla)
  BY <1>0, DosEnTres DEF CatalogoAmbiguo, Aclara, Charla
<1>3. DosTurnos(PromosCiudad) /\ DosTurnos(Interpretada)
  BY <1>0, DosEnCuatro DEF PromosCiudad, Interpretada
<1>4. DosTurnos(Busqueda)  BY <1>0, DosEnCinco DEF Busqueda
<1>5. \A g \in Detalle : DosTurnos(g)  BY <1>0, DosEnTres DEF Detalle
<1>6. \A g \in Filtradas : DosTurnos(g)
  <2> TAKE g \in Filtradas
  <2>1. PICK p \in {"null", "catalogo"} : g = <<"q", "U", "q", "A", p>>  BY DEF Filtradas
  <2>2. p \in Llamada \ Roles  BY <1>0
  <2>3. DosTurnos(<<"q", "U", "q", "A", p>>)  BY <1>0, <2>2, DosEnCinco
  <2> QED BY <2>1, <2>3
<1>7. \A g \in Resto : DosTurnos(g)  BY <1>2, <1>3, <1>4, <1>6 DEF Resto
<1>8. \A g \in Resto : g \in Seq(Llamada)  BY GuionesSonSecuencias
<1>9. \A g \in {<<"null">> \o r : r \in Resto} : DosTurnos(g)  BY <1>0, <1>7, <1>8, DosTras
<1> QED BY <1>1, <1>3, <1>5, <1>7, <1>9 DEF SinResolver, NoConsume, Consume

LEMMA ParejasInit == ConversacionInit => ParejasInv
<1> SUFFICES ASSUME ConversacionInit PROVE ParejasInv  OBVIOUS
<1>1. turno \in [SesionIds -> [Dias -> Int]]
      /\ \A s \in SesionIds, d \in Dias : turno[s][d] = 0
  BY DEF ConversacionInit, SinTurnos
<1>2. \A h \in Hilos : ~EnHilo(h, "guion")  BY SinHiloType DEF ConversacionInit, EnHilo
<1>3. \A s \in SesionIds : EnEspera(s) = {}  BY <1>2 DEF EnEspera
<1> QED BY <1>1, <1>2, <1>3, FS_EmptySet DEF ParejasInv

\* As many as messages at most.
LEMMA EnEsperaFinita == ASSUME NEW s PROVE IsFiniteSet(EnEspera(s))
<1>1. EnEspera(s) \in SUBSET Hilos  BY DEF EnEspera
<1>2. IsFiniteSet(Hilos)  BY ConversacionAssumption
<1> QED BY ONLY <1>1, <1>2, FS_Subset

\* A message that is not writing its turns, before the step or after it.
LEMMA ParejasFuera ==
    ASSUME ParejasInv, NEW h \in Hilos, ~EnHilo(h, "guion"),
           \A k \in Hilos : k # h => hilo'[k] = hilo[k],
           hilo'[h].paso = "guion" => DosTurnos(hilo'[h].guion),
           turno' = turno, dia' = dia, fallasChat' = 0 => fallasChat = 0
    PROVE  ParejasInv'
<1>1. \A s : EnEspera(s)' = EnEspera(s)  BY UnoOtro DEF EnEspera, EnHilo
<1> QED BY <1>1 DEF ParejasInv, Turnos, EnHilo

LEMMA ParejasMensaje ==
    ASSUME ChatInv, ParejasInv, NEW h \in Hilos, NEW id \in SesionIds \cup {NoSesionId},
           ProcessUserMessage(h, id)
    PROVE  ParejasInv'
<1> DEFINE w == [SinHilo EXCEPT !.paso = IF id = NoSesionId THEN "porUsuario" ELSE "lee",
                                !.id = id, !.de = mensajes + 1]
<1>1. w.paso \in {"porUsuario", "lee"}  BY DEF SinHilo
<1>2. hilo' = [hilo EXCEPT ![h] = w]  BY DEF ProcessUserMessage, Sigue
<1> HIDE DEF w
<1>3. hilo'[h] = w /\ \A k \in Hilos : k # h => hilo'[k] = hilo[k]  BY <1>2 DEF ChatInv, ChatTypeOK
<1>4. ~EnHilo(h, "guion") /\ UNCHANGED <<turno, dia, fallasChat>>  BY DEF ProcessUserMessage, EnHilo
<1> QED BY <1>1, <1>3, <1>4, ParejasFuera

LEMMA ParejasLee ==
    ASSUME ChatInv, ParejasInv, NEW h \in Hilos,
           LeeSesion(h) \/ LeePorUsuario(h) \/ GuardaSesion(h) \/ CreaSesion(h)
    PROVE  ParejasInv'
<1>1. hilo[h] \in HiloConLlamadas  BY DEF ChatInv, ChatTypeOK
<1>2. ~EnHilo(h, "guion") /\ UNCHANGED <<turno, dia, fallasChat>>
  BY DEF LeeSesion, LeePorUsuario, GuardaSesion, CreaSesion, EnHilo, Quieto
<1>3. \E w : Sigue(h, w) /\ w.paso # "guion"
  <2>1. CASE LeeSesion(h)
    <3>1. CASE hilo[h].id \in Activas
      <4> DEFINE v == [hilo[h] EXCEPT !.paso = "guarda", !.fila = sesion[hilo[h].id]]
      <4>1. Sigue(h, v) /\ v.paso = "guarda"  BY <1>1, <2>1, <3>1 DEF LeeSesion, HiloConLlamadas
      <4> QED BY <4>1
    <3>2. CASE hilo[h].id \notin Activas
      <4> DEFINE v == [hilo[h] EXCEPT !.paso = "porUsuario"]
      <4>1. Sigue(h, v) /\ v.paso = "porUsuario"  BY <1>1, <2>1, <3>2 DEF LeeSesion, HiloConLlamadas
      <4> QED BY <4>1
    <3> QED BY <3>1, <3>2
  <2>2. CASE LeePorUsuario(h)
    <3>1. CASE Sigue(h, [hilo[h] EXCEPT !.paso = "crea"])
      <4> DEFINE v == [hilo[h] EXCEPT !.paso = "crea"]
      <4>1. v.paso = "crea"  BY <1>1 DEF HiloConLlamadas
      <4> QED BY <3>1, <4>1
    <3>2. ASSUME NEW s,
                 Sigue(h, [hilo[h] EXCEPT !.paso = "guarda", !.id = s, !.fila = sesion[s]])
          PROVE  \E w : Sigue(h, w) /\ w.paso # "guion"
      <4> DEFINE v == [hilo[h] EXCEPT !.paso = "guarda", !.id = s, !.fila = sesion[s]]
      <4>1. v.paso = "guarda"  BY <1>1 DEF HiloConLlamadas
      <4> QED BY <3>2, <4>1
    <3> QED BY <2>2, <3>1, <3>2 DEF LeePorUsuario
  <2>3. CASE GuardaSesion(h)
    <3> DEFINE v == [hilo[h] EXCEPT !.paso = "elige"]
    <3>1. Sigue(h, v) /\ v.paso = "elige"  BY <1>1, <2>3 DEF GuardaSesion, HiloConLlamadas
    <3> QED BY <3>1
  <2>4. CASE CreaSesion(h)
    <3>1. PICK i : Sigue(h, [hilo[h] EXCEPT !.paso = "elige", !.id = i, !.fila = FilaNueva])
      BY <2>4 DEF CreaSesion
    <3> DEFINE v == [hilo[h] EXCEPT !.paso = "elige", !.id = i, !.fila = FilaNueva]
    <3>2. v.paso = "elige"  BY <1>1 DEF HiloConLlamadas
    <3> QED BY <3>1, <3>2
  <2> QED BY <2>1, <2>2, <2>3, <2>4
<1>4. PICK w : Sigue(h, w) /\ w.paso # "guion"  BY <1>3
<1>5. hilo'[h] = w /\ \A k \in Hilos : k # h => hilo'[k] = hilo[k]
  BY <1>4 DEF ChatInv, ChatTypeOK, Sigue
<1> QED BY <1>2, <1>4, <1>5, ParejasFuera

LEMMA ParejasElige ==
    ASSUME ChatInv, ParejasInv, NEW h \in Hilos, Elige(h) PROVE ParejasInv'
<1>1. hilo[h] \in HiloConLlamadas  BY DEF ChatInv, ChatTypeOK
<1>2. ~EnHilo(h, "guion") /\ UNCHANGED <<turno, dia, fallasChat>>  BY DEF Elige, EnHilo
<1>3. PICK g : /\ DosTurnos(g)
               /\ Sigue(h, [hilo[h] EXCEPT !.paso = "guion", !.guion = g, !.fila = NoFila])
  BY GuionesConSusTurnos DEF Elige
<1> DEFINE w == [hilo[h] EXCEPT !.paso = "guion", !.guion = g, !.fila = NoFila]
<1>4. Sigue(h, w) /\ w.guion = g  BY <1>1, <1>3 DEF HiloConLlamadas
<1> HIDE DEF w
<1>5. hilo'[h] = w /\ \A k \in Hilos : k # h => hilo'[k] = hilo[k]
  BY <1>4 DEF ChatInv, ChatTypeOK, Sigue
<1> QED BY <1>2, <1>3, <1>4, <1>5, ParejasFuera

\* A call leaves the calls after it.
LEMMA AvanzaCola ==
    ASSUME ChatTypeOK, NEW h \in Hilos, EnHilo(h, "guion"), hilo[h].guion # <<>>, Avanza(h)
    PROVE  /\ \/ hilo'[h].paso = "idle" /\ Tail(hilo[h].guion) = <<>>
              \/ /\ hilo'[h].paso = "guion" /\ hilo'[h].id = hilo[h].id
                 /\ hilo'[h].guion = Tail(hilo[h].guion)
           /\ \A k \in Hilos : k # h => hilo'[k] = hilo[k]
           /\ hilo[h].guion \in Seq(Llamada)
<1> DEFINE g == Tail(hilo[h].guion)
<1>1. hilo[h] \in HiloConLlamadas /\ hilo[h].paso = "guion"  BY DEF ChatTypeOK, EnHilo
<1>2. hilo[h].guion \in Seq(Llamada)  BY <1>1 DEF HiloConLlamadas
<1>3. hilo' = [hilo EXCEPT ![h] = IF g = <<>> THEN SinHilo ELSE [hilo[h] EXCEPT !.guion = g]]
  BY DEF Avanza, Sigue
<1> HIDE DEF g
<1>4. hilo'[h] = IF g = <<>> THEN SinHilo ELSE [hilo[h] EXCEPT !.guion = g]  BY <1>3 DEF ChatTypeOK
<1>5. CASE g = <<>>
  <2>1. hilo'[h].paso = "idle"  BY <1>4, <1>5, SinHiloType
  <2> QED BY <1>2, <1>3, <1>5, <2>1 DEF ChatTypeOK, g
<1>6. CASE g # <<>>  BY <1>4, <1>6, <1>1, <1>2, <1>3 DEF HiloConLlamadas, ChatTypeOK, g
<1> QED BY <1>5, <1>6

\* A call waits for the turn of the assistant after it if that is all it lacks.
LEMMA AvanzaEspera ==
    ASSUME ChatTypeOK, ParejasInv, NEW h \in Hilos, EnHilo(h, "guion"), hilo[h].guion # <<>>,
           Avanza(h), NEW i, i = hilo[h].id
    PROVE  /\ \A k \in Hilos : hilo'[k].paso = "guion" => Turnos(hilo'[k].guion)
           /\ Head(hilo[h].guion) = "U" =>
                 h \notin EnEspera(i) /\ EnEspera(i)' = EnEspera(i) \cup {h}
           /\ Head(hilo[h].guion) = "A" =>
                 h \in EnEspera(i) /\ EnEspera(i)' = EnEspera(i) \ {h}
           /\ Head(hilo[h].guion) \notin Roles => EnEspera(i)' = EnEspera(i)
           /\ \A s : s # i => EnEspera(s)' = EnEspera(s)
<1> DEFINE g == hilo[h].guion
           t == Tail(g)
<1>1. /\ \/ hilo'[h].paso = "idle" /\ t = <<>>
         \/ hilo'[h].paso = "guion" /\ hilo'[h].id = i /\ hilo'[h].guion = t
      /\ \A k \in Hilos : k # h => hilo'[k] = hilo[k]
      /\ g \in Seq(Llamada)
  BY AvanzaCola
<1>2. Turnos(g) /\ hilo[h].paso = "guion" /\ g # <<>>  BY DEF ParejasInv, EnHilo
<1>3. ASSUME NEW s, NEW k \in Hilos, k # h PROVE k \in EnEspera(s)' <=> k \in EnEspera(s)
  BY <1>1, <1>3 DEF EnEspera, EnHilo
<1>4. ASSUME NEW s PROVE h \in EnEspera(s) <=> s = i /\ UnTurno(g)  BY <1>2 DEF EnEspera, EnHilo
<1> HIDE DEF t, g
<1>5. ASSUME NEW s PROVE h \in EnEspera(s)' <=> s = i /\ UnTurno(t)
  BY <1>1, UnoOtro DEF EnEspera, EnHilo
<1>6. /\ Turnos(t)
      /\ Head(g) = "U" => ~UnTurno(g) /\ UnTurno(t)
      /\ Head(g) = "A" => UnTurno(g) /\ ~UnTurno(t)
      /\ Head(g) \notin Roles => (UnTurno(g) <=> UnTurno(t))
  BY <1>1, <1>2, ColaDeDos, ColaDeUno, ColaDeNinguno, UnoOtro, LosRoles DEF Turnos, t
<1>7. ASSUME NEW s PROVE EnEspera(s) \subseteq Hilos /\ EnEspera(s)' \subseteq Hilos
  BY DEF EnEspera
<1>8. \A k \in Hilos : hilo'[k].paso = "guion" => Turnos(hilo'[k].guion)
  BY <1>1, <1>6 DEF ParejasInv, EnHilo
<1>9. ASSUME NEW s, s # i PROVE EnEspera(s)' = EnEspera(s)
  <2>1. \A k \in Hilos : k \in EnEspera(s)' <=> k \in EnEspera(s)  BY <1>3, <1>4, <1>5, <1>9
  <2>2. EnEspera(s) \subseteq Hilos /\ EnEspera(s)' \subseteq Hilos  BY <1>7
  <2> QED BY <2>1, <2>2
<1>10. Head(g) = "U" => h \notin EnEspera(i) /\ EnEspera(i)' = EnEspera(i) \cup {h}
  BY <1>3, <1>4, <1>5, <1>6, <1>7
<1>11. Head(g) = "A" => h \in EnEspera(i) /\ EnEspera(i)' = EnEspera(i) \ {h}
  BY <1>3, <1>4, <1>5, <1>6, <1>7
<1>12. Head(g) \notin Roles => EnEspera(i)' = EnEspera(i)  BY <1>3, <1>4, <1>5, <1>6, <1>7
<1> QED BY <1>8, <1>9, <1>10, <1>11, <1>12 DEF g

LEMMA ParejasTurno ==
    ASSUME ChatInv, ParejasInv, NEW h \in Hilos, NEW r \in Roles, GuardarTurno(h, r)
    PROVE  ParejasInv'
<1>1. PICK i : i = hilo[h].id  OBVIOUS
<1>2. EnHilo(h, "guion") /\ hilo[h].guion # <<>> /\ Head(hilo[h].guion) = r /\ Avanza(h)
  BY DEF GuardarTurno, Llama
<1>3. i \in SesionIds /\ sesion[i] # NoFila  BY <1>1, <1>2, FilaNoFila DEF ChatInv, TocadaHoy
<1>4. UNCHANGED <<dia, fallasChat>> /\ dia \in Dias
  BY DEF GuardarTurno, Quieto, ChatInv, ChatTypeOK
<1>5. turno' = [turno EXCEPT ![i][dia] = IF r = "U" THEN @ + 1 ELSE @ - 1]
  BY <1>1, <1>3 DEF GuardarTurno
<1>6. turno \in [SesionIds -> [Dias -> Int]]  BY DEF ParejasInv
<1>7. /\ turno' \in [SesionIds -> [Dias -> Int]]
      /\ turno'[i][dia] = IF r = "U" THEN turno[i][dia] + 1 ELSE turno[i][dia] - 1
      /\ \A s \in SesionIds, d \in Dias : s # i \/ d # dia => turno'[s][d] = turno[s][d]
  BY <1>3, <1>4, <1>5, <1>6
<1>8. /\ \A k \in Hilos : hilo'[k].paso = "guion" => Turnos(hilo'[k].guion)
      /\ r = "U" => h \notin EnEspera(i) /\ EnEspera(i)' = EnEspera(i) \cup {h}
      /\ r = "A" => h \in EnEspera(i) /\ EnEspera(i)' = EnEspera(i) \ {h}
      /\ \A s : s # i => EnEspera(s)' = EnEspera(s)
  BY <1>1, <1>2, AvanzaEspera DEF ChatInv
<1>9. IsFiniteSet(EnEspera(i)) /\ Cardinality(EnEspera(i)) \in Nat
  BY EnEsperaFinita, FS_CardinalityType
<1>10. r = "U" => Cardinality(EnEspera(i)') = Cardinality(EnEspera(i)) + 1
  BY <1>8, <1>9, FS_AddElement
<1>11. r = "A" => Cardinality(EnEspera(i)') = Cardinality(EnEspera(i)) - 1
  BY <1>8, <1>9, FS_RemoveElement
<1>12. ASSUME fallasChat = 0, NEW s \in SesionIds, NEW d \in Dias
       PROVE  turno'[s][d] = IF d = dia THEN Cardinality(EnEspera(s)') ELSE 0
  <2>1. turno[s][d] = IF d = dia THEN Cardinality(EnEspera(s)) ELSE 0  BY <1>12 DEF ParejasInv
  <2>2. CASE s # i \/ d # dia  BY <2>1, <2>2, <1>7, <1>8
  <2>3. CASE s = i /\ d = dia  BY <2>1, <2>3, <1>7, <1>10, <1>11 DEF Roles
  <2> QED BY <2>2, <2>3
<1> QED BY <1>4, <1>7, <1>8, <1>12 DEF ParejasInv, EnHilo

\* A call that is no turn.
LEMMA ParejasOtra ==
    ASSUME ChatInv, ParejasInv, NEW h \in Hilos, EnHilo(h, "guion"), hilo[h].guion # <<>>,
           Head(hilo[h].guion) \notin Roles \/ fallasChat' # 0, Avanza(h),
           UNCHANGED <<turno, dia>>, fallasChat' = 0 => fallasChat = 0
    PROVE  ParejasInv'
<1>1. PICK i : i = hilo[h].id  OBVIOUS
<1>2. /\ \A k \in Hilos : hilo'[k].paso = "guion" => Turnos(hilo'[k].guion)
      /\ Head(hilo[h].guion) \notin Roles => EnEspera(i)' = EnEspera(i)
      /\ \A s : s # i => EnEspera(s)' = EnEspera(s)
  BY <1>1, AvanzaEspera DEF ChatInv
<1>3. fallasChat' = 0 => \A s : EnEspera(s)' = EnEspera(s)  BY <1>2
<1> QED BY <1>2, <1>3 DEF ParejasInv, EnHilo

LEMMA ParejasLlama ==
    ASSUME ChatInv, ParejasInv, NEW h \in Hilos,
           \/ \E t \in Tipos \cup {"null"} : GuardarPreguntaPendiente(h, t)
           \/ ActualizarContextoBusqueda(h) \/ Consulta(h)
    PROVE  ParejasInv'
<1>1. \A t \in Tipos \cup {"null"} : t \notin Roles  BY DEF Tipos, Roles
<1>2. "ctx" \notin Roles /\ "q" \notin Roles  BY DEF Roles
<1>3. /\ EnHilo(h, "guion") /\ hilo[h].guion # <<>> /\ Head(hilo[h].guion) \notin Roles
      /\ Avanza(h)
  BY <1>1, <1>2 DEF GuardarPreguntaPendiente, ActualizarContextoBusqueda, Consulta, Llama
<1>4. UNCHANGED <<turno, dia, fallasChat>>
  BY DEF GuardarPreguntaPendiente, ActualizarContextoBusqueda, Consulta, Quieto
<1> QED BY <1>3, <1>4, ParejasOtra

LEMMA ParejasFalla ==
    ASSUME ChatInv, ParejasInv, NEW h \in Hilos, FallaChat(h) PROVE ParejasInv'
<1>1. UNCHANGED <<turno, dia>> /\ fallasChat' = fallasChat + 1 /\ fallasChat' # 0
  BY DEF FallaChat, ChatInv, ChatTypeOK
<1>2. hilo[h] \in HiloConLlamadas  BY DEF ChatInv, ChatTypeOK
<1>3. CASE \E w : Sigue(h, w) /\ w.paso # "guion"
  <2>1. PICK w : Sigue(h, w) /\ w.paso # "guion"  BY <1>3
  <2>2. hilo'[h] = w /\ \A k \in Hilos : k # h => hilo'[k] = hilo[k]
    BY <2>1 DEF ChatInv, ChatTypeOK, Sigue
  <2> QED BY <1>1, <2>1, <2>2 DEF ParejasInv, EnHilo
<1>4. CASE ~Tolerada(h)
  <2>1. Sigue(h, SinHilo)  BY <1>4 DEF FallaChat
  <2> QED BY <2>1, SinHiloType, <1>3
<1>5. CASE EnHilo(h, "porUsuario")
  <2>1. Tolerada(h)  BY <1>5 DEF Tolerada
  <2>2. Sigue(h, [hilo[h] EXCEPT !.paso = "crea"])  BY <1>5, <2>1 DEF FallaChat
  <2> DEFINE w == [hilo[h] EXCEPT !.paso = "crea"]
  <2>3. w.paso = "crea"  BY <1>2 DEF HiloConLlamadas
  <2> QED BY <2>2, <2>3, <1>3
<1>6. CASE Tolerada(h) /\ ~EnHilo(h, "porUsuario")
  BY <1>6, <1>1, ParejasOtra DEF Tolerada, Llama, FallaChat
<1> QED BY <1>4, <1>5, <1>6

\* The turns a clean-up deletes are of days before, all paired, and no session it
\* deletes has a message.
LEMMA ParejasLimpia ==
    ASSUME ChatInv, ParejasInv, NEW h \in Hilos, LimpiaTurnos(h) \/ LimpiaSesiones(h)
    PROVE  ParejasInv'
<1>1. UNCHANGED <<hilo, dia, fallasChat>>  BY DEF LimpiaTurnos, LimpiaSesiones
<1>2. limpieza[h] \in Limpieza /\ limpieza[h].limite < dia /\ dia \in Dias
  BY DEF LimpiaTurnos, LimpiaSesiones, ChatInv, ChatTypeOK, LimpiaLoViejo
<1>3. \A s : EnEspera(s)' = EnEspera(s)  BY <1>1 DEF EnEspera, EnHilo
<1>4. turno \in [SesionIds -> [Dias -> Int]]  BY DEF ParejasInv
<1>5. /\ turno' \in [SesionIds -> [Dias -> Int]]
      /\ \A s \in SesionIds, d \in Dias :
            turno'[s][d] # turno[s][d] => turno'[s][d] = 0 /\ (d # dia \/ EnEspera(s) = {})
  <2>1. CASE LimpiaTurnos(h)
    <3>1. turno' = [s \in SesionIds |-> [d \in Dias |->
                       IF d < limpieza[h].limite THEN 0 ELSE turno[s][d]]]
      BY <2>1 DEF LimpiaTurnos
    <3>2. ~(dia < limpieza[h].limite)  BY <1>2 DEF Dias, Limpieza
    <3>3. \A s \in SesionIds, d \in Dias :
             turno'[s][d] = IF d < limpieza[h].limite THEN 0 ELSE turno[s][d]
      BY <3>1
    <3>4. turno' \in [SesionIds -> [Dias -> Int]]  BY <1>4, <3>1
    <3> QED BY <3>2, <3>3, <3>4
  <2>2. CASE LimpiaSesiones(h)
    <3> DEFINE borradas == {s \in SesionIds : Vieja(s, limpieza[h].limite)}
    <3>1. turno' = [s \in SesionIds |-> IF s \in borradas THEN SinTurnos ELSE turno[s]]
      BY <2>2 DEF LimpiaSesiones
    <3>2. \A s \in borradas : EnEspera(s) = {}
      <4> SUFFICES ASSUME NEW s \in borradas, NEW k \in EnEspera(s) PROVE FALSE  OBVIOUS
      <4>1. sesion[s].tocada < limpieza[h].limite  BY DEF Vieja
      <4>2. sesion[s].tocada = dia  BY DEF EnEspera, ChatInv, TocadaHoy
      <4> QED BY <1>2, <4>1, <4>2 DEF Dias, Limpieza
    <3>3. SinTurnos \in [Dias -> Int] /\ \A d \in Dias : SinTurnos[d] = 0  BY DEF SinTurnos
    <3> HIDE DEF borradas
    <3> QED BY <1>4, <3>1, <3>2, <3>3
  <2> QED BY <2>1, <2>2
<1>6. ASSUME fallasChat = 0, NEW s \in SesionIds, NEW d \in Dias
      PROVE  turno'[s][d] = IF d = dia THEN Cardinality(EnEspera(s)) ELSE 0
  <2>1. turno[s][d] = IF d = dia THEN Cardinality(EnEspera(s)) ELSE 0  BY <1>6 DEF ParejasInv
  <2>2. EnEspera(s) = {} => Cardinality(EnEspera(s)) = 0  BY FS_EmptySet
  <2> QED BY <1>5, <2>1, <2>2
<1> QED BY <1>1, <1>3, <1>5, <1>6 DEF ParejasInv, EnHilo

LEMMA ParejasPasaDia == ASSUME ChatInv, ParejasInv, PasaDia PROVE ParejasInv'
<1>1. UNCHANGED <<turno, hilo, fallasChat>> /\ \A h \in Hilos : ~EnHilo(h, "guion")
  BY DEF PasaDia, Contestado, EnHilo
<1>2. \A s : EnEspera(s) = {} /\ EnEspera(s)' = {}  BY <1>1 DEF EnEspera, EnHilo
<1> QED BY <1>1, <1>2, FS_EmptySet DEF ParejasInv, EnHilo

LEMMA ParejasStep == ChatInv /\ ParejasInv /\ [ConversacionNext]_conversacionVars => ParejasInv'
<1> SUFFICES ASSUME ChatInv, ParejasInv, [ConversacionNext]_conversacionVars PROVE ParejasInv'
  OBVIOUS
<1>1. ASSUME UNCHANGED <<turno, hilo, dia>>, fallasChat' = 0 => fallasChat = 0
      PROVE  ParejasInv'
  BY <1>1 DEF EnEspera, EnHilo, ParejasInv
<1>2. CASE UNCHANGED conversacionVars  BY <1>1, <1>2 DEF conversacionVars
<1>3. CASE \E h \in Hilos, id \in SesionIds \cup {NoSesionId} : ProcessUserMessage(h, id)
  BY <1>3, ParejasMensaje
<1>4. ASSUME NEW h \in Hilos,
             \/ LeeSesion(h) \/ LeePorUsuario(h) \/ GuardaSesion(h) \/ CreaSesion(h)
             \/ Elige(h)
      PROVE  ParejasInv'
  BY <1>4, ParejasLee, ParejasElige
<1>5. ASSUME NEW h \in Hilos,
             ActualizarContextoBusqueda(h) \/ Consulta(h) \/ FallaChat(h)
      PROVE  ParejasInv'
  BY <1>5, ParejasLlama, ParejasFalla
<1>6. ASSUME NEW h \in Hilos, LimpiaTurnos(h) \/ LimpiaSesiones(h) PROVE ParejasInv'
  BY <1>6, ParejasLimpia
<1>7. ASSUME NEW h \in Hilos, FallaLimpieza(h) PROVE ParejasInv'
  BY <1>7, <1>1 DEF FallaLimpieza, ChatInv, ChatTypeOK
<1>8. CASE \E h \in Hilos, r \in Roles : GuardarTurno(h, r)  BY <1>8, ParejasTurno
<1>9. CASE \E h \in Hilos, t \in Tipos \cup {"null"} : GuardarPreguntaPendiente(h, t)
  BY <1>9, ParejasLlama
<1>10. CASE \E s \in SesionIds : CerrarSesion(s)  BY <1>1, <1>10 DEF CerrarSesion
<1>11. CASE PasaDia  BY <1>11, ParejasPasaDia
<1> QED BY <1>2, <1>3, <1>4, <1>5, <1>6, <1>7, <1>8, <1>9, <1>10, <1>11 DEF ConversacionNext

LEMMA ParejasSiempre == ConversacionSpec => []ParejasInv
BY ChatSiempre, ParejasInit, ParejasStep, PTL DEF ConversacionSpec

\* Every message answered left its two turns in one session and of one day, through every
\* branch and clean-up and however messages overlap, if no call failed
\* (guardarTurnoUsuario, guardarTurnoAsistente in every branch of processUserMessage).
THEOREM CadaMensajeDosTurnos == ConversacionSpec => []TurnosEmparejados
<1>1. ParejasInv => TurnosEmparejados
  <2> SUFFICES ASSUME ParejasInv, Contestado, fallasChat = 0,
                      NEW s \in SesionIds, NEW d \in Dias
               PROVE  turno[s][d] = 0
    BY DEF TurnosEmparejados
  <2>1. EnEspera(s) = {}  BY DEF EnEspera, Contestado, EnHilo
  <2> QED BY <2>1, FS_EmptySet DEF ParejasInv
<1> QED BY <1>1, ParejasSiempre, PTL

--------------------
\* A question is pending in a session; the message that is about to clear it.
Pendiente(s) == sesion[s] # NoFila /\ sesion[s].pend.tipo # "null"
PorLimpiar(h, s) == /\ EnHilo(h, "guion") /\ hilo[h].id = s
                    /\ hilo[h].guion # <<>> /\ Head(hilo[h].guion) = "null"

\* What a message read is as it was read, or it holds no question.
Intacta(h) ==
    hilo[h].fila.pend.tipo # "null" =>
        /\ hilo[h].fila.pend.de < mensajes /\ hilo[h].fila.pend.de \notin contestadas
        /\ \A s \in SesionIds : Pendiente(s) /\ s # hilo[h].id =>
               sesion[s].pend.de # hilo[h].fila.pend.de

\* What no two messages and no failed call may break: a message at work is the last one
\* and its question is not answered yet; a question is pending in one session, its message
\* came before, and if it was answered the message at work clears it next.
PreguntasEnOrden ==
    /\ contestadas \subseteq 0 .. mensajes
    /\ \A h \in Hilos : ~EnHilo(h, "idle") =>
           hilo[h].de = mensajes /\ mensajes \notin contestadas
    /\ \A s, o \in SesionIds :
           Pendiente(s) /\ Pendiente(o) /\ sesion[s].pend.de = sesion[o].pend.de => s = o
    /\ \A s \in SesionIds : Pendiente(s) =>
           /\ sesion[s].pend.de <= mensajes
           /\ \A h \in Hilos : ~EnHilo(h, "idle") /\ sesion[s].pend.de = mensajes =>
                  EnHilo(h, "guion") /\ hilo[h].id = s
           /\ sesion[s].pend.de \in contestadas => \E h \in Hilos : PorLimpiar(h, s)
    /\ \A h \in Hilos : EnHilo(h, "guarda") \/ EnHilo(h, "elige") =>
           hilo[h].fila \in Fila /\ Intacta(h)

RespuestaInv == ~solapoChat /\ fallasChat = 0 => ~repetida /\ PreguntasEnOrden

LEMMA RespuestaInit == ConversacionInit => RespuestaInv
<1> SUFFICES ASSUME ConversacionInit PROVE RespuestaInv  OBVIOUS
<1>1. \A h \in Hilos : hilo[h].paso = "idle"  BY SinHiloType DEF ConversacionInit
<1>2. \A s \in SesionIds : ~Pendiente(s)  BY DEF ConversacionInit, Pendiente
<1>3. contestadas \subseteq 0 .. mensajes /\ ~repetida  BY DEF ConversacionInit
<1> QED BY <1>1, <1>2, <1>3 DEF RespuestaInv, PreguntasEnOrden, EnHilo

\* A message that overlapped none is alone.
LEMMA SoloUno ==
    ASSUME ChatInv, ~solapoChat, NEW h \in Hilos, hilo[h].paso # "idle"
    PROVE  \A k \in Hilos : k # h => hilo[k].paso = "idle"
  BY DEF ChatInv, DeUno, EnHilo

\* A row has its question.
LEMMA FilasType ==
    ASSUME ChatTypeOK, NEW s \in SesionIds, sesion[s] # NoFila
    PROVE  sesion[s] \in Fila /\ sesion[s].pend.de \in 0 .. MaxMensajes
  BY DEF ChatTypeOK, Fila, Pregunta

LEMMA RespuestaMensaje ==
    ASSUME ChatInv, RespuestaInv, NEW h \in Hilos, NEW id \in SesionIds \cup {NoSesionId},
           ProcessUserMessage(h, id)
    PROVE  RespuestaInv'
<1> DEFINE w == [SinHilo EXCEPT !.paso = IF id = NoSesionId THEN "porUsuario" ELSE "lee",
                                !.id = id, !.de = mensajes + 1]
<1>1. w.paso \in {"porUsuario", "lee"} /\ w.de = mensajes + 1  BY DEF SinHilo
<1>2. hilo' = [hilo EXCEPT ![h] = w]  BY DEF ProcessUserMessage, Sigue
<1> HIDE DEF w
<1>3. hilo'[h] = w /\ \A k \in Hilos : k # h => hilo'[k] = hilo[k]  BY <1>2 DEF ChatInv, ChatTypeOK
<1>4. /\ UNCHANGED <<sesion, fallasChat, contestadas, repetida>>
      /\ mensajes' = mensajes + 1 /\ mensajes \in Nat
      /\ ~solapoChat' => ~solapoChat /\ \A k \in Hilos : hilo[k].paso = "idle"
  <2>1. mensajes \in Nat  BY DEF ChatInv, ChatTypeOK
  <2>2. /\ UNCHANGED <<sesion, fallasChat, contestadas, repetida>>
        /\ mensajes' = mensajes + 1
        /\ solapoChat' = (solapoChat \/ ~Contestado)
    BY DEF ProcessUserMessage
  <2> QED BY <2>1, <2>2 DEF Contestado, EnHilo
<1>6. ASSUME ~solapoChat', fallasChat' = 0 PROVE ~repetida' /\ PreguntasEnOrden'
  <2>1. ~repetida /\ PreguntasEnOrden /\ \A k \in Hilos : hilo[k].paso = "idle"
    BY <1>4, <1>6 DEF RespuestaInv
  <2>2. \A s \in SesionIds : Pendiente(s)' <=> Pendiente(s)  BY <1>4 DEF Pendiente
  <2>10. contestadas' \subseteq 0 .. mensajes' /\ mensajes' \notin contestadas'
    BY <1>4, <2>1 DEF PreguntasEnOrden
  <2>3. \A s \in SesionIds : Pendiente(s) =>
           sesion[s].pend.de <= mensajes /\ sesion[s].pend.de \notin contestadas
    BY <2>1 DEF PreguntasEnOrden, PorLimpiar, EnHilo
  <2>4. \A k \in Hilos : ~EnHilo(k, "idle")' => hilo'[k].de = mensajes'
    BY <1>1, <1>3, <1>4, <2>1 DEF EnHilo
  <2>5. \A s \in SesionIds : Pendiente(s)' =>
           /\ sesion'[s].pend.de < mensajes' /\ sesion'[s].pend.de \notin contestadas'
    <3> SUFFICES ASSUME NEW s \in SesionIds, Pendiente(s)
                 PROVE  sesion[s].pend.de < mensajes' /\ sesion[s].pend.de \notin contestadas
      BY <1>4, <2>2
    <3>1. sesion[s].pend.de \in Nat  BY FilasType DEF Pendiente, ChatInv
    <3> QED BY <1>4, <2>3, <3>1
  <2>6. \A k \in Hilos : hilo'[k].paso \notin {"guarda", "elige"}  BY <1>1, <1>3, <2>1
  <2>7. \A s, o \in SesionIds :
           (Pendiente(s) /\ Pendiente(o) /\ sesion[s].pend.de = sesion[o].pend.de => s = o)'
    BY <1>4, <2>1, <2>2 DEF PreguntasEnOrden
  <2>8. \A s \in SesionIds : Pendiente(s)' => sesion'[s].pend.de \in Nat
    BY <1>4, <2>2, FilasType DEF Pendiente, ChatInv
  <2>9. \A s \in SesionIds : Pendiente(s)' =>
           sesion'[s].pend.de <= mensajes' /\ sesion'[s].pend.de # mensajes'
    BY <1>4, <2>5, <2>8
  <2> QED BY <1>4, <2>1, <2>4, <2>5, <2>6, <2>7, <2>9, <2>10 DEF PreguntasEnOrden, EnHilo
<1> QED BY <1>6 DEF RespuestaInv

LEMMA RespuestaLee ==
    ASSUME ChatInv, RespuestaInv, NEW h \in Hilos, LeeSesion(h) \/ LeePorUsuario(h)
    PROVE  RespuestaInv'
<1>1. hilo[h] \in HiloConLlamadas /\ hilo[h].paso \in {"lee", "porUsuario"}
  BY DEF ChatInv, ChatTypeOK, LeeSesion, LeePorUsuario, EnHilo
<1>2. UNCHANGED <<sesion, fallasChat, contestadas, repetida, solapoChat, mensajes>>
  BY DEF LeeSesion, LeePorUsuario, Quieto, conversacionHistoria
<1>3. PICK w : /\ Sigue(h, w) /\ w.de = hilo[h].de
               /\ \/ w.paso \in {"porUsuario", "crea"}
                  \/ w.paso = "guarda" /\ w.id \in Activas /\ w.fila = sesion[w.id]
  <2>1. CASE LeeSesion(h)
    <3>1. CASE hilo[h].id \in Activas
      <4> DEFINE v == [hilo[h] EXCEPT !.paso = "guarda", !.fila = sesion[hilo[h].id]]
      <4>1. /\ Sigue(h, v) /\ v.paso = "guarda" /\ v.de = hilo[h].de
            /\ v.id = hilo[h].id /\ v.fila = sesion[hilo[h].id]
        BY <1>1, <2>1, <3>1 DEF LeeSesion, HiloConLlamadas
      <4> QED BY <3>1, <4>1
    <3>2. CASE hilo[h].id \notin Activas
      <4> DEFINE v == [hilo[h] EXCEPT !.paso = "porUsuario"]
      <4>1. Sigue(h, v) /\ v.paso = "porUsuario" /\ v.de = hilo[h].de
        BY <1>1, <2>1, <3>2 DEF LeeSesion, HiloConLlamadas
      <4> QED BY <4>1
    <3> QED BY <3>1, <3>2
  <2>2. CASE LeePorUsuario(h)
    <3>1. CASE Sigue(h, [hilo[h] EXCEPT !.paso = "crea"])
      <4> DEFINE v == [hilo[h] EXCEPT !.paso = "crea"]
      <4>1. v.paso = "crea" /\ v.de = hilo[h].de  BY <1>1 DEF HiloConLlamadas
      <4> QED BY <3>1, <4>1
    <3>2. CASE \E s \in Recientes :
                 Sigue(h, [hilo[h] EXCEPT !.paso = "guarda", !.id = s, !.fila = sesion[s]])
      <4>1. PICK s \in Activas :
               Sigue(h, [hilo[h] EXCEPT !.paso = "guarda", !.id = s, !.fila = sesion[s]])
        BY <3>2 DEF Recientes
      <4> DEFINE v == [hilo[h] EXCEPT !.paso = "guarda", !.id = s, !.fila = sesion[s]]
      <4>2. v.paso = "guarda" /\ v.de = hilo[h].de /\ v.id = s /\ v.fila = sesion[s]
        BY <1>1 DEF HiloConLlamadas
      <4> QED BY <4>1, <4>2
    <3> QED BY <2>2, <3>1, <3>2 DEF LeePorUsuario
  <2> QED BY <2>1, <2>2
<1>4. hilo'[h] = w /\ \A k \in Hilos : k # h => hilo'[k] = hilo[k]
  BY <1>3 DEF ChatInv, ChatTypeOK, Sigue
<1>5. ASSUME ~solapoChat, fallasChat = 0 PROVE ~repetida' /\ PreguntasEnOrden'
  <2>1. ~repetida /\ PreguntasEnOrden  BY <1>5 DEF RespuestaInv
  <2>2. \A k \in Hilos : k # h => hilo[k].paso = "idle"  BY <1>1, <1>5, SoloUno
  <2>3. \A s \in SesionIds : Pendiente(s)' <=> Pendiente(s)  BY <1>2 DEF Pendiente
  <2>4. \A s \in SesionIds : Pendiente(s) =>
           /\ sesion[s].pend.de <= mensajes /\ sesion[s].pend.de # mensajes
           /\ sesion[s].pend.de \notin contestadas
    BY <1>1, <2>1, <2>2 DEF PreguntasEnOrden, PorLimpiar, EnHilo
  <2>5. \A k \in Hilos : ~EnHilo(k, "idle")' =>
           hilo'[k].de = mensajes' /\ mensajes' \notin contestadas'
    BY <1>1, <1>2, <1>3, <1>4, <2>1, <2>2 DEF PreguntasEnOrden, EnHilo
  <2>6. ASSUME w.paso = "guarda" PROVE w.fila \in Fila /\ Intacta(h)'
    <3>1. w.id \in SesionIds /\ sesion[w.id] \in Fila /\ w.fila = sesion[w.id]
      BY <1>3, <2>6, Abiertas DEF ChatInv
    <3>2. sesion[w.id] # NoFila  BY <3>1, FilaNoFila
    <3>3. ASSUME w.fila.pend.tipo # "null"
          PROVE  /\ w.fila.pend.de < mensajes /\ w.fila.pend.de \notin contestadas
                 /\ \A s \in SesionIds : Pendiente(s) /\ s # w.id =>
                      sesion[s].pend.de # w.fila.pend.de
      <4>1. Pendiente(w.id)  BY <3>1, <3>2, <3>3 DEF Pendiente
      <4>2. sesion[w.id].pend.de \in Nat /\ mensajes \in Nat
        BY <3>1, <3>2, FilasType DEF ChatInv, ChatTypeOK
      <4>3. w.fila.pend.de < mensajes /\ w.fila.pend.de \notin contestadas
        BY <2>4, <3>1, <4>1, <4>2
      <4>4. \A s \in SesionIds : Pendiente(s) /\ s # w.id =>
               sesion[s].pend.de # sesion[w.id].pend.de
        BY <2>1, <3>1, <4>1 DEF PreguntasEnOrden
      <4> QED BY <3>1, <4>3, <4>4
    <3> QED BY <1>2, <1>4, <2>3, <3>1, <3>3 DEF Intacta
  <2>7. \A k \in Hilos : EnHilo(k, "guarda")' \/ EnHilo(k, "elige")' =>
           hilo'[k].fila \in Fila /\ Intacta(k)'
    BY <1>3, <1>4, <2>2, <2>6 DEF EnHilo
  <2>8. \A s, o \in SesionIds :
           (Pendiente(s) /\ Pendiente(o) /\ sesion[s].pend.de = sesion[o].pend.de => s = o)'
    BY <1>2, <2>1, <2>3 DEF PreguntasEnOrden
  <2> QED BY <1>2, <2>1, <2>3, <2>4, <2>5, <2>7, <2>8 DEF PreguntasEnOrden
<1> QED BY <1>2, <1>5 DEF RespuestaInv

\* What a message at work does to the session it found, which nobody else touches.
LEMMA RespuestaGuarda ==
    ASSUME ChatInv, RespuestaInv, NEW h \in Hilos, GuardaSesion(h) PROVE RespuestaInv'
<1>1. hilo[h] \in HiloConLlamadas /\ hilo[h].paso = "guarda"
  BY DEF ChatInv, ChatTypeOK, GuardaSesion, EnHilo
<1>2. PICK i, f : i = hilo[h].id /\ f = [hilo[h].fila EXCEPT !.tocada = dia]  OBVIOUS
<1>3. i \in SesionIds /\ hilo[h].fila \in Fila  BY <1>1, <1>2 DEF ChatInv, Encontrada, EnHilo
<1>4. f \in Fila /\ f.pend = hilo[h].fila.pend /\ f # NoFila
  BY <1>2, <1>3, FilaNoFila DEF Fila, ChatInv, ChatTypeOK
<1>5. /\ UNCHANGED <<fallasChat, contestadas, repetida, solapoChat, mensajes>>
      /\ sesion' = [sesion EXCEPT ![i] = f]
  BY <1>2 DEF GuardaSesion, Quieto, conversacionHistoria
<1>6. sesion'[i] = f /\ \A o \in SesionIds : o # i => sesion'[o] = sesion[o]
  BY <1>3, <1>4, <1>5, Escribe1 DEF ChatInv
<1> DEFINE w == [hilo[h] EXCEPT !.paso = "elige"]
<1>7. w.paso = "elige" /\ w.id = i /\ w.fila = hilo[h].fila /\ w.de = hilo[h].de
  BY <1>1, <1>2 DEF HiloConLlamadas
<1>8. hilo' = [hilo EXCEPT ![h] = w]  BY DEF GuardaSesion, Sigue
<1> HIDE DEF w
<1>9. hilo'[h] = w /\ \A k \in Hilos : k # h => hilo'[k] = hilo[k]  BY <1>8 DEF ChatInv, ChatTypeOK
<1>10. ASSUME ~solapoChat, fallasChat = 0 PROVE ~repetida' /\ PreguntasEnOrden'
  <2>1. ~repetida /\ PreguntasEnOrden  BY <1>10 DEF RespuestaInv
  <2>2. \A k \in Hilos : k # h => hilo[k].paso = "idle"  BY <1>1, <1>10, SoloUno
  <2>3. \A s \in SesionIds : s # i => (Pendiente(s)' <=> Pendiente(s))  BY <1>6 DEF Pendiente
  <2>4. Pendiente(i)' <=> f.pend.tipo # "null"  BY <1>4, <1>6 DEF Pendiente
  <2>5. \A s \in SesionIds : Pendiente(s) =>
           /\ sesion[s].pend.de <= mensajes /\ sesion[s].pend.de # mensajes
           /\ sesion[s].pend.de \notin contestadas
    BY <1>1, <2>1, <2>2 DEF PreguntasEnOrden, PorLimpiar, EnHilo
  <2>6. Intacta(h)  BY <1>1, <2>1 DEF PreguntasEnOrden, EnHilo
  <2>7. f.pend.tipo # "null" =>
           /\ f.pend.de < mensajes /\ f.pend.de \notin contestadas
           /\ \A s \in SesionIds : Pendiente(s) /\ s # i => sesion[s].pend.de # f.pend.de
    BY <1>2, <1>4, <2>6 DEF Intacta
  <2>8. f.pend.de \in Nat /\ mensajes \in Nat  BY <1>4 DEF Fila, Pregunta, ChatInv, ChatTypeOK
  <2>9. \A s \in SesionIds : Pendiente(s)' =>
           /\ sesion'[s].pend.de <= mensajes /\ sesion'[s].pend.de # mensajes
           /\ sesion'[s].pend.de \notin contestadas
    BY <1>6, <2>3, <2>4, <2>5, <2>7, <2>8
  <2>10. \A s, o \in SesionIds :
           (Pendiente(s) /\ Pendiente(o) /\ sesion[s].pend.de = sesion[o].pend.de => s = o)'
    <3> SUFFICES ASSUME NEW s \in SesionIds, NEW o \in SesionIds, Pendiente(s)', Pendiente(o)',
                        sesion'[s].pend.de = sesion'[o].pend.de, s # o
                 PROVE  FALSE
      OBVIOUS
    <3>1. CASE s # i /\ o # i  BY <3>1, <1>6, <2>1, <2>3 DEF PreguntasEnOrden
    <3>2. CASE s = i  BY <3>2, <1>6, <2>3, <2>4, <2>7
    <3>3. CASE o = i  BY <3>3, <1>6, <2>3, <2>4, <2>7
    <3> QED BY <3>1, <3>2, <3>3
  <2>11. hilo'[h].fila \in Fila /\ Intacta(h)'
    BY <1>3, <1>4, <1>5, <1>7, <1>9, <2>3, <2>7, <1>6 DEF Intacta
  <2>12. \A k \in Hilos : EnHilo(k, "guarda")' \/ EnHilo(k, "elige")' =>
           hilo'[k].fila \in Fila /\ Intacta(k)'
    BY <1>9, <2>2, <2>11 DEF EnHilo
  <2>13. \A k \in Hilos : ~EnHilo(k, "idle")' =>
           hilo'[k].de = mensajes' /\ mensajes' \notin contestadas'
    BY <1>1, <1>5, <1>7, <1>9, <2>1, <2>2 DEF PreguntasEnOrden, EnHilo
  <2> QED BY <1>5, <2>1, <2>9, <2>10, <2>12, <2>13 DEF PreguntasEnOrden
<1> QED BY <1>5, <1>10 DEF RespuestaInv

LEMMA RespuestaCrea ==
    ASSUME ChatInv, RespuestaInv, NEW h \in Hilos, CreaSesion(h) PROVE RespuestaInv'
<1>1. hilo[h] \in HiloConLlamadas /\ hilo[h].paso = "crea"
  BY DEF ChatInv, ChatTypeOK, CreaSesion, EnHilo
<1>2. PICK i \in SesionIds :
         /\ sesion' = [sesion EXCEPT ![i] =
               IF @ = NoFila THEN FilaNueva ELSE [@ EXCEPT !.activa = TRUE, !.tocada = dia]]
         /\ Sigue(h, [hilo[h] EXCEPT !.paso = "elige", !.id = i, !.fila = FilaNueva])
  BY <1>1 DEF CreaSesion, HiloConLlamadas
<1>3. PICK f : f = IF sesion[i] = NoFila THEN FilaNueva
                   ELSE [sesion[i] EXCEPT !.activa = TRUE, !.tocada = dia]
  OBVIOUS
<1>4. FilaNueva \in Fila /\ FilaNueva.pend.tipo = "null"
  BY FilaNuevaType DEF FilaNueva, SinPregunta
<1>5. /\ f \in Fila /\ f # NoFila
      /\ f.pend.tipo = "null" \/ (sesion[i] # NoFila /\ f.pend = sesion[i].pend)
  <2>1. CASE sesion[i] = NoFila  BY <1>3, <1>4, <2>1, FilaNoFila
  <2>2. CASE sesion[i] # NoFila  BY <2>2, <1>3, FilaNoFila DEF ChatInv, ChatTypeOK, Fila
  <2> QED BY <2>1, <2>2
<1>6. /\ UNCHANGED <<fallasChat, contestadas, repetida, solapoChat, mensajes>>
      /\ sesion' = [sesion EXCEPT ![i] = f]
  BY <1>2, <1>3 DEF CreaSesion, Quieto, conversacionHistoria
<1>7. sesion'[i] = f /\ \A o \in SesionIds : o # i => sesion'[o] = sesion[o]
  BY <1>5, <1>6, Escribe1 DEF ChatInv
<1> DEFINE w == [hilo[h] EXCEPT !.paso = "elige", !.id = i, !.fila = FilaNueva]
<1>8. w.paso = "elige" /\ w.id = i /\ w.fila = FilaNueva /\ w.de = hilo[h].de
  BY <1>1 DEF HiloConLlamadas
<1>9. hilo' = [hilo EXCEPT ![h] = w]  BY <1>2 DEF Sigue
<1> HIDE DEF w
<1>10. hilo'[h] = w /\ \A k \in Hilos : k # h => hilo'[k] = hilo[k]  BY <1>9 DEF ChatInv, ChatTypeOK
<1>11. ASSUME ~solapoChat, fallasChat = 0 PROVE ~repetida' /\ PreguntasEnOrden'
  <2>1. ~repetida /\ PreguntasEnOrden  BY <1>11 DEF RespuestaInv
  <2>2. \A k \in Hilos : k # h => hilo[k].paso = "idle"  BY <1>1, <1>11, SoloUno
  <2>3. \A s \in SesionIds : Pendiente(s)' => Pendiente(s) /\ sesion'[s].pend = sesion[s].pend
    BY <1>5, <1>7 DEF Pendiente
  <2>4. \A s \in SesionIds : Pendiente(s) =>
           /\ sesion[s].pend.de <= mensajes /\ sesion[s].pend.de # mensajes
           /\ sesion[s].pend.de \notin contestadas
    BY <1>1, <2>1, <2>2 DEF PreguntasEnOrden, PorLimpiar, EnHilo
  <2>5. \A s, o \in SesionIds :
           (Pendiente(s) /\ Pendiente(o) /\ sesion[s].pend.de = sesion[o].pend.de => s = o)'
    BY <2>1, <2>3 DEF PreguntasEnOrden
  <2>6. \A k \in Hilos : EnHilo(k, "guarda")' \/ EnHilo(k, "elige")' =>
           hilo'[k].fila \in Fila /\ Intacta(k)'
    BY <1>4, <1>8, <1>10, <2>2 DEF EnHilo, Intacta
  <2>7. \A k \in Hilos : ~EnHilo(k, "idle")' =>
           hilo'[k].de = mensajes' /\ mensajes' \notin contestadas'
    BY <1>1, <1>6, <1>8, <1>10, <2>1, <2>2 DEF PreguntasEnOrden, EnHilo
  <2> QED BY <1>6, <2>1, <2>3, <2>4, <2>5, <2>6, <2>7 DEF PreguntasEnOrden
<1> QED BY <1>6, <1>11 DEF RespuestaInv

\* A message that answers the pending question clears it before anything else.
LEMMA ConsumeLimpia ==
    ASSUME NEW t, NEW g \in Consume(t)
    PROVE  t # "null" /\ g # <<>> /\ Head(g) = "null"
<1>1. t # "null"  BY DEF Consume
<1>2. CASE g = Negativa  BY <1>1, <1>2 DEF Negativa
<1>3. CASE \E r \in Resto : g = <<"null">> \o r
  <2>1. PICK r \in Resto : g = <<"null">> \o r  BY <1>3
  <2>2. r \in Seq(Llamada) /\ "null" \in Llamada  BY GuionesSonSecuencias, LlamadasSon
  <2>3. \A a \in Llamada, q \in Seq(Llamada) : <<a>> \o q # <<>> /\ Head(<<a>> \o q) = a  OBVIOUS
  <2> QED BY <1>1, <2>1, <2>2, <2>3
<1> QED BY <1>1, <1>2, <1>3 DEF Consume

LEMMA RespuestaElige ==
    ASSUME ChatInv, RespuestaInv, NEW h \in Hilos, Elige(h) PROVE RespuestaInv'
<1>1. hilo[h] \in HiloConLlamadas /\ hilo[h].paso = "elige"
  BY DEF ChatInv, ChatTypeOK, Elige, EnHilo
<1>2. PICK i, p : i = hilo[h].id /\ p = hilo[h].fila.pend  OBVIOUS
<1>3. UNCHANGED <<sesion, mensajes, fallasChat, solapoChat>>  BY DEF Elige
<1>4. i \in SesionIds /\ sesion[i] \in Fila  BY <1>1, <1>2 DEF ChatInv, TocadaHoy, EnHilo
<1>5. PICK g : /\ Sigue(h, [hilo[h] EXCEPT !.paso = "guion", !.guion = g, !.fila = NoFila])
               /\ \/ UNCHANGED <<contestadas, repetida>>
                  \/ /\ p.tipo # "null" /\ g # <<>> /\ Head(g) = "null"
                     /\ contestadas' = contestadas \cup {p.de}
                     /\ repetida' = (repetida \/ p.de \in contestadas)
  BY <1>2, ConsumeLimpia DEF Elige
<1> DEFINE w == [hilo[h] EXCEPT !.paso = "guion", !.guion = g, !.fila = NoFila]
<1>6. w.paso = "guion" /\ w.id = i /\ w.guion = g /\ w.de = hilo[h].de
  BY <1>1, <1>2 DEF HiloConLlamadas
<1>7. hilo' = [hilo EXCEPT ![h] = w]  BY <1>5 DEF Sigue
<1> HIDE DEF w
<1>8. hilo'[h] = w /\ \A k \in Hilos : k # h => hilo'[k] = hilo[k]  BY <1>7 DEF ChatInv, ChatTypeOK
<1>9. mensajes \in Nat  BY DEF ChatInv, ChatTypeOK
<1>10. ASSUME ~solapoChat, fallasChat = 0 PROVE ~repetida' /\ PreguntasEnOrden'
  <2>1. ~repetida /\ PreguntasEnOrden  BY <1>10 DEF RespuestaInv
  <2>2. \A k \in Hilos : k # h => hilo[k].paso = "idle"  BY <1>1, <1>10, SoloUno
  <2>3. \A s \in SesionIds : Pendiente(s)' <=> Pendiente(s)  BY <1>3 DEF Pendiente
  <2>4. \A s \in SesionIds : Pendiente(s) =>
           /\ sesion[s].pend.de <= mensajes /\ sesion[s].pend.de # mensajes
           /\ sesion[s].pend.de \notin contestadas
    BY <1>1, <2>1, <2>2 DEF PreguntasEnOrden, PorLimpiar, EnHilo
  <2>5. /\ hilo[h].fila \in Fila /\ Intacta(h) /\ hilo[h].de = mensajes
        /\ mensajes \notin contestadas
    BY <1>1, <2>1 DEF PreguntasEnOrden, EnHilo
  <2>6. p.tipo # "null" =>
           /\ p.de < mensajes /\ p.de \notin contestadas /\ p.de \in Nat
           /\ \A s \in SesionIds : Pendiente(s) /\ s # i => sesion[s].pend.de # p.de
    BY <1>2, <2>5 DEF Intacta, Fila, Pregunta
  <2>7. ~repetida'  BY <1>5, <2>1, <2>6
  <2>8. contestadas' \subseteq 0 .. mensajes /\ mensajes \notin contestadas'
    BY <2>1, <1>5, <1>9, <2>5, <2>6 DEF PreguntasEnOrden
  <2>9. ASSUME NEW s \in SesionIds, Pendiente(s), sesion[s].pend.de \in contestadas'
        PROVE  \E k \in Hilos : PorLimpiar(k, s)'
    BY <1>5, <2>4, <2>6, <2>9, <1>6, <1>8 DEF PorLimpiar, EnHilo
  <2>10. \A k \in Hilos : EnHilo(k, "idle")' \/ (k = h /\ EnHilo(k, "guion")')
    BY <1>6, <1>8, <2>2 DEF EnHilo
  <2>11. \A k \in Hilos : ~EnHilo(k, "idle")' =>
           hilo'[k].de = mensajes' /\ mensajes' \notin contestadas'
    BY <1>3, <1>6, <1>8, <2>5, <2>8, <2>10
  <2>12. \A s, o \in SesionIds :
           (Pendiente(s) /\ Pendiente(o) /\ sesion[s].pend.de = sesion[o].pend.de => s = o)'
    BY <1>3, <2>1, <2>3 DEF PreguntasEnOrden
  <2>13. \A k \in Hilos : ~EnHilo(k, "guarda")' /\ ~EnHilo(k, "elige")'  BY <2>10 DEF EnHilo
  <2> QED BY <1>3, <2>3, <2>4, <2>7, <2>8, <2>9, <2>11, <2>12, <2>13 DEF PreguntasEnOrden
<1> QED BY <1>3, <1>10 DEF RespuestaInv

\* A call of a guion that leaves the questions that are pending, or the one it asks.
LEMMA RespuestaLlama ==
    ASSUME ChatInv, RespuestaInv, NEW h \in Hilos, EnHilo(h, "guion"), hilo[h].guion # <<>>,
           Avanza(h), NEW i, i = hilo[h].id,
           UNCHANGED <<fallasChat, contestadas, repetida, solapoChat, mensajes>>,
           \A s \in SesionIds : s # i => sesion'[s] = sesion[s],
           \/ sesion' = sesion /\ Head(hilo[h].guion) # "null"
           \/ /\ sesion'[i] # NoFila
              /\ sesion'[i].pend.tipo = "null" \/ sesion'[i].pend.de = hilo[h].de
    PROVE  RespuestaInv'
<1>1. hilo[h] \in HiloConLlamadas /\ hilo[h].paso = "guion" /\ mensajes \in Nat
  BY DEF ChatInv, ChatTypeOK, EnHilo
<1>2. i \in SesionIds /\ sesion[i] \in Fila  BY DEF ChatInv, TocadaHoy
<1>3. /\ hilo'[h].paso = "idle"
         \/ (hilo'[h].paso = "guion" /\ hilo'[h].id = i /\ hilo'[h].de = hilo[h].de)
      /\ \A k \in Hilos : k # h => hilo'[k] = hilo[k]
  <2> DEFINE g == Tail(hilo[h].guion)
             w == [hilo[h] EXCEPT !.guion = g]
  <2>1. w.paso = "guion" /\ w.id = i /\ w.de = hilo[h].de  BY <1>1 DEF HiloConLlamadas
  <2>2. hilo' = [hilo EXCEPT ![h] = IF g = <<>> THEN SinHilo ELSE w]  BY DEF Avanza, Sigue
  <2> HIDE DEF w, g
  <2> QED BY <2>1, <2>2, SinHiloType DEF ChatInv, ChatTypeOK
<1>4. ASSUME ~solapoChat, fallasChat = 0 PROVE ~repetida' /\ PreguntasEnOrden'
  <2>1. ~repetida /\ PreguntasEnOrden  BY <1>4 DEF RespuestaInv
  <2>2. \A k \in Hilos : k # h => hilo[k].paso = "idle"  BY <1>1, <1>4, SoloUno
  <2>3. hilo[h].de = mensajes /\ mensajes \notin contestadas
    BY <1>1, <2>1 DEF PreguntasEnOrden, EnHilo
  <2>4. \A k \in Hilos : EnHilo(k, "idle")' \/
           (k = h /\ EnHilo(k, "guion")' /\ hilo'[k].id = i /\ hilo'[k].de = mensajes)
    BY <1>3, <2>2, <2>3 DEF EnHilo
  <2>5. \A s \in SesionIds : Pendiente(s) =>
           /\ sesion[s].pend.de <= mensajes
           /\ sesion[s].pend.de = mensajes => s = i
           /\ sesion[s].pend.de \in contestadas => s = i /\ Head(hilo[h].guion) = "null"
    BY <1>1, <2>1, <2>2 DEF PreguntasEnOrden, PorLimpiar, EnHilo
  <2>6. \A s \in SesionIds : s # i => (Pendiente(s)' <=> Pendiente(s))  BY DEF Pendiente
  <2>7. Pendiente(i)' => sesion'[i].pend.de = mensajes
                         \/ (sesion' = sesion /\ Pendiente(i) /\ Head(hilo[h].guion) # "null")
    BY <2>3 DEF Pendiente
  <2>8. \A s \in SesionIds : Pendiente(s)' =>
           /\ sesion'[s].pend.de <= mensajes
           /\ sesion'[s].pend.de = mensajes => s = i
           /\ sesion'[s].pend.de \notin contestadas
    <3> SUFFICES ASSUME NEW s \in SesionIds, Pendiente(s)'
                 PROVE  /\ sesion'[s].pend.de <= mensajes
                        /\ sesion'[s].pend.de = mensajes => s = i
                        /\ sesion'[s].pend.de \notin contestadas
      OBVIOUS
    <3>1. CASE s # i  BY <3>1, <2>5, <2>6
    <3>2. CASE s = i  BY <1>1, <3>2, <2>3, <2>5, <2>7
    <3> QED BY <3>1, <3>2
  <2>9. \A s, o \in SesionIds :
           (Pendiente(s) /\ Pendiente(o) /\ sesion[s].pend.de = sesion[o].pend.de => s = o)'
    <3> SUFFICES ASSUME NEW s \in SesionIds, NEW o \in SesionIds, Pendiente(s)', Pendiente(o)',
                        sesion'[s].pend.de = sesion'[o].pend.de, s # o
                 PROVE  FALSE
      OBVIOUS
    <3>1. CASE s # i /\ o # i  BY <3>1, <2>1, <2>6 DEF PreguntasEnOrden
    <3>2. CASE sesion' = sesion  BY <3>2, <2>1 DEF PreguntasEnOrden, Pendiente
    <3>3. CASE (s = i \/ o = i) /\ sesion' # sesion  BY <3>3, <2>7, <2>8
    <3> QED BY <3>1, <3>2, <3>3
  <2>10. \A k \in Hilos : ~EnHilo(k, "guarda")' /\ ~EnHilo(k, "elige")'  BY <2>4 DEF EnHilo
  <2>11. contestadas \subseteq 0 .. mensajes  BY <2>1 DEF PreguntasEnOrden
  <2> QED BY <2>1, <2>3, <2>4, <2>8, <2>9, <2>10, <2>11 DEF PreguntasEnOrden
<1> QED BY <1>4 DEF RespuestaInv

LEMMA RespuestaLlamadas ==
    ASSUME ChatInv, RespuestaInv, NEW h \in Hilos,
           \/ \E r \in Roles : GuardarTurno(h, r)
           \/ \E t \in Tipos \cup {"null"} : GuardarPreguntaPendiente(h, t)
           \/ ActualizarContextoBusqueda(h) \/ Consulta(h)
    PROVE  RespuestaInv'
<1>1. PICK i : i = hilo[h].id  OBVIOUS
<1>2. /\ UNCHANGED <<fallasChat, contestadas, repetida, solapoChat, mensajes>>
      /\ EnHilo(h, "guion") /\ hilo[h].guion # <<>> /\ Avanza(h)
  BY DEF GuardarTurno, GuardarPreguntaPendiente, ActualizarContextoBusqueda, Consulta, Llama,
         Quieto, conversacionHistoria
<1>3. i \in SesionIds /\ sesion[i] \in Fila /\ sesion[i] # NoFila
  BY <1>1, <1>2, FilaNoFila DEF ChatInv, TocadaHoy
<1>4. CASE (\E r \in Roles : GuardarTurno(h, r)) \/ Consulta(h)
  BY <1>4, <1>1, <1>2, RespuestaLlama DEF GuardarTurno, Consulta, Llama, Roles
<1>5. ASSUME NEW f, f.pend.tipo = "null" \/ f.pend.de = hilo[h].de, f \in Fila,
             sesion' = [sesion EXCEPT ![i] = f]
      PROVE  RespuestaInv'
  BY <1>3, <1>5, Escribe1, FilaNoFila, <1>1, <1>2, RespuestaLlama DEF ChatInv
<1>6. ASSUME NEW t \in Tipos \cup {"null"}, GuardarPreguntaPendiente(h, t) PROVE RespuestaInv'
  <2> DEFINE p == IF t = "null" THEN SinPregunta ELSE [tipo |-> t, de |-> hilo[h].de]
             f == [sesion[i] EXCEPT !.pend = p, !.tocada = dia]
  <2>1. p \in Pregunta /\ (p.tipo = "null" \/ p.de = hilo[h].de)
    BY SinPreguntaType DEF ChatInv, ChatTypeOK, HiloConLlamadas, Pregunta, SinPregunta
  <2>2. sesion' = [sesion EXCEPT ![i] = f]  BY <1>1, <1>3, <1>6 DEF GuardarPreguntaPendiente
  <2> HIDE DEF p
  <2>3. f \in Fila /\ f.pend = p  BY <1>3, <2>1 DEF Fila, ChatInv, ChatTypeOK
  <2> HIDE DEF f
  <2> QED BY <1>5, <2>1, <2>2, <2>3
<1>7. ASSUME ActualizarContextoBusqueda(h) PROVE RespuestaInv'
  <2> DEFINE f == [sesion[i] EXCEPT !.pend = SinPregunta, !.ctx = TRUE, !.tocada = dia]
  <2>1. sesion' = [sesion EXCEPT ![i] = f]  BY <1>1, <1>3, <1>7 DEF ActualizarContextoBusqueda
  <2>2. f \in Fila /\ f.pend = SinPregunta  BY <1>3, SinPreguntaType DEF Fila, ChatInv, ChatTypeOK
  <2>3. SinPregunta.tipo = "null"  BY DEF SinPregunta
  <2> HIDE DEF f
  <2> QED BY <1>5, <2>1, <2>2, <2>3
<1> QED BY <1>4, <1>6, <1>7

\* The clean-up and the user take questions away, and never one that is being cleared.
LEMMA RespuestaMenos ==
    ASSUME ChatInv, RespuestaInv, UNCHANGED <<hilo, mensajes, contestadas, repetida>>,
           fallasChat' = 0 => fallasChat = 0, ~solapoChat' => ~solapoChat,
           \A s \in SesionIds : sesion'[s] = NoFila \/ sesion'[s] = sesion[s] \/
              (sesion[s] # NoFila /\ sesion'[s].pend = sesion[s].pend)
    PROVE  RespuestaInv'
<1> SUFFICES ASSUME ~solapoChat', fallasChat' = 0 PROVE ~repetida' /\ PreguntasEnOrden'
  BY DEF RespuestaInv
<1>1. ~repetida /\ PreguntasEnOrden  BY DEF RespuestaInv
<1>2. \A s \in SesionIds : Pendiente(s)' => Pendiente(s) /\ sesion'[s].pend = sesion[s].pend
  BY DEF Pendiente
<1>3. \A h \in Hilos, s \in SesionIds : PorLimpiar(h, s)' <=> PorLimpiar(h, s)
  BY DEF PorLimpiar, EnHilo
<1>4. \A h \in Hilos : Intacta(h) => Intacta(h)'  BY <1>2 DEF Intacta
<1> QED BY <1>1, <1>2, <1>3, <1>4 DEF PreguntasEnOrden, EnHilo

LEMMA RespuestaStep ==
    ChatInv /\ RespuestaInv /\ [ConversacionNext]_conversacionVars => RespuestaInv'
<1> SUFFICES ASSUME ChatInv, RespuestaInv, [ConversacionNext]_conversacionVars
             PROVE  RespuestaInv'
  OBVIOUS
<1>1. CASE UNCHANGED conversacionVars  BY <1>1, RespuestaMenos DEF conversacionVars
<1>2. CASE \E h \in Hilos, id \in SesionIds \cup {NoSesionId} : ProcessUserMessage(h, id)
  BY <1>2, RespuestaMensaje
<1>3. ASSUME NEW h \in Hilos,
             \/ LeeSesion(h) \/ LeePorUsuario(h) \/ GuardaSesion(h) \/ CreaSesion(h)
             \/ Elige(h)
      PROVE  RespuestaInv'
  BY <1>3, RespuestaLee, RespuestaGuarda, RespuestaCrea, RespuestaElige
<1>4. ASSUME NEW h \in Hilos, ActualizarContextoBusqueda(h) \/ Consulta(h) PROVE RespuestaInv'
  BY <1>4, RespuestaLlamadas
<1>5. ASSUME NEW h \in Hilos, FallaChat(h) \/ FallaLimpieza(h) PROVE RespuestaInv'
  <2>1. fallasChat' # 0  BY <1>5 DEF FallaChat, FallaLimpieza, ChatInv, ChatTypeOK
  <2> QED BY <2>1 DEF RespuestaInv
<1>6. ASSUME NEW h \in Hilos, LimpiaTurnos(h) PROVE RespuestaInv'
  BY <1>6, RespuestaMenos DEF LimpiaTurnos, conversacionHistoria
<1>7. ASSUME NEW h \in Hilos, LimpiaSesiones(h) PROVE RespuestaInv'
  <2> DEFINE borradas == {s \in SesionIds : Vieja(s, limpieza[h].limite)}
  <2>1. sesion' = [s \in SesionIds |-> IF s \in borradas THEN NoFila ELSE sesion[s]]
    BY <1>7 DEF LimpiaSesiones
  <2> HIDE DEF borradas
  <2>2. \A s \in SesionIds : sesion'[s] = NoFila \/ sesion'[s] = sesion[s]  BY <2>1
  <2>3. UNCHANGED <<hilo, mensajes, contestadas, repetida, fallasChat, solapoChat>>
    BY <1>7 DEF LimpiaSesiones, conversacionHistoria
  <2> QED BY <2>2, <2>3, RespuestaMenos
<1>8. CASE \E h \in Hilos, r \in Roles : GuardarTurno(h, r)  BY <1>8, RespuestaLlamadas
<1>9. CASE \E h \in Hilos, t \in Tipos \cup {"null"} : GuardarPreguntaPendiente(h, t)
  BY <1>9, RespuestaLlamadas
<1>10. ASSUME NEW s \in SesionIds, CerrarSesion(s) PROVE RespuestaInv'
  <2> DEFINE f == [sesion[s] EXCEPT !.activa = FALSE]
  <2>1. sesion[s] \in Fila /\ sesion[s] # NoFila
    BY <1>10, Abiertas, FilaNoFila DEF CerrarSesion, ChatInv
  <2>2. f.pend = sesion[s].pend  BY <2>1 DEF Fila
  <2>3. sesion' = [sesion EXCEPT ![s] = f]  BY <1>10 DEF CerrarSesion
  <2> HIDE DEF f
  <2>4. sesion'[s] = f /\ \A o \in SesionIds : o # s => sesion'[o] = sesion[o]
    BY <2>3 DEF ChatInv, ChatTypeOK
  <2>5. /\ UNCHANGED <<hilo, mensajes, contestadas, repetida, fallasChat>>
        /\ ~solapoChat' => ~solapoChat
    BY <1>10 DEF CerrarSesion
  <2>6. \A o \in SesionIds : sesion'[o] = sesion[o] \/
           (sesion[o] # NoFila /\ sesion'[o].pend = sesion[o].pend)
    BY <2>1, <2>2, <2>4
  <2> QED BY <2>5, <2>6, RespuestaMenos
<1>11. CASE PasaDia  BY <1>11, RespuestaMenos DEF PasaDia, conversacionHistoria
<1> QED BY <1>1, <1>2, <1>3, <1>4, <1>5, <1>6, <1>7, <1>8, <1>9, <1>10, <1>11
        DEF ConversacionNext

LEMMA RespuestaSiempre == ConversacionSpec => []RespuestaInv
BY ChatSiempre, RespuestaInit, RespuestaStep, PTL DEF ConversacionSpec

\* Each message has its two turns and, while none overlapped and none failed, each
\* question is taken as answered once (ContextResolverUseCase reads the entity of the
\* start; the branches that consume it clear the row first).
THEOREM MensajesCumplen == ConversacionSpec => []MensajesEnRegla
<1>1. RespuestaInv => RespuestaUnica  BY DEF RespuestaInv, RespuestaUnica
<1> QED BY <1>1, RespuestaSiempre, CadaMensajeDosTurnos, PTL DEF MensajesEnRegla
--------------------
(* Buzon.  Of a notification in hand, whoever is not in the inbox yet is    *)
(* still to be inserted, and its total is not written; a message about to   *)
(* be inserted is of somebody without one; and what an edit is about to     *)
(* save was read as it is in the table, while nothing overlapped it.        *)
LEMMA BuzonDatos ==
    IsFiniteSet(Destinatarios) /\ MaxEnvios \in Nat /\ MaxEdicionesMensaje \in Nat
    /\ Cardinality(Destinatarios) \in Nat
  BY BuzonAssumption, FS_CardinalityType DEF BuzonAssumption
USE BuzonDatos

Avisando == {"resuelve", "push", "lotes", "total"}
ConAviso(w) ==
    IF w.paso \in Avisando
    THEN /\ w.n \in Envios
         /\ EnTabla(w.n) =>
              /\ notificacion[w.n].total = 0
              /\ w.paso # "resuelve" => \A d \in notificacion[w.n].para :
                     d \in w.faltan \/ bandeja[w.n][d] # "no"
         /\ w.paso = "total" => w.faltan = {}
    ELSE w.n = 0
Avisado ==
    /\ \A r \in Remitentes : ConAviso(remitente[r])
    /\ \A r, o \in Remitentes : remitente[r].n = remitente[o].n => r = o \/ remitente[r].n = 0
    /\ \A n \in Envios : \A d \in Destinatarios : bandeja[n][d] # "no" => EnTabla(n)
    /\ \A n \in Envios : notificacion[n].total > 0 =>
           \A d \in notificacion[n].para : bandeja[n][d] # "no"
ConMensaje(w) ==
    /\ w.paso = "mensajes" => \A d \in w.faltan : mensaje[d] = NoMensaje
    /\ w.paso = "edita" => \A d \in w.faltan :
           mensaje[d] # NoMensaje /\ w.fila.leido = mensaje[d].leido
Correspondencia ==
    /\ \A r \in Remitentes : remitente[r].paso = "edita" => remitente[r].fila \in Mensaje
    /\ \A r, o \in Remitentes : remitente[r].paso = "mensajes" /\ remitente[o].paso = "mensajes"
           => r = o \/ remitente[r].faltan \cap remitente[o].faltan = {}
    /\ ~solapoMensaje =>
           /\ \A r \in Remitentes : ConMensaje(remitente[r])
           /\ \A d \in leyo : mensaje[d].leido
BuzonInv == BuzonTypeOK /\ Avisado /\ Correspondencia

LEMMA NoEsMensaje == NoMensaje \notin Mensaje /\ NoMensaje.leido = FALSE
<1>1. ASSUME NEW m \in Mensaje PROVE m # NoMensaje  BY DEF Mensaje, NoMensaje
<1> QED BY <1>1 DEF NoMensaje
LEMMA NoEsNotificacion == NoNotificacion \notin Notificacion /\ NoNotificacion.total = -1
<1>1. \A t \in 0 .. Cardinality(Destinatarios) : t # -1  OBVIOUS
<1> QED BY <1>1 DEF NoNotificacion, Notificacion
LEMMA SinRemitenteBien ==
    /\ SinRemitente \in Remitente /\ SinRemitente.paso = "idle" /\ SinRemitente.n = 0
    /\ SinRemitente.faltan = {}
  BY DEF SinRemitente, Remitente
LEMMA RemitenteForma ==
    ASSUME BuzonTypeOK, NEW r \in Remitentes
    PROVE  /\ remitente[r] \in Remitente /\ remitente[r].faltan \subseteq Destinatarios
           /\ remitente[r].exito \in 0 .. Cardinality(Destinatarios)
           /\ remitente[r].n \in Envios \cup {0} /\ remitente[r].todos \in BOOLEAN
           /\ remitente[r].fila \in Mensaje \cup {NoMensaje}
  BY DEF BuzonTypeOK, Remitente
LEMMA CeroNoEsEnvio == 0 \notin Envios
  BY DEF Envios

LEMMA BuzonEmpieza == BuzonInit => BuzonInv
<1> SUFFICES ASSUME BuzonInit PROVE BuzonInv  OBVIOUS
<1>1. BuzonTypeOK
  <2>1. /\ notificacion \in [Envios -> Notificacion \cup {NoNotificacion}]
        /\ bandeja \in [Envios -> [Destinatarios -> {"no", "nueva", "leida"}]]
        /\ mensaje \in [Destinatarios -> Mensaje \cup {NoMensaje}]
        /\ remitente \in [Remitentes -> Remitente]
    BY SinRemitenteBien DEF BuzonInit
  <2>2. edicionesMensaje \in 0 .. MaxEdicionesMensaje /\ solapoMensaje \in BOOLEAN
        /\ leyo \subseteq Destinatarios
    <3>1. edicionesMensaje = 0 /\ solapoMensaje = FALSE /\ leyo = {}  BY DEF BuzonInit
    <3>2. edicionesMensaje \in 0 .. MaxEdicionesMensaje  BY <3>1
    <3> QED BY <3>1, <3>2
  <2> QED BY <2>1, <2>2 DEF BuzonTypeOK
<1>2. \A r \in Remitentes : remitente[r].paso = "idle" /\ remitente[r].n = 0
  BY SinRemitenteBien DEF BuzonInit
<1>3. /\ \A n \in Envios : notificacion[n].total = -1
      /\ \A n \in Envios : \A d \in Destinatarios : bandeja[n][d] = "no"
  BY NoEsNotificacion DEF BuzonInit
<1>4. Avisado  BY <1>2, <1>3 DEF Avisado, ConAviso, Avisando
<1>5. Correspondencia  BY <1>2 DEF Correspondencia, ConMensaje, BuzonInit
<1> QED BY <1>1, <1>4, <1>5 DEF BuzonInv

\* Who goes on with another task.
Anda(r, w) == w \in Remitente /\ Sale(r, w)
LEMMA AndaBien ==
    ASSUME BuzonTypeOK, NEW r \in Remitentes, NEW w, Anda(r, w)
    PROVE  /\ remitente' \in [Remitentes -> Remitente]
           /\ \A o \in Remitentes : remitente'[o] = IF o = r THEN w ELSE remitente[o]
  BY DEF Anda, Sale, BuzonTypeOK

\* What is done of a notification leaves the messages as they were, and the reverse.
LEMMA MensajesQuietos ==
    ASSUME BuzonInv, NEW r \in Remitentes, NEW w, Anda(r, w), UNCHANGED buzonMensajes,
           w.paso \notin {"mensajes", "edita"}
    PROVE  Correspondencia'
<1>1. \A o \in Remitentes : remitente'[o] = IF o = r THEN w ELSE remitente[o]
  BY AndaBien DEF BuzonInv
<1>2. mensaje' = mensaje /\ solapoMensaje' = solapoMensaje /\ leyo' = leyo  BY DEF buzonMensajes
<1> QED BY <1>1, <1>2 DEF BuzonInv, Correspondencia, ConMensaje
LEMMA AvisosQuietos ==
    ASSUME BuzonInv, NEW r \in Remitentes, NEW w, Anda(r, w), UNCHANGED buzonAvisos,
           w.paso \notin Avisando, w.n = 0
    PROVE  Avisado'
<1>1. \A o \in Remitentes : remitente'[o] = IF o = r THEN w ELSE remitente[o]
  BY AndaBien DEF BuzonInv
<1>2. notificacion' = notificacion /\ bandeja' = bandeja  BY DEF buzonAvisos
<1>3. \A o \in Remitentes : ConAviso(remitente[o])'
  BY <1>1, <1>2 DEF BuzonInv, Avisado, ConAviso, EnTabla
<1>4. \A q, o \in Remitentes : remitente'[q].n = remitente'[o].n => q = o \/ remitente'[q].n = 0
  BY <1>1 DEF BuzonInv, Avisado
<1> QED BY <1>2, <1>3, <1>4 DEF BuzonInv, Avisado, EnTabla

--------------------
LEMMA EnviarSigue ==
    ASSUME BuzonInv, NEW r \in Remitentes, NEW n \in Envios, NEW todos \in BOOLEAN,
           EnviarNotificacion(r, n, todos)
    PROVE  BuzonInv'
<1>0. /\ BuzonTypeOK /\ remitente[r].paso = "idle" /\ notificacion[n] = NoNotificacion
      /\ \A o \in Remitentes : remitente[o].n # n
      /\ UNCHANGED <<bandeja, buzonMensajes>>
  BY DEF EnviarNotificacion, Hace, BuzonInv
<1>1. PICK f : f = [para |-> {}, total |-> 0]  OBVIOUS
<1>2. f \in Notificacion /\ f.para = {} /\ f.total = 0  BY <1>1 DEF Notificacion
<1>3. /\ notificacion' = [notificacion EXCEPT ![n] = f]
      /\ notificacion \in [Envios -> Notificacion \cup {NoNotificacion}]
  BY <1>0, <1>1 DEF EnviarNotificacion, BuzonTypeOK
<1>4. \A k \in Envios : notificacion'[k] = IF k = n THEN f ELSE notificacion[k]  BY <1>3
<1>5. PICK w : w = [SinRemitente EXCEPT !.paso = "resuelve", !.n = n, !.todos = todos]  OBVIOUS
<1>6. w \in Remitente /\ w.paso = "resuelve" /\ w.n = n
  BY <1>5, SinRemitenteBien DEF SinRemitente, Remitente
<1>7. Anda(r, w)  BY <1>5, <1>6 DEF EnviarNotificacion, Anda
<1>8. \A o \in Remitentes : remitente'[o] = IF o = r THEN w ELSE remitente[o]
  BY <1>0, <1>7, AndaBien
<1>9. bandeja' = bandeja  BY <1>0
<1>10. \A o \in Remitentes : ConAviso(remitente[o])'
  <2> SUFFICES ASSUME NEW o \in Remitentes PROVE ConAviso(remitente[o])'  OBVIOUS
  <2>1. CASE o = r  BY <1>2, <1>4, <1>6, <1>8, <2>1 DEF ConAviso, Avisando
  <2>2. CASE o # r  BY <1>0, <1>4, <1>8, <1>9, <2>2 DEF BuzonInv, Avisado, ConAviso, EnTabla
  <2> QED BY <2>1, <2>2
<1>11. \A q, o \in Remitentes : remitente'[q].n = remitente'[o].n => q = o \/ remitente'[q].n = 0
  BY <1>0, <1>6, <1>8 DEF BuzonInv, Avisado
<1>12. \A k \in Envios : \A d \in Destinatarios : bandeja[k][d] # "no" => EnTabla(k)'
  BY <1>2, <1>4, NoEsNotificacion DEF BuzonInv, Avisado, EnTabla
<1>13. \A k \in Envios : notificacion'[k].total > 0 =>
           \A d \in notificacion'[k].para : bandeja[k][d] # "no"
  BY <1>2, <1>4 DEF BuzonInv, Avisado
<1>14. Avisado'  BY <1>9, <1>10, <1>11, <1>12, <1>13 DEF Avisado
<1>15. Correspondencia'  BY <1>0, <1>6, <1>7, MensajesQuietos
<1>16. notificacion' \in [Envios -> Notificacion \cup {NoNotificacion}]  BY <1>2, <1>3
<1>17. BuzonTypeOK'  BY <1>0, <1>7, <1>16, AndaBien DEF BuzonTypeOK, buzonMensajes
<1> QED BY <1>14, <1>15, <1>17 DEF BuzonInv

\* A step of r about its notification n, which writes f in its row if it is there.
Escrita(n, f) == notificacion' = IF EnTabla(n) THEN [notificacion EXCEPT ![n] = f] ELSE notificacion
LEMMA EscritaBien ==
    ASSUME BuzonTypeOK, NEW n \in Envios, NEW f \in Notificacion, Escrita(n, f)
    PROVE  /\ notificacion' \in [Envios -> Notificacion \cup {NoNotificacion}]
           /\ \A k \in Envios : notificacion'[k] = IF k = n
                  /\ EnTabla(n) THEN f ELSE notificacion[k]
           /\ \A k \in Envios : EnTabla(k)' <=> EnTabla(k)
<1>1. notificacion \in [Envios -> Notificacion \cup {NoNotificacion}]  BY DEF BuzonTypeOK
<1>2. \A k \in Envios : notificacion'[k] = IF k = n /\ EnTabla(n) THEN f ELSE notificacion[k]
  BY <1>1 DEF Escrita
<1>3. notificacion' \in [Envios -> Notificacion \cup {NoNotificacion}]  BY <1>1 DEF Escrita
<1> QED BY <1>2, <1>3, NoEsNotificacion DEF EnTabla
LEMMA AvisoSigue ==
    ASSUME BuzonInv, NEW r \in Remitentes, NEW w, Anda(r, w), NEW n \in Envios,
           remitente[r].n = n, NEW f \in Notificacion, Escrita(n, f), bandeja' = bandeja,
           w.n \in {0, n}, ConAviso(w)',
           EnTabla(n) /\ f.total > 0 => \A d \in f.para : bandeja[n][d] # "no"
    PROVE  Avisado'
<1>1. \A o \in Remitentes : remitente'[o] = IF o = r THEN w ELSE remitente[o]
  BY AndaBien DEF BuzonInv
<1>2. /\ \A k \in Envios : notificacion'[k] = IF k = n /\ EnTabla(n) THEN f ELSE notificacion[k]
      /\ \A k \in Envios : EnTabla(k)' <=> EnTabla(k)
  BY EscritaBien DEF BuzonInv
<1>3. \A o \in Remitentes : ConAviso(remitente[o])'
  <2> SUFFICES ASSUME NEW o \in Remitentes PROVE ConAviso(remitente[o])'  OBVIOUS
  <2>1. CASE o = r  BY <1>1, <2>1 DEF ConAviso
  <2>2. CASE o # r  BY <1>1, <2>2, CeroNoEsEnvio, <1>2 DEF BuzonInv, Avisado, ConAviso, EnTabla
  <2> QED BY <2>1, <2>2
<1>4. \A q, o \in Remitentes : remitente'[q].n = remitente'[o].n => q = o \/ remitente'[q].n = 0
  BY <1>1 DEF BuzonInv, Avisado
<1>5. \A k \in Envios : \A d \in Destinatarios : bandeja[k][d] # "no" => EnTabla(k)'
  BY <1>2 DEF BuzonInv, Avisado
<1>6. \A k \in Envios : notificacion'[k].total > 0 =>
           \A d \in notificacion'[k].para : bandeja[k][d] # "no"
  BY <1>2 DEF BuzonInv, Avisado
<1> QED BY <1>3, <1>4, <1>5, <1>6 DEF Avisado

\* What r has in hand, and the row it is of.
LEMMA AvisoDe ==
    ASSUME BuzonInv, NEW r \in Remitentes, remitente[r].paso \in Avisando
    PROVE  /\ remitente[r].n \in Envios
           /\ EnTabla(remitente[r].n) => /\ notificacion[remitente[r].n] \in Notificacion
                                          /\ notificacion[remitente[r].n].total = 0
  BY DEF BuzonInv, BuzonTypeOK, Avisado, ConAviso, EnTabla

LEMMA ResolverSigue == ASSUME BuzonInv, NEW r \in Remitentes, ResolverUserIds(r) PROVE BuzonInv'
<1>0. BuzonTypeOK /\ remitente[r].paso = "resuelve" /\ UNCHANGED <<bandeja, buzonMensajes>>
  BY DEF ResolverUserIds, Hace, BuzonInv
<1>1. PICK n : n = remitente[r].n  OBVIOUS
<1>2. n \in Envios /\ (EnTabla(n) => notificacion[n] \in Notificacion /\ notificacion[n].total = 0)
  BY <1>0, <1>1, AvisoDe DEF Avisando
<1>3. PICK para \in SUBSET Destinatarios :
        /\ notificacion' = IF EnTabla(n) THEN [notificacion EXCEPT ![n].para = para]
                           ELSE notificacion
        /\ Sale(r, IF para = {} /\ ~remitente[r].todos THEN SinRemitente
                   ELSE [remitente[r] EXCEPT !.paso = "push", !.faltan = para])
  BY <1>1 DEF ResolverUserIds
<1>4. PICK f : f = [para |-> para, total |-> 0]  OBVIOUS
<1>5. f \in Notificacion /\ f.para = para /\ f.total = 0  BY <1>4 DEF Notificacion
<1>6. Escrita(n, f)
  <2>1. EnTabla(n) => [notificacion EXCEPT ![n].para = para] = [notificacion EXCEPT ![n] = f]
    <3>1. ASSUME EnTabla(n) PROVE [notificacion[n] EXCEPT !.para = para] = f
      BY <1>2, <1>4, <3>1 DEF Notificacion
    <3> QED BY <3>1
  <2> QED BY <1>3, <2>1 DEF Escrita
<1>70. PICK v : v = [remitente[r] EXCEPT !.paso = "push", !.faltan = para]  OBVIOUS
<1>7. PICK w : w = IF para = {} /\ ~remitente[r].todos THEN SinRemitente ELSE v  OBVIOUS
<1>8. w \in Remitente /\ (w = SinRemitente \/ (w.paso = "push" /\ w.n = n /\ w.faltan = para))
  <2>1. CASE para = {} /\ ~remitente[r].todos
    <3>1. w = SinRemitente  BY <1>7, <2>1
    <3> QED BY <3>1, SinRemitenteBien
  <2>2. CASE ~(para = {} /\ ~remitente[r].todos)
    BY <1>70, <1>7, <2>2, <1>0, <1>1, RemitenteForma DEF Remitente
  <2> QED BY <2>1, <2>2
<1>9. Anda(r, w) /\ w.paso \in {"idle", "push"} /\ w.n \in {0, n}
  <2>1. Sale(r, w)  BY <1>3, <1>70, <1>7
  <2> QED BY <1>8, <2>1, SinRemitenteBien DEF Anda
<1>10. /\ \A k \in Envios : notificacion'[k] = IF k = n /\ EnTabla(n) THEN f ELSE notificacion[k]
       /\ EnTabla(n)' <=> EnTabla(n)
       /\ notificacion' \in [Envios -> Notificacion \cup {NoNotificacion}]
  BY <1>0, <1>2, <1>5, <1>6, EscritaBien
<1>11. ConAviso(w)'
  <2>1. CASE w = SinRemitente  BY <2>1, SinRemitenteBien DEF ConAviso, Avisando
  <2>2. CASE w.paso = "push" /\ w.n = n /\ w.faltan = para
    BY <1>2, <1>5, <1>10, <2>2 DEF ConAviso, Avisando, EnTabla
  <2> QED BY <1>8, <2>1, <2>2
<1>12. Avisado'  BY <1>0, <1>1, <1>2, <1>5, <1>6, <1>9, <1>11, AvisoSigue
<1>13. Correspondencia'  BY <1>0, <1>9, MensajesQuietos
<1>14. BuzonTypeOK'  BY <1>0, <1>9, <1>10, AndaBien DEF BuzonTypeOK, buzonMensajes
<1> QED BY <1>12, <1>13, <1>14 DEF BuzonInv

LEMMA EnviarPushSigue == ASSUME BuzonInv, NEW r \in Remitentes, EnviarPush(r) PROVE BuzonInv'
<1>0. BuzonTypeOK /\ remitente[r].paso = "push" /\ UNCHANGED <<buzonAvisos, buzonMensajes>>
  BY DEF EnviarPush, Hace, BuzonInv
<1>1. PICK exito \in 0 .. Cardinality(Destinatarios) :
        Sale(r, [remitente[r] EXCEPT !.exito = exito,
                     !.paso = IF QuedanLotes(remitente[r].faltan) THEN "lotes" ELSE "total"])
  BY DEF EnviarPush
<1>2. PICK w : w = [remitente[r] EXCEPT !.exito = exito,
                     !.paso = IF QuedanLotes(remitente[r].faltan) THEN "lotes" ELSE "total"]
  OBVIOUS
<1>3. /\ w \in Remitente /\ w.n = remitente[r].n /\ w.faltan = remitente[r].faltan
      /\ w.paso = IF w.faltan # {} THEN "lotes" ELSE "total"
  BY <1>0, <1>2, RemitenteForma DEF Remitente, QuedanLotes
<1>4. Anda(r, w)  BY <1>1, <1>2, <1>3 DEF Anda
<1>5. \A o \in Remitentes : remitente'[o] = IF o = r THEN w ELSE remitente[o]
  BY <1>0, <1>4, AndaBien
<1>6. notificacion' = notificacion /\ bandeja' = bandeja  BY <1>0 DEF buzonAvisos
<1>7. \A o \in Remitentes : ConAviso(remitente[o])'
  <2> SUFFICES ASSUME NEW o \in Remitentes PROVE ConAviso(remitente[o])'  OBVIOUS
  <2>1. ConAviso(remitente[o])  BY DEF BuzonInv, Avisado
  <2>2. CASE o # r  BY <1>5, <1>6, <2>1, <2>2 DEF ConAviso, EnTabla
  <2>3. CASE o = r  BY <1>0, <1>3, <1>5, <1>6, <2>1, <2>3 DEF ConAviso, EnTabla, Avisando
  <2> QED BY <2>2, <2>3
<1>8. \A q, o \in Remitentes : remitente'[q].n = remitente'[o].n => q = o \/ remitente'[q].n = 0
  BY <1>3, <1>5 DEF BuzonInv, Avisado
<1>9. Avisado'  BY <1>6, <1>7, <1>8 DEF BuzonInv, Avisado, EnTabla
<1>10. Correspondencia'  BY <1>0, <1>3, <1>4, MensajesQuietos
<1>11. BuzonTypeOK'  BY <1>0, <1>4, AndaBien DEF BuzonTypeOK, buzonMensajes, buzonAvisos
<1> QED BY <1>9, <1>10, <1>11 DEF BuzonInv

LEMMA LoteSigue == ASSUME BuzonInv, NEW r \in Remitentes, InsertarLote(r) PROVE BuzonInv'
<1>0. BuzonTypeOK /\ remitente[r].paso = "lotes" /\ UNCHANGED <<notificacion, buzonMensajes>>
  BY DEF InsertarLote, Hace, BuzonInv
<1>1. PICK d \in remitente[r].faltan :
        /\ bandeja' = IF EnTabla(remitente[r].n) THEN [bandeja EXCEPT ![remitente[r].n][d] =
               "nueva"]
                      ELSE bandeja
        /\ Sale(r, [remitente[r] EXCEPT !.faltan = @ \ {d},
                       !.paso = IF QuedanLotes(remitente[r].faltan \ {d}) THEN "lotes" ELSE "total"])
  BY DEF InsertarLote
<1>2. PICK n : n = remitente[r].n  OBVIOUS
<1>3. n \in Envios /\ d \in Destinatarios  BY <1>0, <1>2, AvisoDe, RemitenteForma DEF Avisando
<1>4. PICK w : w = [remitente[r] EXCEPT !.faltan = @ \ {d},
                       !.paso = IF QuedanLotes(remitente[r].faltan \ {d}) THEN "lotes" ELSE "total"]
  OBVIOUS
<1>5. /\ w \in Remitente /\ w.n = n /\ w.faltan = remitente[r].faltan \ {d}
      /\ w.paso = IF w.faltan # {} THEN "lotes" ELSE "total"
  BY <1>0, <1>2, <1>4, RemitenteForma DEF Remitente, QuedanLotes
<1>6. Anda(r, w)  BY <1>1, <1>4, <1>5 DEF Anda
<1>7. \A o \in Remitentes : remitente'[o] = IF o = r THEN w ELSE remitente[o]
  BY <1>0, <1>6, AndaBien
<1>8. notificacion' = notificacion  BY <1>0
<1>9. /\ bandeja' \in [Envios -> [Destinatarios -> {"no", "nueva", "leida"}]]
      /\ \A k \in Envios : \A x \in Destinatarios : bandeja'[k][x] =
            IF EnTabla(n) /\ k = n /\ x = d THEN "nueva" ELSE bandeja[k][x]
  <2>1. bandeja \in [Envios -> [Destinatarios -> {"no", "nueva", "leida"}]]  BY <1>0 DEF BuzonTypeOK
  <2>2. CASE EnTabla(n)  BY <1>1, <1>2, <1>3, <2>1, <2>2
  <2>3. CASE ~EnTabla(n)  BY <1>1, <1>2, <1>3, <2>1, <2>3
  <2> QED BY <2>2, <2>3
<1>10. \A k \in Envios : EnTabla(k) => notificacion[k] \in Notificacion
  BY <1>0 DEF BuzonTypeOK, EnTabla
<1>11. \A f \in Notificacion : f.para \subseteq Destinatarios  BY DEF Notificacion
<1>12. \A o \in Remitentes : ConAviso(remitente[o])'
  <2> SUFFICES ASSUME NEW o \in Remitentes PROVE ConAviso(remitente[o])'  OBVIOUS
  <2>1. ConAviso(remitente[o])  BY DEF BuzonInv, Avisado
  <2>2. CASE o # r  BY <1>7, <1>8, <1>9, <1>10, <1>11, <2>1, <2>2 DEF ConAviso, EnTabla
  <2>3. CASE o = r
    BY <1>0, <1>2, <1>5, <1>7, <1>8, <1>9, <1>10, <1>11, <2>1, <2>3 DEF ConAviso, EnTabla, Avisando
  <2> QED BY <2>2, <2>3
<1>13. \A q, o \in Remitentes : remitente'[q].n = remitente'[o].n => q = o \/ remitente'[q].n = 0
  BY <1>2, <1>5, <1>7 DEF BuzonInv, Avisado
<1>14. \A k \in Envios : \A x \in Destinatarios : bandeja'[k][x] # "no" => EnTabla(k)
  BY <1>9 DEF BuzonInv, Avisado
<1>15. \A k \in Envios : notificacion[k].total > 0 =>
           \A x \in notificacion[k].para : bandeja'[k][x] # "no"
  <2> SUFFICES ASSUME NEW k \in Envios, notificacion[k].total > 0, NEW x \in notificacion[k].para
               PROVE  bandeja'[k][x] # "no"
    OBVIOUS
  <2>1. notificacion[k] \in Notificacion  BY <1>10, NoEsNotificacion DEF EnTabla
  <2> QED BY <1>9, <1>11, <2>1 DEF BuzonInv, Avisado
<1>16. Avisado'  BY <1>8, <1>12, <1>13, <1>14, <1>15 DEF Avisado, EnTabla
<1>17. Correspondencia'  BY <1>0, <1>5, <1>6, MensajesQuietos
<1>18. BuzonTypeOK'  BY <1>0, <1>6, <1>9, AndaBien DEF BuzonTypeOK, buzonMensajes
<1> QED BY <1>16, <1>17, <1>18 DEF BuzonInv

LEMMA TotalSigue == ASSUME BuzonInv, NEW r \in Remitentes, ActualizarTotal(r) PROVE BuzonInv'
<1>0. /\ BuzonTypeOK /\ remitente[r].paso = "total" /\ UNCHANGED <<bandeja, buzonMensajes>>
      /\ Anda(r, SinRemitente)
  BY SinRemitenteBien DEF ActualizarTotal, Hace, BuzonInv, Anda
<1>1. PICK n, exito : n = remitente[r].n /\ exito = remitente[r].exito  OBVIOUS
<1>2. /\ n \in Envios /\ exito \in 0 .. Cardinality(Destinatarios)
      /\ (EnTabla(n) => notificacion[n] \in Notificacion)
  BY <1>0, <1>1, AvisoDe, RemitenteForma DEF Avisando
<1>3. EnTabla(n) => \A d \in notificacion[n].para : bandeja[n][d] # "no"
  BY <1>0, <1>1 DEF BuzonInv, Avisado, ConAviso, Avisando
<1>4. PICK f : f = [para |-> IF EnTabla(n) THEN notificacion[n].para ELSE {}, total |-> exito]
  OBVIOUS
<1>5. f \in Notificacion /\ (EnTabla(n) => f.para = notificacion[n].para)
  BY <1>2, <1>4 DEF Notificacion
<1>6. Escrita(n, f)
  <2>1. EnTabla(n) => [notificacion EXCEPT ![n].total = exito] = [notificacion EXCEPT ![n] = f]
    <3>1. ASSUME EnTabla(n) PROVE [notificacion[n] EXCEPT !.total = exito] = f
      BY <1>2, <1>4, <3>1 DEF Notificacion
    <3> QED BY <3>1
  <2> QED BY <1>1, <2>1 DEF Escrita, ActualizarTotal
<1>7. ConAviso(SinRemitente)'  BY SinRemitenteBien DEF ConAviso, Avisando
<1>8. Avisado'  BY <1>0, <1>1, <1>2, <1>3, <1>5, <1>6, <1>7, SinRemitenteBien, AvisoSigue
<1>9. Correspondencia'  BY <1>0, SinRemitenteBien, MensajesQuietos
<1>10. notificacion' \in [Envios -> Notificacion \cup {NoNotificacion}]
  BY <1>0, <1>2, <1>5, <1>6, EscritaBien
<1>11. BuzonTypeOK'  BY <1>0, <1>10, AndaBien DEF BuzonTypeOK, buzonMensajes
<1> QED BY <1>8, <1>9, <1>11 DEF BuzonInv

--------------------
\* Steps of the notifications that are of no call.
LEMMA BandejaSigue ==
    ASSUME BuzonInv, UNCHANGED <<remitente, buzonMensajes>>,
           notificacion' \in [Envios -> Notificacion \cup {NoNotificacion}],
           bandeja' \in [Envios -> [Destinatarios -> {"no", "nueva", "leida"}]],
           \A n \in Envios : \A d \in Destinatarios : bandeja'[n][d] # "no" <=>
               bandeja[n][d] # "no",
           \A n \in Envios : \/ notificacion'[n] = notificacion[n]
                             \/ /\ notificacion'[n] = NoNotificacion
                                /\ \A d \in Destinatarios : bandeja[n][d] = "no"
    PROVE  BuzonInv'
<1>1. BuzonTypeOK'  BY DEF BuzonInv, BuzonTypeOK, buzonMensajes
<1>2. \A n \in Envios : EnTabla(n)' => notificacion'[n] = notificacion[n] /\ EnTabla(n)
                             /\ notificacion[n].para \subseteq Destinatarios
  BY DEF EnTabla, BuzonInv, BuzonTypeOK, Notificacion
<1>3. \A r \in Remitentes : ConAviso(remitente[r])'  BY <1>2 DEF BuzonInv, Avisado, ConAviso
<1>4. \A n \in Envios : \A d \in Destinatarios : bandeja'[n][d] # "no" => EnTabla(n)'
  BY DEF BuzonInv, Avisado, EnTabla
<1>5. \A n \in Envios : notificacion'[n].total > 0 =>
           \A d \in notificacion'[n].para : bandeja'[n][d] # "no"
  <2> SUFFICES ASSUME NEW n \in Envios, notificacion'[n].total > 0
               PROVE  \A d \in notificacion'[n].para : bandeja'[n][d] # "no"
    OBVIOUS
  <2>1. EnTabla(n)'  BY NoEsNotificacion DEF EnTabla
  <2> QED BY <1>2, <2>1 DEF BuzonInv, Avisado
<1>6. Avisado'  BY <1>3, <1>4, <1>5 DEF BuzonInv, Avisado
<1>7. Correspondencia'  BY DEF BuzonInv, Correspondencia, ConMensaje, buzonMensajes
<1> QED BY <1>1, <1>6, <1>7 DEF BuzonInv
LEMMA EliminarSigue == ASSUME BuzonInv, NEW n \in Envios, EliminarNotificacion(n) PROVE BuzonInv'
<1>1. /\ notificacion' = [notificacion EXCEPT ![n] = NoNotificacion]
      /\ UNCHANGED <<bandeja, remitente, buzonMensajes>>
      /\ \A d \in Destinatarios : bandeja[n][d] = "no"
  BY DEF EliminarNotificacion
<1>2. /\ notificacion \in [Envios -> Notificacion \cup {NoNotificacion}]
      /\ bandeja \in [Envios -> [Destinatarios -> {"no", "nueva", "leida"}]]
  BY DEF BuzonInv, BuzonTypeOK
<1>3. notificacion' \in [Envios -> Notificacion \cup {NoNotificacion}]  BY <1>1, <1>2
<1>4. \A k \in Envios : \/ notificacion'[k] = notificacion[k]
                        \/ k = n /\ notificacion'[k] = NoNotificacion
  BY <1>1, <1>2
<1> QED BY <1>1, <1>2, <1>3, <1>4, BandejaSigue
LEMMA MarcarLeidaSigue ==
    ASSUME BuzonInv, NEW n \in Envios, NEW d \in Destinatarios, MarcarLeida(n, d) PROVE BuzonInv'
<1>1. /\ bandeja[n][d] = "nueva" /\ bandeja' = [bandeja EXCEPT ![n][d] = "leida"]
      /\ UNCHANGED <<notificacion, remitente, buzonMensajes>>
  BY DEF MarcarLeida
<1>2. /\ notificacion \in [Envios -> Notificacion \cup {NoNotificacion}]
      /\ bandeja \in [Envios -> [Destinatarios -> {"no", "nueva", "leida"}]]
  BY DEF BuzonInv, BuzonTypeOK
<1>3. /\ bandeja' \in [Envios -> [Destinatarios -> {"no", "nueva", "leida"}]]
      /\ \A k \in Envios : \A x \in Destinatarios :
            bandeja'[k][x] = IF k = n /\ x = d THEN "leida" ELSE bandeja[k][x]
  BY <1>1, <1>2
<1>4. \A k \in Envios : \A x \in Destinatarios : bandeja'[k][x] # "no" <=> bandeja[k][x] # "no"
  BY <1>1, <1>3
<1> QED BY <1>1, <1>2, <1>3, <1>4, BandejaSigue
LEMMA MarcarTodasSigue ==
    ASSUME BuzonInv, NEW d \in Destinatarios, MarcarTodasLeidas(d) PROVE BuzonInv'
<1>1. /\ bandeja' = [n \in Envios |-> [bandeja[n] EXCEPT ![d] = IF @ = "nueva" THEN "leida" ELSE @]]
      /\ UNCHANGED <<notificacion, remitente, buzonMensajes>>
  BY DEF MarcarTodasLeidas
<1>2. /\ notificacion \in [Envios -> Notificacion \cup {NoNotificacion}]
      /\ bandeja \in [Envios -> [Destinatarios -> {"no", "nueva", "leida"}]]
  BY DEF BuzonInv, BuzonTypeOK
<1>3. ASSUME NEW n \in Envios
      PROVE  /\ bandeja'[n] \in [Destinatarios -> {"no", "nueva", "leida"}]
             /\ \A x \in Destinatarios : bandeja'[n][x] # "no" <=> bandeja[n][x] # "no"
  <2>1. PICK b : b = bandeja[n]  OBVIOUS
  <2>2. b \in [Destinatarios -> {"no", "nueva", "leida"}]  BY <1>2, <2>1
  <2>3. bandeja'[n] = [b EXCEPT ![d] = IF b[d] = "nueva" THEN "leida" ELSE b[d]]  BY <1>1, <2>1
  <2>4. bandeja'[n] \in [Destinatarios -> {"no", "nueva", "leida"}]  BY <2>2, <2>3
  <2>5. \A x \in Destinatarios : bandeja'[n][x] # "no" <=> b[x] # "no"  BY <2>2, <2>3
  <2> QED BY <2>1, <2>4, <2>5
<1>4. bandeja' \in [Envios -> [Destinatarios -> {"no", "nueva", "leida"}]]  BY <1>1, <1>3
<1> QED BY <1>1, <1>2, <1>3, <1>4, BandejaSigue

--------------------
LEMMA EnviarMensajeSigue ==
    ASSUME BuzonInv, NEW r \in Remitentes, NEW para \in SUBSET Destinatarios, EnviarMensaje(r, para)
    PROVE  BuzonInv'
<1>0. /\ BuzonTypeOK /\ remitente[r].paso = "idle" /\ edicionesMensaje' \in 0 .. MaxEdicionesMensaje
      /\ \A d \in para : mensaje[d] = NoMensaje
      /\ \A o \in Remitentes : remitente[o].faltan \cap para = {}
      /\ UNCHANGED <<buzonAvisos, mensaje, solapoMensaje, leyo>>
  BY DEF EnviarMensaje, TocaMensaje, Hace, BuzonInv, BuzonTypeOK
<1>1. PICK w : w = [SinRemitente EXCEPT !.paso = "mensajes", !.faltan = para]  OBVIOUS
<1>2. w \in Remitente /\ w.paso = "mensajes" /\ w.n = 0 /\ w.faltan = para
  BY <1>1, SinRemitenteBien DEF SinRemitente, Remitente
<1>3. Anda(r, w)  BY <1>1, <1>2 DEF EnviarMensaje, Anda
<1>4. \A o \in Remitentes : remitente'[o] = IF o = r THEN w ELSE remitente[o]
  BY <1>0, <1>3, AndaBien
<1>5. Avisado'  BY <1>0, <1>2, <1>3, AvisosQuietos DEF Avisando
<1>6. Correspondencia'  BY <1>0, <1>2, <1>4 DEF BuzonInv, Correspondencia, ConMensaje
<1>7. BuzonTypeOK'  BY <1>0, <1>3, AndaBien DEF BuzonTypeOK, buzonAvisos
<1> QED BY <1>5, <1>6, <1>7 DEF BuzonInv

LEMMA InsertaMensajeSigue == ASSUME BuzonInv, NEW r \in Remitentes, InsertaMensaje(r)
                             PROVE BuzonInv'
<1>0. /\ BuzonTypeOK /\ remitente[r].paso = "mensajes"
      /\ UNCHANGED <<buzonAvisos, edicionesMensaje, solapoMensaje>>
  BY DEF InsertaMensaje, Hace, BuzonInv
<1>1. PICK d \in remitente[r].faltan :
        /\ mensaje' = [mensaje EXCEPT ![d] = [leido |-> FALSE, editado |-> FALSE]]
        /\ leyo' = leyo \ {d}
        /\ Sale(r, IF remitente[r].faltan = {d} THEN SinRemitente
                   ELSE [remitente[r] EXCEPT !.faltan = @ \ {d}])
  BY DEF InsertaMensaje
<1>2. PICK m : m = [leido |-> FALSE, editado |-> FALSE]  OBVIOUS
<1>3. m \in Mensaje /\ d \in Destinatarios
          /\ mensaje \in [Destinatarios -> Mensaje \cup {NoMensaje}]
  BY <1>0, <1>2, RemitenteForma DEF Mensaje, BuzonTypeOK
<1>4. /\ mensaje' \in [Destinatarios -> Mensaje \cup {NoMensaje}]
      /\ \A x \in Destinatarios : mensaje'[x] = IF x = d THEN m ELSE mensaje[x]
  BY <1>1, <1>2, <1>3
<1>5. PICK w : w = IF remitente[r].faltan = {d} THEN SinRemitente
                   ELSE [remitente[r] EXCEPT !.faltan = @ \ {d}]
  OBVIOUS
<1>6. remitente[r].n = 0  BY <1>0 DEF BuzonInv, Avisado, ConAviso, Avisando
<1>7. w \in Remitente /\ w.n = 0 /\ w.faltan = remitente[r].faltan \ {d}
          /\ w.paso \in {"idle", "mensajes"}
  <2>1. CASE remitente[r].faltan = {d}  BY <1>5, <2>1, SinRemitenteBien
  <2>2. CASE remitente[r].faltan # {d}  BY <1>5, <2>2, <1>0, <1>6, RemitenteForma DEF Remitente
  <2> QED BY <2>1, <2>2
<1>8. Anda(r, w)  BY <1>1, <1>5, <1>7 DEF Anda
<1>9. \A o \in Remitentes : remitente'[o] = IF o = r THEN w ELSE remitente[o]
  BY <1>0, <1>8, AndaBien
<1>10. Avisado'  BY <1>0, <1>7, <1>8, AvisosQuietos DEF Avisando
<1>11. \A q, o \in Remitentes : remitente'[q].paso = "mensajes" /\ remitente'[o].paso = "mensajes"
           => q = o \/ remitente'[q].faltan \cap remitente'[o].faltan = {}
  BY <1>0, <1>7, <1>9 DEF BuzonInv, Correspondencia
<1>12. \A o \in Remitentes : remitente'[o].paso = "edita" => remitente'[o].fila \in Mensaje
  BY <1>7, <1>9 DEF BuzonInv, Correspondencia
<1>13. ASSUME ~solapoMensaje PROVE \A o \in Remitentes : ConMensaje(remitente[o])'
  <2> SUFFICES ASSUME NEW o \in Remitentes PROVE ConMensaje(remitente[o])'  OBVIOUS
  <2>0. remitente[o].faltan \subseteq Destinatarios /\ ConMensaje(remitente[o])
    BY <1>0, <1>13, RemitenteForma DEF BuzonInv, Correspondencia
  <2>1. mensaje[d] = NoMensaje  BY <1>0, <1>13 DEF BuzonInv, Correspondencia, ConMensaje
  <2>2. CASE o = r  BY <1>4, <1>7, <1>9, <2>0, <2>2, <1>0 DEF ConMensaje
  <2>3. CASE o # r /\ remitente[o].paso = "mensajes"
    BY <1>0, <2>3, <1>4, <1>9, <2>0 DEF BuzonInv, Correspondencia, ConMensaje
  <2>4. CASE o # r /\ remitente[o].paso # "mensajes"  BY <1>4, <1>9, <2>0, <2>1, <2>4 DEF ConMensaje
  <2> QED BY <2>2, <2>3, <2>4
<1>14. ~solapoMensaje => \A x \in leyo' : mensaje'[x].leido
  <2>1. leyo \subseteq Destinatarios  BY <1>0 DEF BuzonTypeOK
  <2> QED BY <1>1, <1>4, <2>1 DEF BuzonInv, Correspondencia
<1>15. Correspondencia'  BY <1>0, <1>11, <1>12, <1>13, <1>14 DEF Correspondencia
<1>16. leyo' \subseteq Destinatarios  BY <1>0, <1>1 DEF BuzonTypeOK
<1>17. BuzonTypeOK'  BY <1>0, <1>4, <1>8, <1>16, AndaBien DEF BuzonTypeOK, buzonAvisos
<1> QED BY <1>10, <1>15, <1>17 DEF BuzonInv

\* A row of a message that is there is rewritten, or goes; unless an edit of it is at work
\* nothing changes of what is about to be saved.
LEMMA MensajeEn ==
    ASSUME BuzonTypeOK, NEW d \in Destinatarios, mensaje[d] # NoMensaje
    PROVE  /\ mensaje[d] \in Mensaje /\ mensaje[d].leido \in BOOLEAN
           /\ mensaje \in [Destinatarios -> Mensaje \cup {NoMensaje}]
  BY DEF BuzonTypeOK, Mensaje
LEMMA EditarSigue ==
    ASSUME BuzonInv, NEW r \in Remitentes, NEW d \in Destinatarios, EditarMensaje(r, d)
    PROVE  BuzonInv'
<1>0. /\ BuzonTypeOK /\ remitente[r].paso = "idle" /\ edicionesMensaje' \in 0 .. MaxEdicionesMensaje
      /\ mensaje[d] # NoMensaje /\ mensaje[d] \in Mensaje
      /\ solapoMensaje' = (solapoMensaje \/ Editando(d))
      /\ UNCHANGED <<buzonAvisos, mensaje, leyo>>
  BY MensajeEn DEF EditarMensaje, TocaMensaje, Hace, BuzonInv, BuzonTypeOK
<1>1. PICK m : m = [mensaje[d] EXCEPT !.editado = TRUE]  OBVIOUS
<1>2. m \in Mensaje /\ m.leido = mensaje[d].leido  BY <1>0, <1>1 DEF Mensaje
<1>3. PICK w : w = [SinRemitente EXCEPT !.paso = "edita", !.faltan = {d}, !.fila = m]  OBVIOUS
<1>4. w \in Remitente /\ w.paso = "edita" /\ w.n = 0 /\ w.faltan = {d} /\ w.fila = m
  BY <1>2, <1>3, SinRemitenteBien DEF SinRemitente, Remitente
<1>5. Anda(r, w)  BY <1>1, <1>3, <1>4 DEF EditarMensaje, Anda
<1>6. \A o \in Remitentes : remitente'[o] = IF o = r THEN w ELSE remitente[o]
  BY <1>0, <1>5, AndaBien
<1>7. Avisado'  BY <1>0, <1>4, <1>5, AvisosQuietos DEF Avisando
<1>8. solapoMensaje' \in BOOLEAN /\ (~solapoMensaje' => ~solapoMensaje)
  BY <1>0 DEF BuzonTypeOK, Editando
<1>9. Correspondencia'  BY <1>0, <1>2, <1>4, <1>6, <1>8 DEF BuzonInv, Correspondencia, ConMensaje
<1>10. BuzonTypeOK'  BY <1>0, <1>5, <1>8, AndaBien DEF BuzonTypeOK, buzonAvisos
<1> QED BY <1>7, <1>9, <1>10 DEF BuzonInv

LEMMA GuardaMensajeSigue == ASSUME BuzonInv, NEW r \in Remitentes, GuardaMensaje(r) PROVE BuzonInv'
<1>0. /\ BuzonTypeOK /\ remitente[r].paso = "edita" /\ remitente[r].fila \in Mensaje
      /\ UNCHANGED <<buzonAvisos, edicionesMensaje, solapoMensaje, leyo>> /\ Anda(r, SinRemitente)
  BY SinRemitenteBien DEF GuardaMensaje, Hace, BuzonInv, Correspondencia, Anda
<1>1. PICK d \in remitente[r].faltan : mensaje' = [mensaje EXCEPT ![d] = remitente[r].fila]
  BY DEF GuardaMensaje
<1>2. PICK m : m = remitente[r].fila  OBVIOUS
<1>3. d \in Destinatarios /\ mensaje \in [Destinatarios -> Mensaje \cup {NoMensaje}]
          /\ m \in Mensaje
      /\ leyo \subseteq Destinatarios /\ m # NoMensaje
  BY <1>0, <1>2, RemitenteForma, NoEsMensaje DEF BuzonTypeOK
<1>4. /\ mensaje' \in [Destinatarios -> Mensaje \cup {NoMensaje}]
      /\ \A x \in Destinatarios : mensaje'[x] = IF x = d THEN m ELSE mensaje[x]
  BY <1>1, <1>2, <1>3
<1>5. \A o \in Remitentes : remitente'[o] = IF o = r THEN SinRemitente ELSE remitente[o]
  BY <1>0, AndaBien
<1>6. Avisado'  BY <1>0, SinRemitenteBien, AvisosQuietos DEF Avisando
<1>7. ASSUME ~solapoMensaje PROVE mensaje[d] # NoMensaje /\ mensaje[d].leido = m.leido
  BY <1>0, <1>2, <1>7 DEF BuzonInv, Correspondencia, ConMensaje
<1>8. ASSUME ~solapoMensaje, NEW o \in Remitentes PROVE ConMensaje(remitente[o])'
  <2>1. remitente[o].faltan \subseteq Destinatarios /\ ConMensaje(remitente[o])
    BY <1>0, <1>8, RemitenteForma DEF BuzonInv, Correspondencia
  <2>2. CASE o = r  BY <1>5, <2>2, SinRemitenteBien DEF ConMensaje
  <2>3. CASE o # r  BY <1>3, <1>4, <1>5, <1>7, <1>8, <2>1, <2>3 DEF ConMensaje
  <2> QED BY <2>2, <2>3
<1>9. ~solapoMensaje => \A x \in leyo : mensaje'[x].leido
  BY <1>3, <1>4, <1>7 DEF BuzonInv, Correspondencia
<1>10. Correspondencia'  BY <1>5, SinRemitenteBien, <1>0, <1>8, <1>9 DEF BuzonInv, Correspondencia
<1>11. BuzonTypeOK'  BY <1>0, <1>4, AndaBien DEF BuzonTypeOK, buzonAvisos
<1> QED BY <1>6, <1>10, <1>11 DEF BuzonInv

LEMMA MensajeCambia ==
    ASSUME BuzonInv, NEW d \in Destinatarios, mensaje[d] # NoMensaje,
           NEW m \in Mensaje \cup {NoMensaje}, mensaje' = [mensaje EXCEPT ![d] = m],
           solapoMensaje' = (solapoMensaje \/ Editando(d)), UNCHANGED <<buzonAvisos, remitente>>,
           edicionesMensaje' \in 0 .. MaxEdicionesMensaje,
           leyo' = (IF m.leido THEN leyo \cup {d} ELSE leyo \ {d})
    PROVE  BuzonInv'
<1>0. BuzonTypeOK /\ mensaje \in [Destinatarios -> Mensaje \cup {NoMensaje}]
      /\ leyo \subseteq Destinatarios
  BY DEF BuzonInv, BuzonTypeOK
<1>1. /\ mensaje' \in [Destinatarios -> Mensaje \cup {NoMensaje}]
      /\ \A x \in Destinatarios : mensaje'[x] = IF x = d THEN m ELSE mensaje[x]
  BY <1>0
<1>2. solapoMensaje' \in BOOLEAN /\ (~solapoMensaje' => ~solapoMensaje /\ ~Editando(d))
  BY <1>0 DEF BuzonTypeOK, Editando
<1>3. leyo' \subseteq Destinatarios  BY <1>0
<1>4. BuzonTypeOK'  BY <1>0, <1>1, <1>2, <1>3 DEF BuzonTypeOK, buzonAvisos
<1>5. Avisado'  BY DEF BuzonInv, Avisado, ConAviso, EnTabla, buzonAvisos
<1>6. ASSUME ~solapoMensaje', NEW o \in Remitentes PROVE ConMensaje(remitente[o])'
  BY <1>0, <1>2, <1>6, RemitenteForma, <1>1 DEF BuzonInv, Correspondencia, ConMensaje, Editando,
     Hace
<1>7. ~solapoMensaje' => \A x \in leyo' : mensaje'[x].leido
  <2> SUFFICES ASSUME ~solapoMensaje', NEW x \in leyo' PROVE mensaje'[x].leido  OBVIOUS
  <2>1. CASE x = d  BY <1>1, <2>1
  <2>2. CASE x # d  BY <1>0, <1>1, <1>2, <2>2 DEF BuzonInv, Correspondencia
  <2> QED BY <2>1, <2>2
<1>8. Correspondencia'  BY <1>6, <1>7 DEF BuzonInv, Correspondencia
<1> QED BY <1>4, <1>5, <1>8 DEF BuzonInv
LEMMA EliminarMensajeSigue ==
    ASSUME BuzonInv, NEW d \in Destinatarios, EliminarMensaje(d) PROVE BuzonInv'
<1>1. /\ mensaje[d] # NoMensaje /\ mensaje' = [mensaje EXCEPT ![d] = NoMensaje]
      /\ solapoMensaje' = (solapoMensaje \/ Editando(d)) /\ UNCHANGED <<buzonAvisos, remitente>>
      /\ edicionesMensaje' \in 0 .. MaxEdicionesMensaje
      /\ leyo' = (IF NoMensaje.leido THEN leyo \cup {d} ELSE leyo \ {d})
  BY NoEsMensaje DEF EliminarMensaje, TocaMensaje, BuzonInv, BuzonTypeOK
<1> QED BY <1>1, MensajeCambia
LEMMA MarkAsReadSigue ==
    ASSUME BuzonInv, NEW d \in Destinatarios, MarkAsRead(d) PROVE BuzonInv'
<1>0. mensaje[d] # NoMensaje /\ mensaje[d] \in Mensaje /\ BuzonTypeOK
  BY MensajeEn DEF MarkAsRead, BuzonInv
<1>1. PICK m : m = [mensaje[d] EXCEPT !.leido = TRUE]  OBVIOUS
<1>2. m \in Mensaje \cup {NoMensaje} /\ m.leido = TRUE  BY <1>0, <1>1 DEF Mensaje
<1>3. mensaje' = [mensaje EXCEPT ![d] = m]  BY <1>1 DEF MarkAsRead
<1>4. /\ solapoMensaje' = (solapoMensaje \/ Editando(d)) /\ UNCHANGED <<buzonAvisos, remitente>>
      /\ edicionesMensaje' \in 0 .. MaxEdicionesMensaje
      /\ leyo' = (IF m.leido THEN leyo \cup {d} ELSE leyo \ {d})
  BY <1>0, <1>2 DEF MarkAsRead, BuzonTypeOK
<1> QED BY <1>0, <1>2, <1>3, <1>4, MensajeCambia

LEMMA FallaBuzonSigue == ASSUME BuzonInv, NEW r \in Remitentes, FallaBuzon(r) PROVE BuzonInv'
<1>0. BuzonTypeOK /\ UNCHANGED <<buzonAvisos, buzonMensajes>> /\ Anda(r, SinRemitente)
  BY SinRemitenteBien DEF FallaBuzon, BuzonInv, Anda
<1>1. Avisado' /\ Correspondencia'
  BY <1>0, SinRemitenteBien, AvisosQuietos, MensajesQuietos DEF Avisando
<1>2. BuzonTypeOK'  BY <1>0, AndaBien DEF BuzonTypeOK, buzonAvisos, buzonMensajes
<1> QED BY <1>1, <1>2 DEF BuzonInv

LEMMA BuzonPaso == BuzonInv /\ [BuzonNext]_buzonVars => BuzonInv'
<1> SUFFICES ASSUME BuzonInv, [BuzonNext]_buzonVars PROVE BuzonInv'  OBVIOUS
<1>1. CASE UNCHANGED buzonVars
  BY <1>1 DEF buzonVars, BuzonInv, BuzonTypeOK, Avisado, ConAviso, EnTabla, Correspondencia,
       ConMensaje
<1>2. ASSUME NEW r \in Remitentes, NEW n \in Envios, NEW todos \in BOOLEAN,
             EnviarNotificacion(r, n, todos)
      PROVE  BuzonInv'
  BY <1>2, EnviarSigue
<1>3. ASSUME NEW r \in Remitentes,
             \/ ResolverUserIds(r) \/ EnviarPush(r) \/ InsertarLote(r) \/ ActualizarTotal(r)
             \/ InsertaMensaje(r) \/ GuardaMensaje(r) \/ FallaBuzon(r)
      PROVE  BuzonInv'
  BY <1>3, ResolverSigue, EnviarPushSigue, LoteSigue, TotalSigue, InsertaMensajeSigue,
     GuardaMensajeSigue, FallaBuzonSigue
<1>4. ASSUME NEW r \in Remitentes, NEW para \in SUBSET Destinatarios, EnviarMensaje(r, para)
      PROVE  BuzonInv'
  BY <1>4, EnviarMensajeSigue
<1>5. ASSUME NEW r \in Remitentes, NEW d \in Destinatarios, EditarMensaje(r, d) PROVE BuzonInv'
  BY <1>5, EditarSigue
<1>6. ASSUME NEW n \in Envios, EliminarNotificacion(n) \/ \E d \in Destinatarios : MarcarLeida(n, d)
      PROVE  BuzonInv'
  BY <1>6, EliminarSigue, MarcarLeidaSigue
<1>7. ASSUME NEW d \in Destinatarios, MarcarTodasLeidas(d) \/ EliminarMensaje(d) \/ MarkAsRead(d)
      PROVE  BuzonInv'
  BY <1>7, MarcarTodasSigue, EliminarMensajeSigue, MarkAsReadSigue
<1> QED BY <1>1, <1>2, <1>3, <1>4, <1>5, <1>6, <1>7 DEF BuzonNext

--------------------
(* What is read of the inbox and of the panel counts the rows there are.    *)
Etiquetada(t, S) == {<<t, x>> : x \in S}
LEMMA EtiquetadaCuenta ==
    ASSUME NEW t, NEW S, IsFiniteSet(S)
    PROVE  IsFiniteSet(Etiquetada(t, S)) /\ Cardinality(Etiquetada(t, S)) = Cardinality(S)
<1>1. PICK f : f = [x \in S |-> <<t, x>>]  OBVIOUS
<1>2. f \in Bijection(S, Etiquetada(t, S))
  BY <1>1 DEF Bijection, Injection, Surjection, IsInjective, Etiquetada
<1> QED BY <1>2, FS_Bijection DEF ExistsBijection

LEMMA InboxCuadra ==
    ASSUME BuzonInv, NEW d \in Destinatarios
    PROVE  /\ Cardinality(GetInbox(d, FALSE)) =
                Cardinality(GetAll(d)) + Cardinality({n \in Envios : bandeja[n][d] # "no"})
           /\ GetUnreadCount(d) = Cardinality({r \in GetInbox(d, TRUE) : r[1] = "notification"})
<1>1. \A n \in Envios : bandeja[n][d] \in {"no", "nueva", "leida"}
          /\ (bandeja[n][d] # "no" => EnTabla(n))
  BY DEF BuzonInv, BuzonTypeOK, Avisado
<1>2. GetBandeja(d, {"nueva", "leida"}) = {n \in Envios : bandeja[n][d] # "no"}
      /\ GetBandeja(d, {"nueva"}) = {n \in Envios : bandeja[n][d] = "nueva"}
  BY <1>1 DEF GetBandeja
<1>3. PICK M, B, U : M = GetAll(d) /\ B = {n \in Envios : bandeja[n][d] # "no"}
                     /\ U = {n \in Envios : bandeja[n][d] = "nueva"}
  OBVIOUS
<1>4. IsFiniteSet(M) /\ IsFiniteSet(B) /\ IsFiniteSet(U)
  <2>1. IsFiniteSet(Envios) /\ B \subseteq Envios /\ U \subseteq Envios
    BY <1>3, FS_Interval DEF Envios
  <2>2. IsFiniteSet(M)  BY <1>3, FS_EmptySet, FS_Singleton DEF GetAll
  <2> QED BY <2>1, <2>2, FS_Subset
<1>5. GetInbox(d, FALSE) = Etiquetada("message", M) \cup Etiquetada("notification", B)
  BY <1>2, <1>3 DEF GetInbox, Etiquetada
<1>6. {r \in GetInbox(d, TRUE) : r[1] = "notification"} = Etiquetada("notification", U)
  BY <1>2, <1>3 DEF GetInbox, Etiquetada
<1>7. Etiquetada("message", M) \cap Etiquetada("notification", B) = {}  BY DEF Etiquetada
<1>8. PICK P, Q : P = Etiquetada("message", M) /\ Q = Etiquetada("notification", B)  OBVIOUS
<1>9. /\ IsFiniteSet(P) /\ IsFiniteSet(Q) /\ Cardinality(P) = Cardinality(M)
      /\ Cardinality(Q) = Cardinality(B)
  BY <1>4, <1>8, EtiquetadaCuenta
<1>10. Cardinality(P \cup Q) = Cardinality(P) + Cardinality(Q)
  <2>1. Cardinality(P \cup Q) = Cardinality(P) + Cardinality(Q) - Cardinality(P \cap Q)
    BY ONLY <1>9, FS_Union
  <2>2. P \cap Q = {} /\ Cardinality({}) = 0  BY <1>7, <1>8, FS_EmptySet
  <2>3. Cardinality(P) \in Nat /\ Cardinality(Q) \in Nat  BY <1>9, FS_CardinalityType
  <2>4. Cardinality(P \cap Q) = 0  BY <2>2
  <2> QED BY <2>1, <2>3, <2>4
<1>11. Cardinality(GetInbox(d, FALSE)) = Cardinality(M) + Cardinality(B)  BY <1>5, <1>8, <1>9, <1>10
<1>12. GetUnreadCount(d) = Cardinality({r \in GetInbox(d, TRUE) : r[1] = "notification"})
  BY <1>3, <1>4, <1>6, EtiquetadaCuenta DEF GetUnreadCount
<1> QED BY <1>3, <1>11, <1>12

\* A set in two parts, and the sum of their sizes over the parts there are.
Reparte(f, L, t, A) == IF t \in L THEN f[t] = Cardinality(A) ELSE A = {}
LEMMA DosPartes ==
    ASSUME NEW A, NEW B, IsFiniteSet(A), IsFiniteSet(B), A \cap B = {},
           NEW t, NEW u, t # u, NEW L, L \subseteq {t, u},
           NEW f, Reparte(f, L, t, A), Reparte(f, L, u, B)
    PROVE  Cardinality(A \cup B) = Sumatoria(f, L)
<1>1. PICK a, b, c : a = Cardinality(A) /\ b = Cardinality(B) /\ c = Cardinality(A \cup B)  OBVIOUS
<1>2. a \in Nat /\ b \in Nat /\ c = a + b
  <2>1. Cardinality(A) \in Nat /\ Cardinality(B) \in Nat  BY FS_CardinalityType
  <2>2. Cardinality(A \cup B) = Cardinality(A) + Cardinality(B) - Cardinality(A \cap B)
    BY ONLY IsFiniteSet(A), IsFiniteSet(B), FS_Union
  <2>3. Cardinality(A \cap B) = 0  BY FS_EmptySet
  <2> QED BY <1>1, <2>1, <2>2, <2>3
<1>3. (t \notin L => a = 0) /\ (u \notin L => b = 0)  BY <1>1, FS_EmptySet DEF Reparte
<1>4. (t \in L => f[t] = a) /\ (u \in L => f[u] = b)  BY <1>1 DEF Reparte
<1>5. Sumatoria(f, {}) = 0  BY SumaVacia
<1>6. ASSUME NEW e \in L PROVE Sumatoria(f, {e}) = f[e]
  <2>0. e = t \/ e = u  OBVIOUS
  <2>1. IsFiniteSet({}) /\ f[e] \in Int  BY <1>1, <1>2, <1>4, <1>6, <2>0, FS_EmptySet
  <2>2. \A i \in {} \cup {e} : f[i] \in Int  BY <2>1
  <2>3. Sumatoria(f, {} \cup {e}) = f[e] + Sumatoria(f, {})  BY ONLY <2>1, <2>2, SumaPone
  <2>4. {} \cup {e} = {e}  OBVIOUS
  <2> QED BY <1>5, <2>1, <2>3, <2>4
<1>7. CASE t \in L /\ u \in L
  <2>1. L = {t} \cup {u}  BY <1>7
  <2>2. IsFiniteSet({t}) /\ u \notin {t}  BY FS_Singleton
  <2>3. \A i \in {t} \cup {u} : f[i] \in Int  BY <1>2, <1>4, <1>7
  <2>4. Sumatoria(f, {t} \cup {u}) = f[u] + Sumatoria(f, {t})  BY ONLY <2>2, <2>3, SumaPone
  <2>5. Sumatoria(f, {t}) = a /\ f[u] = b  BY <1>4, <1>6, <1>7
  <2>6. Sumatoria(f, L) = b + a  BY <2>1, <2>4, <2>5
  <2> QED BY <1>1, <1>2, <2>6
<1>8. CASE t \in L /\ u \notin L
  <2>1. L = {t}  BY <1>8
  <2> QED BY <1>1, <1>2, <1>3, <1>4, <1>6, <1>8, <2>1
<1>9. CASE t \notin L /\ u \in L
  <2>1. L = {u}  BY <1>9
  <2> QED BY <1>1, <1>2, <1>3, <1>4, <1>6, <1>9, <2>1
<1>10. CASE t \notin L /\ u \notin L
  <2>1. L = {}  BY <1>10
  <2> QED BY <1>1, <1>2, <1>3, <1>5, <1>10, <2>1
<1> QED BY <1>7, <1>8, <1>9, <1>10

MensajesDe(e) == {d \in Destinatarios : \E m \in GetAll(d) : m.editado = e}
MensajesLeidosDe(e) == {d \in MensajesDe(e) : mensaje[d].leido}
LEMMA FilasForma ==
    ASSUME BuzonInv
    PROVE  /\ MensajesDe(TRUE) \cup MensajesDe(FALSE) = {d \in Destinatarios : GetAll(d) # {}}
           /\ MensajesLeidosDe(TRUE) \cup MensajesLeidosDe(FALSE) =
                {d \in Destinatarios : \E m \in GetAll(d) : m.leido}
           /\ MensajesDe(TRUE) \cap MensajesDe(FALSE) = {}
                  /\ MensajesLeidosDe(TRUE) \cap MensajesLeidosDe(FALSE) = {}
           /\ \A e \in BOOLEAN : /\ IsFiniteSet(MensajesDe(e)) /\ IsFiniteSet(MensajesLeidosDe(e))
                                 /\ e \notin Lineas => MensajesDe(e) = {}
                                        /\ MensajesLeidosDe(e) = {}
           /\ Lineas \subseteq BOOLEAN
<1>1. ASSUME NEW d \in Destinatarios
      PROVE  /\ GetAll(d) = {} \/ (GetAll(d) = {mensaje[d]} /\ mensaje[d] \in Mensaje)
             /\ mensaje[d] \in Mensaje => GetAll(d) = {mensaje[d]}
  BY NoEsMensaje DEF BuzonInv, BuzonTypeOK, GetAll
<1>2. \A m \in Mensaje : m.editado \in BOOLEAN /\ m.leido \in BOOLEAN  BY DEF Mensaje
<1>3. MensajesDe(TRUE) \cup MensajesDe(FALSE) = {d \in Destinatarios : GetAll(d) # {}}
      /\ MensajesDe(TRUE) \cap MensajesDe(FALSE) = {}
  BY <1>1, <1>2 DEF MensajesDe
<1>4. MensajesLeidosDe(TRUE) \cup MensajesLeidosDe(FALSE) =
          {d \in Destinatarios : \E m \in GetAll(d) : m.leido}
      /\ MensajesLeidosDe(TRUE) \cap MensajesLeidosDe(FALSE) = {}
  BY <1>1, <1>2 DEF MensajesDe, MensajesLeidosDe
<1>5. ASSUME NEW e \in BOOLEAN
      PROVE  /\ IsFiniteSet(MensajesDe(e)) /\ IsFiniteSet(MensajesLeidosDe(e))
             /\ e \notin Lineas => MensajesDe(e) = {} /\ MensajesLeidosDe(e) = {}
  BY FS_Subset DEF MensajesDe, MensajesLeidosDe, Lineas
<1>6. Lineas \subseteq BOOLEAN  BY DEF Lineas
<1> QED BY <1>3, <1>4, <1>5, <1>6

LEMMA PanelCuadra ==
    ASSUME BuzonInv, NEW c \in {"enviados", "leidos"}
    PROVE  (IF c = "enviados" THEN ObtenerStats.total ELSE ObtenerStats.leidos) =
               FoldFunction(+, 0, [e \in Lineas |-> ListarMensajes[e][c]])
<1>1. PICK f : f = [e \in Lineas |-> ListarMensajes[e][c]]  OBVIOUS
<1>2. FoldFunction(+, 0, [e \in Lineas |-> ListarMensajes[e][c]]) = Sumatoria(f, Lineas)
  BY <1>1 DEF FoldFunction, Sumatoria
<1>3. \A e \in Lineas : f[e] = IF c = "enviados" THEN Cardinality(MensajesDe(e))
                               ELSE Cardinality(MensajesLeidosDe(e))
  BY <1>1 DEF ListarMensajes, MensajesDe, MensajesLeidosDe
<1>4. ObtenerStats.total = Cardinality(MensajesDe(TRUE) \cup MensajesDe(FALSE))
      /\ ObtenerStats.leidos = Cardinality(MensajesLeidosDe(TRUE) \cup MensajesLeidosDe(FALSE))
  BY FilasForma DEF ObtenerStats
<1>5. CASE c = "enviados"
  <2>1. PICK A, B : A = MensajesDe(TRUE) /\ B = MensajesDe(FALSE)  OBVIOUS
  <2>2. Reparte(f, Lineas, TRUE, A) /\ Reparte(f, Lineas, FALSE, B)
    BY <1>3, <1>5, <2>1, FilasForma DEF Reparte
  <2>3. /\ IsFiniteSet(A) /\ IsFiniteSet(B) /\ A \cap B = {}
        /\ Lineas \subseteq {TRUE, FALSE} /\ TRUE # FALSE
    BY <2>1, FilasForma
  <2>4. PICK L, t, u : L = Lineas /\ t = TRUE /\ u = FALSE  OBVIOUS
  <2>5. /\ Reparte(f, L, t, A) /\ Reparte(f, L, u, B) /\ t # u /\ L \subseteq {t, u}
    BY <2>2, <2>3, <2>4, Zenon
  <2>6. Cardinality(A \cup B) = Sumatoria(f, L)  BY ONLY <2>3, <2>5, DosPartes
  <2> QED BY <1>2, <1>4, <1>5, <2>1, <2>4, <2>6
<1>6. CASE c = "leidos"
  <2>1. PICK A, B : A = MensajesLeidosDe(TRUE) /\ B = MensajesLeidosDe(FALSE)  OBVIOUS
  <2>2. Reparte(f, Lineas, TRUE, A) /\ Reparte(f, Lineas, FALSE, B)
    BY <1>3, <1>6, <2>1, FilasForma DEF Reparte
  <2>3. /\ IsFiniteSet(A) /\ IsFiniteSet(B) /\ A \cap B = {}
        /\ Lineas \subseteq {TRUE, FALSE} /\ TRUE # FALSE
    BY <2>1, FilasForma
  <2>4. PICK L, t, u : L = Lineas /\ t = TRUE /\ u = FALSE  OBVIOUS
  <2>5. /\ Reparte(f, L, t, A) /\ Reparte(f, L, u, B) /\ t # u /\ L \subseteq {t, u}
    BY <2>2, <2>3, <2>4, Zenon
  <2>6. Cardinality(A \cup B) = Sumatoria(f, L)  BY ONLY <2>3, <2>5, DosPartes
  <2> QED BY <1>2, <1>4, <1>6, <2>1, <2>4, <2>6
<1> QED BY <1>5, <1>6

LEMMA BuzonCumple == BuzonInv => BuzonFiel
<1> SUFFICES ASSUME BuzonInv PROVE BuzonFiel  OBVIOUS
<1>1. BandejaCuadra  BY InboxCuadra, PanelCuadra DEF BandejaCuadra
<1> QED BY <1>1 DEF BuzonFiel, BuzonInv, Avisado, Correspondencia

LEMMA BuzonSiempre == BuzonSpec => []BuzonInv
  BY BuzonEmpieza, BuzonPaso, PTL DEF BuzonSpec

HIDE BuzonDatos
--------------------
(* Novedades.  Nobody computes a summary while another changes what it is   *)
(* about, unless the overlap was seen; and who has a promotion in hand is   *)
(* about to announce it to the branch it is of.                             *)
LEMMA NovedadesDatos ==
    /\ TodoElNegocio \notin Locales /\ MaxPromociones \in Nat /\ MaxNovedades \in Nat
    /\ MaxEncargos \in Nat
  BY NovedadesAssumption DEF NovedadesAssumption
USE NovedadesDatos

EnLaMano(w) ==
    IF w.paso \in {"guarda", "avisa"}
    THEN /\ w.promo \in PromoIds /\ w.fila \in Promocion
         /\ promocion[w.promo] \in Promocion /\ promocion[w.promo].local = w.fila.local
    ELSE w.promo = 0
Anunciada(p) ==
    \/ promocion[p] = NoPromocion
    \/ \E e \in Encargados : encargado[e].promo = p
    \/ \E n \in NovedadIds : novedad[n].promo = p /\ novedad[n].local = promocion[p].local
Publicado ==
    /\ \A e \in Encargados : EnLaMano(encargado[e])
    /\ ~publicaFallo => \A p \in PromoIds : Anunciada(p)
Contado(s, faltan) ==
    /\ DOMAIN s \cup faltan = favoritos
    /\ \A k \in DOMAIN s : s[k] \cap marcadas = {}
CuentaAparte ==
    \A e \in Encargados : encargado[e].paso = "cuenta" =>
        /\ Contado(encargado[e].suma, encargado[e].faltan)
        /\ \A o \in Encargados : encargado[o].paso \notin Cambian
Resumido ==
    ~solapoResumen => CuentaAparte /\ (resumen # SinResumen => Contado(resumen, {}))
NovedadesInv == NovedadesTypeOK /\ Publicado /\ Resumido

LEMMA EnResumen ==
    ASSUME NEW s PROVE s \in Resumen <=> \E f \in SUBSET Locales : s \in [f -> SUBSET NovedadIds]
  BY DEF Resumen
LEMMA ResumenForma ==
    ASSUME NEW s \in Resumen
    PROVE  /\ DOMAIN s \subseteq Locales /\ s = [k \in DOMAIN s |-> s[k]]
           /\ \A k \in DOMAIN s : s[k] \subseteq NovedadIds
           /\ s # SinResumen
<1>1. PICK f \in SUBSET Locales : s \in [f -> SUBSET NovedadIds]  BY EnResumen
<1>2. TodoElNegocio \notin DOMAIN s  BY <1>1
<1>3. TodoElNegocio \in DOMAIN SinResumen  BY DEF SinResumen
<1> QED BY <1>1, <1>2, <1>3
LEMMA SinEncargoBien ==
    SinEncargo \in Encargado /\ SinEncargo.paso = "idle" /\ SinEncargo.promo = 0
<1>1. [l \in {} |-> {}] \in Resumen  BY EnResumen
<1> QED BY <1>1 DEF SinEncargo, Encargado
LEMMA EncargadoForma ==
    ASSUME NovedadesTypeOK, NEW e \in Encargados
    PROVE  /\ encargado[e] \in Encargado /\ encargado[e].promo \in PromoIds \cup {0}
           /\ encargado[e].faltan \subseteq Locales /\ encargado[e].ids \subseteq NovedadIds
           /\ encargado[e].suma \in Resumen
  BY DEF NovedadesTypeOK, Encargado

LEMMA NovedadesEmpieza == NovedadesInit => NovedadesInv
<1> SUFFICES ASSUME NovedadesInit PROVE NovedadesInv  OBVIOUS
<1>1. NovedadesTypeOK
  <2>1. /\ promocion \in [PromoIds -> Promocion \cup {NoPromocion}]
        /\ novedad \in [NovedadIds -> Novedad \cup {NoNovedad}]
        /\ encargado \in [Encargados -> Encargado]
    BY SinEncargoBien DEF NovedadesInit
  <2>2. /\ leidas = {} /\ marcadas = {} /\ favoritos \subseteq Locales /\ resumen = SinResumen
        /\ encargos = 0 /\ publicaFallo = FALSE /\ solapoResumen = FALSE
    BY DEF NovedadesInit
  <2>3. resumen \in Resumen \cup {SinResumen} /\ encargos \in 0 .. MaxEncargos  BY <2>2
  <2> QED BY <2>1, <2>2, <2>3 DEF NovedadesTypeOK
<1>2. \A e \in Encargados : encargado[e].paso = "idle" /\ encargado[e].promo = 0
  BY SinEncargoBien DEF NovedadesInit
<1>3. Publicado  BY <1>2 DEF Publicado, EnLaMano, Anunciada, NovedadesInit
<1>4. Resumido  BY <1>2 DEF Resumido, CuentaAparte, NovedadesInit
<1> QED BY <1>1, <1>3, <1>4 DEF NovedadesInv

\* Who goes on with another task.
TomaEncargo(e, w) == w \in Encargado /\ SigueEncargo(e, w)
LEMMA TomaEncargoBien ==
    ASSUME NovedadesTypeOK, NEW e \in Encargados, NEW w, TomaEncargo(e, w)
    PROVE  /\ encargado' \in [Encargados -> Encargado]
           /\ \A o \in Encargados : encargado'[o] = IF o = e THEN w ELSE encargado[o]
  BY DEF TomaEncargo, SigueEncargo, NovedadesTypeOK

\* What is done of a promotion leaves the reader as he was.
LEMMA LectorSigue ==
    ASSUME NovedadesInv, NEW e \in Encargados, NEW w, TomaEncargo(e, w), LectorIgual,
           w.paso \notin Cambian \cup {"cuenta"}
    PROVE  Resumido'
<1>1. \A o \in Encargados : encargado'[o] = IF o = e THEN w ELSE encargado[o]
  BY TomaEncargoBien DEF NovedadesInv
<1>2. /\ solapoResumen' = solapoResumen /\ resumen' = resumen /\ favoritos' = favoritos
      /\ marcadas' = marcadas
  BY DEF LectorIgual
<1>3. ASSUME CuentaAparte PROVE CuentaAparte'  BY <1>1, <1>2, <1>3 DEF CuentaAparte, Contado
<1> QED BY <1>2, <1>3 DEF NovedadesInv, Resumido, Contado

\* What the reader does leaves the promotions as they were.
LEMMA PublicadoSigue ==
    ASSUME NovedadesInv, NEW e \in Encargados, NEW w, TomaEncargo(e, w), TablasIgual,
           w.paso \notin {"guarda", "avisa"}, w.promo = 0, encargado[e].promo = 0
    PROVE  Publicado'
<1>1. \A o \in Encargados : encargado'[o] = IF o = e THEN w ELSE encargado[o]
  BY TomaEncargoBien DEF NovedadesInv
<1>2. promocion' = promocion /\ novedad' = novedad /\ publicaFallo' = publicaFallo
  BY DEF TablasIgual
<1>3. \A o \in Encargados : EnLaMano(encargado[o])'
  BY <1>1, <1>2 DEF NovedadesInv, Publicado, EnLaMano
<1>4. ASSUME NEW p \in PromoIds, Anunciada(p) PROVE Anunciada(p)'
  BY <1>1, <1>2, <1>4 DEF Anunciada, PromoIds
<1> QED BY <1>2, <1>3, <1>4 DEF NovedadesInv, Publicado

LEMMA SinPromo ==
    ASSUME NovedadesInv, NEW e \in Encargados, encargado[e].paso \notin {"guarda", "avisa"}
    PROVE  encargado[e].promo = 0
  BY DEF NovedadesInv, Publicado, EnLaMano

LEMMA PublicaSigue ==
    ASSUME NovedadesInv, NEW e \in Encargados, NEW destino \in SUBSET Locales,
           PublicaPromocion(e, destino)
    PROVE  NovedadesInv'
<1>1. PICK w : w = [SinEncargo EXCEPT !.paso = "lote", !.faltan = destino]  OBVIOUS
<1>2. w \in Encargado /\ w.paso = "lote" /\ w.promo = 0
  BY <1>1, SinEncargoBien DEF SinEncargo, Encargado
<1>3. TomaEncargo(e, w) /\ TablasIgual /\ LectorIgual /\ encargos' \in 0 .. MaxEncargos
      /\ encargado[e].paso = "idle"
  BY <1>1, <1>2 DEF PublicaPromocion, TomaEncargo, NuevoEncargo, NovedadesInv, NovedadesTypeOK,
      EnEncargo
<1>4. Publicado' /\ Resumido'  BY <1>2, <1>3, LectorSigue, PublicadoSigue, SinPromo DEF Cambian
<1>5. NovedadesTypeOK'
  BY <1>3, TomaEncargoBien DEF NovedadesInv, NovedadesTypeOK, TablasIgual, LectorIgual
<1> QED BY <1>4, <1>5 DEF NovedadesInv

LEMMA GuardaNuevaSigue == ASSUME NovedadesInv, NEW e \in Encargados, GuardaNueva(e)
                          PROVE NovedadesInv'
<1>0. NovedadesTypeOK /\ encargado[e].paso = "lote" /\ LectorIgual
      /\ UNCHANGED <<encargos, novedad, publicaFallo>>
  BY DEF GuardaNueva, EnEncargo, NovedadesInv
<1>1. PICK l \in encargado[e].faltan, p \in PromoIds :
        /\ promocion[p] = NoPromocion
        /\ promocion' = [promocion EXCEPT ![p] = [local |-> l, eliminado |-> FALSE]]
        /\ SigueEncargo(e, [encargado[e] EXCEPT !.paso = "avisa", !.promo = p, !.fila =
               promocion'[p],
                                         !.faltan = @ \ {l}])
  BY DEF GuardaNueva
<1>2. PICK f : f = [local |-> l, eliminado |-> FALSE]  OBVIOUS
<1>3. f \in Promocion /\ f # NoPromocion /\ f.local = l
  BY <1>0, <1>2, EncargadoForma DEF Promocion, NoPromocion
<1>4. promocion' = [promocion EXCEPT ![p] = f]
      /\ promocion \in [PromoIds -> Promocion \cup {NoPromocion}]
  BY <1>0, <1>1, <1>2 DEF NovedadesTypeOK
<1>5. \A k \in PromoIds : promocion'[k] = IF k = p THEN f ELSE promocion[k]  BY <1>4
<1>6. PICK w : w = [encargado[e] EXCEPT !.paso = "avisa", !.promo = p, !.fila = f,
                                        !.faltan = @ \ {l}]
  OBVIOUS
<1>7. /\ w \in Encargado /\ w.paso = "avisa" /\ w.promo = p /\ w.fila = f
  BY <1>0, <1>3, <1>6, EncargadoForma DEF Encargado
<1>8. TomaEncargo(e, w)  BY <1>1, <1>5, <1>6, <1>7 DEF TomaEncargo
<1>9. \A o \in Encargados : encargado'[o] = IF o = e THEN w ELSE encargado[o]
  BY <1>0, <1>8, TomaEncargoBien
<1>10. encargado[e].promo = 0 /\ 0 \notin PromoIds  BY <1>0, SinPromo DEF PromoIds
<1>11. \A o \in Encargados : EnLaMano(encargado[o])'
  <2> SUFFICES ASSUME NEW o \in Encargados PROVE EnLaMano(encargado[o])'  OBVIOUS
  <2>1. CASE o = e  BY <1>3, <1>5, <1>7, <1>9, <2>1 DEF EnLaMano
  <2>2. CASE o # e
    <3>1. EnLaMano(encargado[o]) /\ encargado'[o] = encargado[o]
      BY <1>9, <2>2 DEF NovedadesInv, Publicado
    <3>2. CASE encargado[o].paso \notin {"guarda", "avisa"}  BY <3>1, <3>2 DEF EnLaMano
    <3>3. CASE encargado[o].paso \in {"guarda", "avisa"}
      BY <1>1, <3>1, <3>3, NovedadesDatos, <1>5 DEF EnLaMano, Promocion, NoPromocion
    <3> QED BY <3>2, <3>3
  <2> QED BY <2>1, <2>2
<1>12. ASSUME NEW k \in PromoIds, Anunciada(k) PROVE Anunciada(k)'
  <2>1. CASE k = p  BY <1>7, <1>9, <2>1 DEF Anunciada
  <2>2. CASE k # p  BY <1>0, <1>5, <1>9, <1>10, <1>12, <2>2 DEF Anunciada
  <2> QED BY <2>1, <2>2
<1>13. Publicado'  BY <1>0, <1>11, <1>12 DEF NovedadesInv, Publicado
<1>14. Resumido'  BY <1>0, <1>7, <1>8, LectorSigue DEF Cambian
<1>15. promocion' \in [PromoIds -> Promocion \cup {NoPromocion}]  BY <1>3, <1>4
<1>16. NovedadesTypeOK'  BY <1>0, <1>8, <1>15, TomaEncargoBien DEF NovedadesTypeOK, LectorIgual
<1> QED BY <1>13, <1>14, <1>16 DEF NovedadesInv

LEMMA CambiaPromoSigue ==
    ASSUME NovedadesInv, NEW e \in Encargados, NEW p \in PromoIds, NEW retira \in BOOLEAN,
           CambiaPromocion(e, p, retira)
    PROVE  NovedadesInv'
<1>0. /\ NovedadesTypeOK /\ encargado[e].paso = "idle" /\ promocion[p] \in Promocion
      /\ TablasIgual /\ LectorIgual /\ encargos' \in 0 .. MaxEncargos
  BY DEF CambiaPromocion, EnEncargo, NovedadesInv, NovedadesTypeOK, NuevoEncargo
<1>1. PICK f : f = [promocion[p] EXCEPT !.eliminado = retira]  OBVIOUS
<1>2. f \in Promocion /\ f.local = promocion[p].local  BY <1>0, <1>1 DEF Promocion
<1>3. PICK w : w = [SinEncargo EXCEPT !.paso = "guarda", !.promo = p, !.fila = f]  OBVIOUS
<1>4. w \in Encargado /\ w.paso = "guarda" /\ w.promo = p /\ w.fila = f
  BY <1>2, <1>3, SinEncargoBien DEF SinEncargo, Encargado
<1>5. TomaEncargo(e, w)  BY <1>1, <1>3, <1>4 DEF CambiaPromocion, TomaEncargo
<1>6. \A o \in Encargados : encargado'[o] = IF o = e THEN w ELSE encargado[o]
  BY <1>0, <1>5, TomaEncargoBien
<1>7. promocion' = promocion /\ novedad' = novedad /\ publicaFallo' = publicaFallo
  BY <1>0 DEF TablasIgual
<1>8. \A o \in Encargados : EnLaMano(encargado[o])'
  BY <1>0, <1>2, <1>4, <1>6, <1>7 DEF NovedadesInv, Publicado, EnLaMano
<1>9. encargado[e].promo = 0 /\ 0 \notin PromoIds  BY <1>0, SinPromo DEF PromoIds
<1>10. ASSUME NEW k \in PromoIds, Anunciada(k) PROVE Anunciada(k)'
  BY <1>6, <1>7, <1>9, <1>10 DEF Anunciada
<1>11. Publicado'  BY <1>7, <1>8, <1>10 DEF NovedadesInv, Publicado
<1>12. Resumido'  BY <1>0, <1>4, <1>5, LectorSigue DEF Cambian
<1>13. NovedadesTypeOK'
  BY <1>0, <1>5, TomaEncargoBien DEF NovedadesTypeOK, TablasIgual, LectorIgual
<1> QED BY <1>11, <1>12, <1>13 DEF NovedadesInv

LEMMA GuardaCambioSigue == ASSUME NovedadesInv, NEW e \in Encargados, GuardaCambio(e)
                           PROVE NovedadesInv'
<1>0. NovedadesTypeOK /\ encargado[e].paso = "guarda" /\ LectorIgual
      /\ UNCHANGED <<encargos, novedad, publicaFallo>>
  BY DEF GuardaCambio, EnEncargo, NovedadesInv
<1>1. PICK p, f : p = encargado[e].promo /\ f = encargado[e].fila  OBVIOUS
<1>2. p \in PromoIds /\ f \in Promocion /\ promocion[p] \in Promocion
          /\ f.local = promocion[p].local
  BY <1>0, <1>1 DEF NovedadesInv, Publicado, EnLaMano
<1>3. promocion' = [promocion EXCEPT ![p] = f]
      /\ promocion \in [PromoIds -> Promocion \cup {NoPromocion}]
  BY <1>0, <1>1 DEF GuardaCambio, NovedadesTypeOK
<1>4. \A k \in PromoIds : promocion'[k] = IF k = p THEN f ELSE promocion[k]  BY <1>3
<1>5. PICK w : w = [encargado[e] EXCEPT !.paso = "avisa"]  OBVIOUS
<1>6. w \in Encargado /\ w.paso = "avisa" /\ w.promo = p /\ w.fila = f
  BY <1>0, <1>1, <1>5, EncargadoForma DEF Encargado
<1>7. TomaEncargo(e, w)  BY <1>5, <1>6 DEF GuardaCambio, TomaEncargo
<1>8. \A o \in Encargados : encargado'[o] = IF o = e THEN w ELSE encargado[o]
  BY <1>0, <1>7, TomaEncargoBien
<1>9. \A o \in Encargados : EnLaMano(encargado[o])'
  <2> SUFFICES ASSUME NEW o \in Encargados PROVE EnLaMano(encargado[o])'  OBVIOUS
  <2>1. CASE o = e  BY <1>2, <1>4, <1>6, <1>8, <2>1 DEF EnLaMano
  <2>2. CASE o # e  BY <1>2, <1>4, <1>8, <2>2 DEF NovedadesInv, Publicado, EnLaMano
  <2> QED BY <2>1, <2>2
<1>10. ASSUME NEW k \in PromoIds, Anunciada(k) PROVE Anunciada(k)'
  <2>1. CASE k = p  BY <1>6, <1>8, <2>1 DEF Anunciada
  <2>2. CASE k # p  BY <1>0, <1>1, <1>4, <1>8, <1>10, <2>2 DEF Anunciada
  <2> QED BY <2>1, <2>2
<1>11. Publicado'  BY <1>0, <1>9, <1>10 DEF NovedadesInv, Publicado
<1>12. Resumido'  BY <1>0, <1>6, <1>7, LectorSigue DEF Cambian
<1>13. promocion' \in [PromoIds -> Promocion \cup {NoPromocion}]  BY <1>2, <1>3
<1>14. NovedadesTypeOK'  BY <1>0, <1>7, <1>13, TomaEncargoBien DEF NovedadesTypeOK, LectorIgual
<1> QED BY <1>11, <1>12, <1>14 DEF NovedadesInv

\* A row of news of its own.
LEMMA NovedadNueva ==
    ASSUME NovedadesTypeOK, NEW l \in Locales \cup {TodoElNegocio}, NEW p \in PromoIds \cup {0},
           CreaNovedad(l, p)
    PROVE  /\ novedad' \in [NovedadIds -> Novedad \cup {NoNovedad}]
           /\ \E n \in NovedadIds : novedad'[n].promo = p /\ novedad'[n].local = l
           /\ \A n \in NovedadIds : novedad[n].promo # 0 => novedad'[n] = novedad[n]
<1>1. PICK n \in NovedadIds : novedad[n] = NoNovedad
                /\ novedad' = [novedad EXCEPT ![n] = [local |-> l, promo |-> p, activo |-> TRUE]]
  BY DEF CreaNovedad
<1>2. PICK f : f = [local |-> l, promo |-> p, activo |-> TRUE]  OBVIOUS
<1>3. f \in Novedad /\ f.local = l /\ f.promo = p  BY <1>2 DEF Novedad
<1>4. novedad' = [novedad EXCEPT ![n] = f] /\ novedad \in [NovedadIds -> Novedad \cup {NoNovedad}]
  BY <1>1, <1>2 DEF NovedadesTypeOK
<1>5. NoNovedad.promo = 0  BY DEF NoNovedad
<1> QED BY <1>1, <1>3, <1>4, <1>5
LEMMA AnunciadaQueda ==
    ASSUME NEW p \in PromoIds, Anunciada(p), promocion' = promocion,
           \A n \in NovedadIds : novedad[n].promo # 0 =>
               novedad'[n].promo = novedad[n].promo /\ novedad'[n].local = novedad[n].local,
           \A e \in Encargados : encargado[e].promo = p =>
               \/ encargado'[e].promo = p
               \/ \E n \in NovedadIds : novedad'[n].promo = p
                      /\ novedad'[n].local = promocion[p].local
    PROVE  Anunciada(p)'
<1>1. p # 0  BY DEF PromoIds
<1> QED BY <1>1 DEF Anunciada

LEMMA AvisaSigue == ASSUME NovedadesInv, NEW e \in Encargados, Avisa(e) PROVE NovedadesInv'
<1>0. NovedadesTypeOK /\ encargado[e].paso = "avisa" /\ LectorIgual
      /\ UNCHANGED <<encargos, promocion, publicaFallo>>
  BY DEF Avisa, EnEncargo, NovedadesInv
<1>1. PICK p, l : p = encargado[e].promo /\ l = encargado[e].fila.local  OBVIOUS
<1>2. p \in PromoIds /\ l \in Locales /\ promocion[p].local = l
  BY <1>0, <1>1 DEF NovedadesInv, Publicado, EnLaMano, Promocion
<1>3. CreaNovedad(l, p)  BY <1>1 DEF Avisa
<1>4. PICK w : w = IF encargado[e].faltan = {} THEN SinEncargo
                   ELSE [SinEncargo EXCEPT !.paso = "lote", !.faltan = encargado[e].faltan]
  OBVIOUS
<1>5. w \in Encargado /\ w.paso \in {"idle", "lote"} /\ w.promo = 0
  BY <1>0, <1>4, EncargadoForma, SinEncargoBien DEF SinEncargo, Encargado
<1>6. TomaEncargo(e, w)  BY <1>4, <1>5 DEF Avisa, TomaEncargo
<1>7. \A o \in Encargados : encargado'[o] = IF o = e THEN w ELSE encargado[o]
  BY <1>0, <1>6, TomaEncargoBien
<1>8. /\ novedad' \in [NovedadIds -> Novedad \cup {NoNovedad}]
      /\ \E n \in NovedadIds : novedad'[n].promo = p /\ novedad'[n].local = l
      /\ \A n \in NovedadIds : novedad[n].promo # 0 => novedad'[n] = novedad[n]
  BY <1>0, <1>2, <1>3, NovedadNueva
<1>9. \A o \in Encargados : EnLaMano(encargado[o])'
  BY <1>0, <1>5, <1>7 DEF NovedadesInv, Publicado, EnLaMano
<1>10. ASSUME NEW k \in PromoIds, Anunciada(k) PROVE Anunciada(k)'
  BY <1>1, <1>2, <1>7, <1>8, <1>0, <1>10, AnunciadaQueda
<1>11. Publicado'  BY <1>0, <1>9, <1>10 DEF NovedadesInv, Publicado
<1>12. Resumido'  BY <1>0, <1>5, <1>6, LectorSigue DEF Cambian
<1>13. NovedadesTypeOK'  BY <1>0, <1>6, <1>8, TomaEncargoBien DEF NovedadesTypeOK, LectorIgual
<1> QED BY <1>11, <1>12, <1>13 DEF NovedadesInv

LEMMA FallaEncargoSigue == ASSUME NovedadesInv, NEW e \in Encargados, FallaEncargo(e)
                           PROVE NovedadesInv'
<1>0. /\ NovedadesTypeOK /\ LectorIgual /\ UNCHANGED <<encargos, promocion, novedad>>
      /\ publicaFallo' = (publicaFallo \/ encargado[e].paso \in {"lote", "guarda", "avisa"})
      /\ TomaEncargo(e, SinEncargo)
  BY SinEncargoBien DEF FallaEncargo, NovedadesInv, TomaEncargo
<1>1. \A o \in Encargados : encargado'[o] = IF o = e THEN SinEncargo ELSE encargado[o]
  BY <1>0, TomaEncargoBien
<1>2. \A o \in Encargados : EnLaMano(encargado[o])'
  BY <1>0, <1>1, SinEncargoBien DEF NovedadesInv, Publicado, EnLaMano
<1>3. ASSUME ~publicaFallo', NEW k \in PromoIds PROVE Anunciada(k)'
  <2>0. ~publicaFallo /\ encargado[e].paso \notin {"guarda", "avisa"}  BY <1>0, <1>3
  <2>1. encargado[e].promo = 0 /\ Anunciada(k) /\ k # 0
    BY <2>0, SinPromo DEF NovedadesInv, Publicado, PromoIds
  <2> QED BY <1>0, <1>1, <2>1, AnunciadaQueda
<1>4. Publicado'  BY <1>2, <1>3 DEF Publicado
<1>5. Resumido'  BY <1>0, SinEncargoBien, LectorSigue DEF Cambian
<1>6. publicaFallo' \in BOOLEAN  BY <1>0 DEF NovedadesTypeOK
<1>7. NovedadesTypeOK'  BY <1>0, <1>6, TomaEncargoBien DEF NovedadesTypeOK, LectorIgual
<1> QED BY <1>4, <1>5, <1>7 DEF NovedadesInv

\* An event made or withdrawn by itself.
LEMMA EventoSigue ==
    ASSUME NovedadesInv, UNCHANGED <<promocion, publicaFallo, encargado>>, LectorIgual,
           encargos' \in 0 .. MaxEncargos,
           novedad' \in [NovedadIds -> Novedad \cup {NoNovedad}],
           \A n \in NovedadIds : novedad[n].promo # 0 =>
               novedad'[n].promo = novedad[n].promo /\ novedad'[n].local = novedad[n].local
    PROVE  NovedadesInv'
<1>1. \A k \in PromoIds : Anunciada(k) => Anunciada(k)'  BY AnunciadaQueda
<1>2. Publicado'  BY <1>1 DEF NovedadesInv, Publicado, EnLaMano
<1>3. Resumido'  BY DEF NovedadesInv, Resumido, CuentaAparte, Contado, LectorIgual
<1>4. NovedadesTypeOK'  BY DEF NovedadesInv, NovedadesTypeOK, LectorIgual
<1> QED BY <1>2, <1>3, <1>4 DEF NovedadesInv
LEMMA CrearEventoSigue == NovedadesInv /\ CrearEvento => NovedadesInv'
<1> SUFFICES ASSUME NovedadesInv, CrearEvento PROVE NovedadesInv'  OBVIOUS
<1>1. CreaNovedad(TodoElNegocio, 0) /\ NovedadesTypeOK /\ encargos' \in 0 .. MaxEncargos
      /\ UNCHANGED <<promocion, publicaFallo, encargado>> /\ LectorIgual
  BY DEF CrearEvento, NuevoEncargo, NovedadesInv, NovedadesTypeOK
<1>2. /\ novedad' \in [NovedadIds -> Novedad \cup {NoNovedad}]
      /\ \A n \in NovedadIds : novedad[n].promo # 0 => novedad'[n] = novedad[n]
  BY <1>1, NovedadNueva
<1> QED BY <1>1, <1>2, EventoSigue
LEMMA DesactivaSigue == ASSUME NovedadesInv, NEW n \in NovedadIds, DesactivarEvento(n)
                        PROVE NovedadesInv'
<1>1. /\ novedad[n].activo /\ novedad \in [NovedadIds -> Novedad \cup {NoNovedad}]
      /\ novedad' = [novedad EXCEPT ![n].activo = FALSE] /\ encargos' \in 0 .. MaxEncargos
      /\ UNCHANGED <<promocion, publicaFallo, encargado>> /\ LectorIgual
  BY DEF DesactivarEvento, NuevoEncargo, NovedadesInv, NovedadesTypeOK
<1>2. novedad[n] \in Novedad  BY <1>1 DEF NoNovedad
<1>3. PICK f : f = [novedad[n] EXCEPT !.activo = FALSE]  OBVIOUS
<1>4. f \in Novedad /\ f.promo = novedad[n].promo /\ f.local = novedad[n].local
  BY <1>2, <1>3 DEF Novedad
<1>5. novedad' = [novedad EXCEPT ![n] = f]  BY <1>1, <1>3
<1>6. /\ novedad' \in [NovedadIds -> Novedad \cup {NoNovedad}]
      /\ \A k \in NovedadIds : novedad'[k].promo = novedad[k].promo
                               /\ novedad'[k].local = novedad[k].local
  BY <1>1, <1>4, <1>5
<1> QED BY <1>1, <1>6, EventoSigue

--------------------
\* The reader.  A step that changes none of what a summary is of.
LEMMA QuietoResumen ==
    ASSUME NovedadesInv, NEW e \in Encargados, NEW w, TomaEncargo(e, w), w.paso # "cuenta",
           UNCHANGED <<favoritos, marcadas, resumen>>,
           solapoResumen' \/ (~solapoResumen /\ (w.paso \in Cambian => ~HaceOtro(e, {"cuenta"})))
    PROVE  Resumido'
<1>1. \A o \in Encargados : encargado'[o] = IF o = e THEN w ELSE encargado[o]
  BY TomaEncargoBien DEF NovedadesInv
<1>2. ASSUME CuentaAparte, w.paso \in Cambian => ~HaceOtro(e, {"cuenta"}) PROVE CuentaAparte'
  BY <1>1, <1>2 DEF CuentaAparte, Contado, HaceOtro
<1> QED BY <1>2 DEF NovedadesInv, Resumido, Contado
\* A step of a change, which forgets the summary: nobody is computing one.
LEMMA OlvidaSigue ==
    ASSUME NovedadesInv, NEW e \in Encargados, TomaEncargo(e, SinEncargo),
               encargado[e].paso \in Cambian,
           solapoResumen' = solapoResumen, resumen' = SinResumen
    PROVE  Resumido'
<1>1. \A o \in Encargados : encargado'[o] = IF o = e THEN SinEncargo ELSE encargado[o]
  BY TomaEncargoBien DEF NovedadesInv
<1>2. ASSUME CuentaAparte PROVE CuentaAparte'
  BY <1>1, <1>2, SinEncargoBien DEF CuentaAparte, Cambian
<1> QED BY <1>2 DEF NovedadesInv, Resumido

LEMMA ToggleSigue ==
    ASSUME NovedadesInv, NEW e \in Encargados, NEW l \in Locales, ToggleFavorito(e, l)
    PROVE  NovedadesInv'
<1>0. /\ NovedadesTypeOK /\ encargado[e].paso = "idle" /\ TablasIgual
      /\ UNCHANGED <<leidas, favoritos, resumen, marcadas>> /\ encargos' \in 0 .. MaxEncargos
      /\ solapoResumen' = (solapoResumen \/ HaceOtro(e, {"cuenta"}))
  BY DEF ToggleFavorito, EnEncargo, NovedadesInv, NuevoEncargo, NovedadesTypeOK
<1>1. PICK w : w = [SinEncargo EXCEPT !.paso = IF l \in favoritos THEN "quita" ELSE "agrega",
                                      !.faltan = {l}]
  OBVIOUS
<1>2. w \in Encargado /\ w.paso \in {"quita", "agrega"} /\ w.promo = 0
  BY <1>1, SinEncargoBien DEF SinEncargo, Encargado
<1>3. TomaEncargo(e, w)  BY <1>1, <1>2 DEF ToggleFavorito, TomaEncargo
<1>4. Publicado'  BY <1>0, <1>2, <1>3, PublicadoSigue, SinPromo
<1>5. Resumido'  BY <1>0, <1>2, <1>3, QuietoResumen
<1>6. solapoResumen' \in BOOLEAN  BY <1>0 DEF NovedadesTypeOK, HaceOtro
<1>7. NovedadesTypeOK'  BY <1>0, <1>3, <1>6, TomaEncargoBien DEF NovedadesTypeOK, TablasIgual
<1> QED BY <1>4, <1>5, <1>7 DEF NovedadesInv

LEMMA GuardaFavoritoSigue == ASSUME NovedadesInv, NEW e \in Encargados, GuardaFavorito(e)
                             PROVE NovedadesInv'
<1>0. /\ NovedadesTypeOK /\ encargado[e].paso \in {"quita", "agrega"} /\ TablasIgual
      /\ UNCHANGED <<encargos, leidas, solapoResumen, marcadas>> /\ TomaEncargo(e, SinEncargo)
  BY SinEncargoBien DEF GuardaFavorito, NovedadesInv, TomaEncargo
<1>1. Publicado'  BY <1>0, SinEncargoBien, PublicadoSigue, SinPromo
<1>2. CASE UNCHANGED <<favoritos, resumen>>
  <2>1. Resumido'
    <3>1. CASE solapoResumen  BY <1>0, <3>1 DEF Resumido
    <3>2. CASE ~solapoResumen  BY <1>0, <1>2, <3>2, SinEncargoBien, QuietoResumen DEF Cambian
    <3> QED BY <3>1, <3>2
  <2>2. NovedadesTypeOK'  BY <1>0, <1>2, TomaEncargoBien DEF NovedadesTypeOK, TablasIgual
  <2> QED BY <1>1, <2>1, <2>2 DEF NovedadesInv
<1>3. CASE resumen' = SinResumen /\ favoritos' \subseteq Locales
  BY <1>0, <1>3, OlvidaSigue, TomaEncargoBien, <1>1 DEF Cambian, NovedadesTypeOK, TablasIgual,
     NovedadesInv
<1>4. favoritos \subseteq Locales /\ encargado[e].faltan \subseteq Locales
  BY <1>0, EncargadoForma DEF NovedadesTypeOK
<1> QED BY <1>2, <1>3, <1>4 DEF GuardaFavorito, OlvidaResumen

LEMMA NoLeidasBien == ASSUME NEW l PROVE NoLeidas(l) \subseteq NovedadIds \ leidas
  BY DEF NoLeidas
LEMMA MarcarSigue ==
    ASSUME NovedadesInv, NEW e \in Encargados, NEW l \in Locales \cup {TodoElNegocio},
           MarcarFavorito(e, l)
    PROVE  NovedadesInv'
<1>0. /\ NovedadesTypeOK /\ encargado[e].paso = "idle" /\ TablasIgual
      /\ UNCHANGED <<leidas, favoritos, resumen, marcadas>> /\ encargos' \in 0 .. MaxEncargos
      /\ solapoResumen' = (solapoResumen \/ HaceOtro(e, {"cuenta"}))
  BY DEF MarcarFavorito, EnEncargo, NovedadesInv, NuevoEncargo, NovedadesTypeOK
<1>1. PICK w : w = [SinEncargo EXCEPT !.paso = "marca",
                                      !.ids = NoLeidas(l) \cup NoLeidas(TodoElNegocio)]
  OBVIOUS
<1>2. w \in Encargado /\ w.paso = "marca" /\ w.promo = 0
  BY <1>1, SinEncargoBien, NoLeidasBien DEF SinEncargo, Encargado
<1>3. TomaEncargo(e, w)  BY <1>1, <1>2 DEF MarcarFavorito, TomaEncargo
<1>4. Publicado'  BY <1>0, <1>2, <1>3, PublicadoSigue, SinPromo
<1>5. Resumido'  BY <1>0, <1>2, <1>3, QuietoResumen
<1>6. solapoResumen' \in BOOLEAN  BY <1>0 DEF NovedadesTypeOK, HaceOtro
<1>7. NovedadesTypeOK'  BY <1>0, <1>3, <1>6, TomaEncargoBien DEF NovedadesTypeOK, TablasIgual
<1> QED BY <1>4, <1>5, <1>7 DEF NovedadesInv
LEMMA MarcarPorIdSigue ==
    ASSUME NovedadesInv, NEW e \in Encargados, NEW n \in NovedadIds, MarcarPorId(e, n)
    PROVE  NovedadesInv'
<1>0. /\ NovedadesTypeOK /\ encargado[e].paso = "idle" /\ TablasIgual
      /\ UNCHANGED <<leidas, favoritos, resumen, solapoResumen, marcadas>>
      /\ encargos' \in 0 .. MaxEncargos
  BY DEF MarcarPorId, EnEncargo, NovedadesInv, NuevoEncargo, NovedadesTypeOK
<1>1. PICK w : w = [SinEncargo EXCEPT !.paso = "marcaPorId", !.ids = {n}]  OBVIOUS
<1>2. w \in Encargado /\ w.paso = "marcaPorId" /\ w.promo = 0
  BY <1>1, SinEncargoBien DEF SinEncargo, Encargado
<1>3. TomaEncargo(e, w) /\ LectorIgual
  BY <1>0, <1>1, <1>2 DEF MarcarPorId, TomaEncargo, LectorIgual
<1>4. Publicado' /\ Resumido'
  BY <1>0, <1>2, <1>3, PublicadoSigue, LectorSigue, SinPromo DEF Cambian
<1>5. NovedadesTypeOK'  BY <1>0, <1>3, TomaEncargoBien DEF NovedadesTypeOK, TablasIgual
<1> QED BY <1>4, <1>5 DEF NovedadesInv

LEMMA GuardaLecturasSigue == ASSUME NovedadesInv, NEW e \in Encargados, GuardaLecturas(e)
                             PROVE NovedadesInv'
<1>0. /\ NovedadesTypeOK /\ encargado[e].paso \in {"marca", "marcaPorId"} /\ TablasIgual
      /\ UNCHANGED <<encargos, favoritos, solapoResumen>> /\ TomaEncargo(e, SinEncargo)
  BY SinEncargoBien DEF GuardaLecturas, NovedadesInv, TomaEncargo
<1>1. Publicado'  BY <1>0, SinEncargoBien, PublicadoSigue, SinPromo
<1>2. encargado[e].ids \subseteq NovedadIds /\ leidas \subseteq NovedadIds
          /\ marcadas \subseteq leidas
  BY <1>0, EncargadoForma DEF NovedadesTypeOK
<1>3. leidas' \subseteq NovedadIds /\ marcadas' \subseteq leidas'
      /\ \/ UNCHANGED <<marcadas, resumen>>
         \/ encargado[e].paso = "marca" /\ resumen' = SinResumen
  BY <1>2 DEF GuardaLecturas, EnEncargo, OlvidaResumen
<1>4. Resumido'
  <2>1. CASE solapoResumen  BY <1>0, <2>1 DEF Resumido
  <2>2. CASE ~solapoResumen /\ UNCHANGED <<marcadas, resumen>>
    BY <1>0, <2>2, SinEncargoBien, QuietoResumen DEF Cambian
  <2>3. CASE encargado[e].paso = "marca" /\ resumen' = SinResumen
    BY <1>0, <2>3, OlvidaSigue DEF Cambian
  <2> QED BY <1>3, <2>1, <2>2, <2>3
<1>5. resumen' \in Resumen \cup {SinResumen}  BY <1>0, <1>3 DEF NovedadesTypeOK
<1>6. NovedadesTypeOK'  BY <1>0, <1>3, <1>5, TomaEncargoBien DEF NovedadesTypeOK, TablasIgual
<1> QED BY <1>1, <1>4, <1>6 DEF NovedadesInv

LEMMA ResumenVacio == [l \in {} |-> {}] \in Resumen /\ DOMAIN [l \in {} |-> {}] = {}
<1>1. [l \in {} |-> {}] \in [{} -> SUBSET NovedadIds]  OBVIOUS
<1> QED BY <1>1, EnResumen
LEMMA ObtenerSigue == ASSUME NovedadesInv, NEW e \in Encargados, ObtenerResumen(e)
                      PROVE NovedadesInv'
<1>0. /\ NovedadesTypeOK /\ encargado[e].paso = "idle" /\ resumen = SinResumen /\ TablasIgual
      /\ UNCHANGED <<encargos, leidas, favoritos, marcadas>>
      /\ solapoResumen' = (solapoResumen \/ HaceOtro(e, Cambian))
  BY DEF ObtenerResumen, EnEncargo, NovedadesInv
<1>1. solapoResumen' \in BOOLEAN  BY <1>0 DEF NovedadesTypeOK, HaceOtro
<1>2. CASE favoritos = {}
  <2>1. PICK s : s = [l \in {} |-> {}]  OBVIOUS
  <2>2. s \in Resumen /\ DOMAIN s = {} /\ resumen' = s /\ UNCHANGED encargado
    BY <1>2, <2>1, ResumenVacio DEF ObtenerResumen
  <2>3. Publicado'  BY <1>0, <2>2 DEF NovedadesInv, Publicado, EnLaMano, Anunciada, TablasIgual
  <2>4. CuentaAparte => CuentaAparte'  BY <1>0, <2>2 DEF CuentaAparte, Contado
  <2>5. Contado(resumen, {})'  BY <1>0, <1>2, <2>2 DEF Contado
  <2>6. Resumido'  BY <1>0, <2>4, <2>5 DEF NovedadesInv, Resumido
  <2>7. NovedadesTypeOK'  BY <1>0, <1>1, <2>2 DEF NovedadesTypeOK, TablasIgual
  <2> QED BY <2>3, <2>6, <2>7 DEF NovedadesInv
<1>3. CASE favoritos # {}
  <2>1. PICK w : w = [SinEncargo EXCEPT !.paso = "cuenta", !.faltan = favoritos]  OBVIOUS
  <2>2. w \in Encargado /\ w.paso = "cuenta" /\ w.promo = 0 /\ w.faltan = favoritos
        /\ DOMAIN w.suma = {}
    BY <1>0, <2>1, SinEncargoBien, ResumenVacio DEF SinEncargo, Encargado, NovedadesTypeOK
  <2>3. TomaEncargo(e, w) /\ resumen' = resumen  BY <1>3, <2>1, <2>2 DEF ObtenerResumen, TomaEncargo
  <2>4. Publicado'  BY <1>0, <2>2, <2>3, PublicadoSigue, SinPromo
  <2>5. \A o \in Encargados : encargado'[o] = IF o = e THEN w ELSE encargado[o]
    BY <1>0, <2>3, TomaEncargoBien
  <2>6. ASSUME CuentaAparte, ~HaceOtro(e, Cambian) PROVE CuentaAparte'
    BY <2>2, <2>5, <2>6, <1>0 DEF HaceOtro, Cambian, Contado, CuentaAparte
  <2>7. Resumido'  BY <1>0, <2>3, <2>6 DEF NovedadesInv, Resumido
  <2>8. NovedadesTypeOK'  BY <1>0, <1>1, <2>3, TomaEncargoBien DEF NovedadesTypeOK, TablasIgual
  <2> QED BY <2>4, <2>7, <2>8 DEF NovedadesInv
<1> QED BY <1>2, <1>3

LEMMA CuentaSigue == ASSUME NovedadesInv, NEW e \in Encargados, CuentaNoLeidas(e)
                     PROVE NovedadesInv'
<1>0. /\ NovedadesTypeOK /\ encargado[e].paso = "cuenta" /\ TablasIgual
      /\ UNCHANGED <<encargos, leidas, favoritos, solapoResumen, marcadas>>
  BY DEF CuentaNoLeidas, EnEncargo, NovedadesInv
<1>1. PICK l \in encargado[e].faltan :
        LET w == encargado[e]
            suma == [k \in DOMAIN w.suma \cup {l} |->
                       IF k = l THEN NoLeidas(l) \cup NoLeidas(TodoElNegocio) ELSE w.suma[k]]
        IN  IF w.faltan = {l} THEN resumen' = suma /\ SigueEncargo(e, SinEncargo)
            ELSE /\ SigueEncargo(e, [w EXCEPT !.faltan = @ \ {l}, !.suma = suma])
                 /\ UNCHANGED resumen
  BY DEF CuentaNoLeidas
<1>2. PICK w, ids : w = encargado[e] /\ ids = NoLeidas(l) \cup NoLeidas(TodoElNegocio)  OBVIOUS
<1>3. PICK s : s = [k \in DOMAIN w.suma \cup {l} |-> IF k = l THEN ids ELSE w.suma[k]]  OBVIOUS
<1>4. /\ w \in Encargado /\ w.paso = "cuenta" /\ w.suma \in Resumen /\ w.faltan \subseteq Locales
      /\ ids \subseteq NovedadIds /\ ids \cap leidas = {} /\ l \in w.faltan
      /\ marcadas \subseteq leidas
  BY <1>0, <1>2, EncargadoForma, NoLeidasBien DEF NovedadesTypeOK
<1>5. IF w.faltan = {l} THEN resumen' = s /\ SigueEncargo(e, SinEncargo)
      ELSE /\ SigueEncargo(e, [w EXCEPT !.faltan = @ \ {l}, !.suma = s])
           /\ UNCHANGED resumen
  BY <1>1, <1>2, <1>3
<1>6. s \in Resumen  BY <1>4, ResumenForma, <1>3, EnResumen
<1>7. ASSUME ~solapoResumen PROVE Contado(s, w.faltan \ {l})
  <2>1. Contado(w.suma, w.faltan)  BY <1>0, <1>2, <1>7 DEF NovedadesInv, Resumido, CuentaAparte
  <2> QED BY <1>3, <1>4, <2>1 DEF Contado
<1>8. CASE w.faltan = {l}
  <2>1. resumen' = s /\ TomaEncargo(e, SinEncargo)  BY <1>5, <1>8, SinEncargoBien DEF TomaEncargo
  <2>2. Publicado'  BY <1>0, <2>1, SinEncargoBien, PublicadoSigue, SinPromo
  <2>3. \A o \in Encargados : encargado'[o] = IF o = e THEN SinEncargo ELSE encargado[o]
    BY <1>0, <2>1, TomaEncargoBien
  <2>4. CuentaAparte => CuentaAparte'
    BY <1>0, <2>3, SinEncargoBien DEF CuentaAparte, Contado, Cambian
  <2>5. ~solapoResumen => Contado(s, {})  BY <1>7, <1>8
  <2>6. Resumido'  BY <1>0, <2>1, <2>4, <2>5 DEF NovedadesInv, Resumido, Contado
  <2>7. NovedadesTypeOK'  BY <1>0, <1>6, <2>1, TomaEncargoBien DEF NovedadesTypeOK, TablasIgual
  <2> QED BY <2>2, <2>6, <2>7 DEF NovedadesInv
<1>9. CASE w.faltan # {l}
  <2>1. PICK v : v = [w EXCEPT !.faltan = @ \ {l}, !.suma = s]  OBVIOUS
  <2>2. v \in Encargado /\ v.paso = "cuenta" /\ v.promo = w.promo /\ v.faltan = w.faltan \ {l}
        /\ v.suma = s
    BY <1>4, <1>6, <2>1 DEF Encargado
  <2>3. TomaEncargo(e, v) /\ resumen' = resumen  BY <1>5, <1>9, <2>1, <2>2 DEF TomaEncargo
  <2>4. Publicado'  BY <1>0, <1>2, <2>2, <2>3, PublicadoSigue, SinPromo
  <2>5. \A o \in Encargados : encargado'[o] = IF o = e THEN v ELSE encargado[o]
    BY <1>0, <2>3, TomaEncargoBien
  <2>6. ASSUME ~solapoResumen, CuentaAparte PROVE CuentaAparte'
    BY <1>7, <2>6, <1>0, <2>2, <2>5 DEF CuentaAparte, Cambian, Contado
  <2>7. Resumido'  BY <1>0, <2>3, <2>6 DEF NovedadesInv, Resumido, Contado
  <2>8. NovedadesTypeOK'  BY <1>0, <2>3, TomaEncargoBien DEF NovedadesTypeOK, TablasIgual
  <2> QED BY <2>4, <2>7, <2>8 DEF NovedadesInv
<1> QED BY <1>8, <1>9

LEMMA CaducaSigue == NovedadesInv /\ CaducaResumen => NovedadesInv'
<1> SUFFICES ASSUME NovedadesInv, CaducaResumen PROVE NovedadesInv'  OBVIOUS
<1>1. /\ resumen' = SinResumen /\ TablasIgual
      /\ UNCHANGED <<encargos, encargado, leidas, favoritos, solapoResumen, marcadas>>
  BY DEF CaducaResumen
<1>2. NovedadesTypeOK'  BY <1>1 DEF NovedadesInv, NovedadesTypeOK, TablasIgual
<1>3. Publicado'  BY <1>1 DEF NovedadesInv, Publicado, EnLaMano, Anunciada, TablasIgual
<1>4. Resumido'  BY <1>1 DEF NovedadesInv, Resumido, CuentaAparte, Contado
<1> QED BY <1>2, <1>3, <1>4 DEF NovedadesInv

LEMMA NovedadesPaso == NovedadesInv /\ [NovedadesNext]_novedadesVars => NovedadesInv'
<1> SUFFICES ASSUME NovedadesInv, [NovedadesNext]_novedadesVars PROVE NovedadesInv'  OBVIOUS
<1>1. CASE UNCHANGED novedadesVars
  BY <1>1 DEF novedadesVars, NovedadesInv, NovedadesTypeOK, Publicado, EnLaMano, Anunciada,
       Resumido, CuentaAparte, Contado
<1>2. ASSUME NEW e \in Encargados, NEW destino \in SUBSET Locales, PublicaPromocion(e, destino)
      PROVE NovedadesInv'
  BY <1>2, PublicaSigue
<1>3. ASSUME NEW e \in Encargados, NEW p \in PromoIds, NEW retira \in BOOLEAN,
             CambiaPromocion(e, p, retira)
      PROVE NovedadesInv'
  BY <1>3, CambiaPromoSigue
<1>4. ASSUME NEW e \in Encargados, \/ GuardaNueva(e) \/ GuardaCambio(e) \/ Avisa(e)
                                   \/ FallaEncargo(e)
      PROVE NovedadesInv'
  BY <1>4, GuardaNuevaSigue, GuardaCambioSigue, AvisaSigue, FallaEncargoSigue
<1>5. ASSUME NEW e \in Encargados, NEW l \in Locales, ToggleFavorito(e, l) PROVE NovedadesInv'
  BY <1>5, ToggleSigue
<1>6. ASSUME NEW e \in Encargados, NEW l \in Locales \cup {TodoElNegocio}, MarcarFavorito(e, l)
      PROVE NovedadesInv'
  BY <1>6, MarcarSigue
<1>7. ASSUME NEW e \in Encargados, NEW n \in NovedadIds, MarcarPorId(e, n) PROVE NovedadesInv'
  BY <1>7, MarcarPorIdSigue
<1>8. ASSUME NEW e \in Encargados, \/ GuardaFavorito(e) \/ GuardaLecturas(e)
                                   \/ ObtenerResumen(e) \/ CuentaNoLeidas(e)
      PROVE NovedadesInv'
  BY <1>8, GuardaFavoritoSigue, GuardaLecturasSigue, ObtenerSigue, CuentaSigue
<1>9. ASSUME NEW n \in NovedadIds, DesactivarEvento(n) PROVE NovedadesInv'  BY <1>9, DesactivaSigue
<1> QED BY <1>1, <1>2, <1>3, <1>4, <1>5, <1>6, <1>7, <1>8, <1>9, CrearEventoSigue, CaducaSigue
       DEF NovedadesNext

LEMMA NovedadesCumplen == NovedadesInv => NovedadesAlDia
<1> SUFFICES ASSUME NovedadesInv PROVE NovedadesAlDia  OBVIOUS
<1>1. ASSUME resumen # SinResumen, ~solapoResumen
      PROVE DOMAIN resumen = favoritos /\ \A l \in favoritos : resumen[l] \cap marcadas = {}
  BY <1>1 DEF NovedadesInv, Resumido, Contado
<1>2. ASSUME ~publicaFallo, NEW p \in PromoIds PROVE Anunciada(p)
  BY <1>2 DEF NovedadesInv, Publicado
<1> QED BY <1>1, <1>2 DEF NovedadesAlDia, Anunciada

LEMMA NovedadesSiempre == NovedadesSpec => []NovedadesInv
  BY NovedadesEmpieza, NovedadesPaso, PTL DEF NovedadesSpec

HIDE NovedadesDatos
--------------------
(* Soporte.  A ticket keeps what it was written with; what an update is     *)
(* about to save is what the panel will have said of the ticket, while none *)
(* overlapped it.                                                           *)
LEMMA SoporteDatos ==
    /\ Anonimo \notin Solicitantes /\ NoNegocio \notin Solicitantes /\ NoAgente \notin Agentes
    /\ MaxTickets \in Nat /\ MaxPeticionesSoporte \in Nat
  BY SoporteAssumption DEF SoporteAssumption
USE SoporteDatos

\* What holds of a row and of what is about to be one.
TicketBien(t) ==
    /\ t.tipo = "reporte_bug" => t.prioridad = "normal"
    /\ t.tipo = "solicitud_negocio" =>
         t.usuario # Anonimo /\ t.negocio \in {NoNegocio, NegocioDe[t.usuario]}
    /\ t.estado = "resuelto" => t.resueltoAt
    /\ t.estado = "cerrado" => t.cerradoAt
ComoSeDijo(t, r) ==
    t.estado = r.estado /\ t.respuesta = r.respuesta /\ ((t.agente # NoAgente) <=> r.agente)
FoliosUnicos == \A i, j \in DOMAIN ticket : ticket[i].folio = ticket[j].folio => i = j
EnVentanilla(w) ==
    /\ w.paso # "libre" => TicketBien(w.fila)
    /\ w.paso = "inserta" => ComoSeDijo(w.fila, PorAtender)
    /\ w.paso = "atiende" => w.id \in DOMAIN ticket /\ w.fila.folio = ticket[w.id].folio
Atendido(i) ==
    /\ \A v, w \in Ventanillas : ventanilla[v].id = i /\ ventanilla[w].id = i => v = w
    /\ ComoSeDijo(ticket[i], respondido[i])
    /\ \A v \in Ventanillas : ventanilla[v].id = i =>
          ComoSeDijo(ventanilla[v].fila, ConCambios(respondido[i], ventanilla[v].cambios))
SoporteInv ==
    /\ SoporteTypeOK /\ FoliosUnicos
    /\ \A i \in DOMAIN ticket : TicketBien(ticket[i])
    /\ \A v \in Ventanillas : EnVentanilla(ventanilla[v])
    /\ \A i \in DOMAIN ticket \ solapados : Atendido(i)

LEMMA VentanillaForma ==
    ASSUME SoporteTypeOK, NEW v \in Ventanillas
    PROVE  LET w == ventanilla[v]
           IN  /\ w.paso = "libre" => w = SinVentanilla /\ w.id = 0
               /\ w.paso = "inserta" => w.id = 0 /\ w.fila \in Ticket
               /\ w.paso = "atiende" => /\ w.id \in 1 .. MaxTickets /\ w.fila \in Ticket
                                         /\ w.cambios \in Cambios
               /\ w.paso \in {"libre", "inserta", "atiende"}
  BY DEF SoporteTypeOK, Ventanilla, SinVentanilla

LEMMA SoporteFormas ==
    ASSUME SoporteTypeOK
    PROVE  /\ ticket \in Seq(Ticket) /\ Len(ticket) \in Nat /\ DOMAIN ticket = 1 .. Len(ticket)
           /\ respondido \in Seq(Dicho) /\ Len(respondido) = Len(ticket)
           /\ DOMAIN respondido = DOMAIN ticket
           /\ \A i \in DOMAIN ticket : /\ ticket[i] \in Ticket /\ respondido[i] \in Dicho
                                        /\ respondido[i].agente \in BOOLEAN
           /\ ventanilla \in [Ventanillas -> Ventanilla \cup {SinVentanilla}]
<1>1. /\ ticket \in Seq(Ticket) /\ respondido \in Seq(Dicho) /\ Len(respondido) = Len(ticket)
      /\ ventanilla \in [Ventanillas -> Ventanilla \cup {SinVentanilla}]
  BY DEF SoporteTypeOK, Dicho
<1>2. Len(ticket) \in Nat /\ DOMAIN ticket = 1 .. Len(ticket) /\ DOMAIN respondido = DOMAIN ticket
  BY <1>1
<1>3. \A i \in DOMAIN ticket : ticket[i] \in Ticket /\ respondido[i] \in Dicho  BY <1>1, <1>2
<1>4. \A d \in Dicho : d.agente \in BOOLEAN  BY DEF Dicho
<1> QED BY <1>1, <1>2, <1>3, <1>4

LEMMA SoporteEmpieza == SoporteInit => SoporteInv
<1> SUFFICES ASSUME SoporteInit PROVE SoporteInv  OBVIOUS
<1>1. /\ ticket \in Seq(Ticket) /\ Len(ticket) <= MaxTickets /\ FoliosUnicos
      /\ \A i \in DOMAIN ticket : DeAlta(ticket[i])
  BY SoporteAssumption DEF SoporteAssumption, SoporteInit, FoliosUnicos
<1>2. ventanilla = [v \in Ventanillas |-> SinVentanilla] /\ solapados = {}
      /\ respondido = [i \in DOMAIN ticket |-> PorAtender] /\ peticionesSoporte = 0
      /\ vivos = Solicitantes \cup Negocios
  BY DEF SoporteInit
<1>3. Len(ticket) \in Nat /\ DOMAIN ticket = 1 .. Len(ticket)  BY <1>1
<1>4. PorAtender \in Dicho
  BY DEF PorAtender, EstadoTicket, Respuestas, Dicho
<1>5. respondido \in Seq(Dicho)
      /\ Len(respondido) = Len(ticket)
  BY <1>2, <1>3, <1>4
<1>6. ventanilla \in [Ventanillas -> Ventanilla \cup {SinVentanilla}] /\ 0 \in Respuestas
  BY <1>2 DEF Respuestas
<1>7. SoporteTypeOK  BY <1>1, <1>2, <1>5, <1>6 DEF SoporteTypeOK
<1>8. \A i \in DOMAIN ticket : TicketBien(ticket[i]) /\ ComoSeDijo(ticket[i], PorAtender)
  BY <1>1 DEF DeAlta, TicketBien, ComoSeDijo, PorAtender
<1>9. \A v \in Ventanillas : ventanilla[v].paso = "libre" /\ ventanilla[v].id = 0
  BY <1>2 DEF SinVentanilla
<1>10. \A v \in Ventanillas : EnVentanilla(ventanilla[v])  BY <1>9 DEF EnVentanilla
<1>11. \A i \in DOMAIN ticket : Atendido(i)  BY <1>2, <1>3, <1>8, <1>9 DEF Atendido
<1> QED BY <1>1, <1>7, <1>8, <1>10, <1>11 DEF SoporteInv

\* A request is admitted.
LEMMA SoporteCrea ==
    ASSUME SoporteInv, NEW v \in Ventanillas, NEW tipo \in TipoTicket,
           NEW quien \in Solicitantes \cup {Anonimo}, NEW negocio \in Negocios \cup {NoNegocio},
           NEW pedida \in PrioridadTicket, CrearTicket(v, tipo, quien, negocio, pedida)
    PROVE  SoporteInv'
<1>1. PICK f \in Folios : \A g \in Folios : g <= f  BY SoporteAssumption DEF SoporteAssumption
<1>2. FolioDeReloj \in Folios  BY <1>1 DEF FolioDeReloj
<1>3. PICK folio \in GenerarFolioUnico : ventanilla' = [ventanilla EXCEPT ![v] =
             [paso |-> "inserta", id |-> 0,
              fila |-> [folio |-> folio, tipo |-> tipo, usuario |-> quien,
                        negocio |-> negocio,
                        prioridad |-> IF tipo = "reporte_bug" THEN "normal" ELSE pedida,
                        estado |-> "pendiente", respuesta |-> 0, agente |-> NoAgente,
                        resueltoAt |-> FALSE, cerradoAt |-> FALSE]]]
  BY DEF CrearTicket
<1>4. folio \in Folios  BY <1>2 DEF GenerarFolioUnico
<1>5. PICK t : t = [folio |-> folio, tipo |-> tipo, usuario |-> quien, negocio |-> negocio,
                    prioridad |-> IF tipo = "reporte_bug" THEN "normal" ELSE pedida,
                    estado |-> "pendiente", respuesta |-> 0, agente |-> NoAgente,
                    resueltoAt |-> FALSE, cerradoAt |-> FALSE]
  OBVIOUS
<1>6. t \in Ticket  BY <1>4, <1>5 DEF Ticket, EstadoTicket, PrioridadTicket, Respuestas
<1>7. TicketBien(t)  BY <1>5 DEF TicketBien, CrearTicket, Admitida, TipoTicket
<1>8. PICK w : w = [paso |-> "inserta", id |-> 0, fila |-> t]  OBVIOUS
<1>9. ventanilla' = [ventanilla EXCEPT ![v] = w] /\ w \in Ventanilla
  BY <1>3, <1>5, <1>6, <1>8 DEF Ventanilla
<1>10. /\ UNCHANGED <<ticket, vivos, respondido, solapados>> /\ ventanilla[v] = SinVentanilla
       /\ peticionesSoporte' \in Respuestas
  BY DEF CrearTicket, NuevaPeticion, SoporteInv, SoporteTypeOK, Respuestas
<1>11. SoporteTypeOK'  BY <1>9, <1>10 DEF SoporteInv, SoporteTypeOK
<1>12. \A o \in Ventanillas : ventanilla'[o] = IF o = v THEN w ELSE ventanilla[o]
  BY <1>9 DEF SoporteInv, SoporteTypeOK
<1>13. \A o \in Ventanillas : EnVentanilla(ventanilla[o])'
  <2>1. ComoSeDijo(t, PorAtender)  BY <1>5 DEF ComoSeDijo, PorAtender
  <2> QED BY <1>7, <1>8, <1>10, <1>12, <2>1 DEF EnVentanilla, SoporteInv
<1>14. \A i \in DOMAIN ticket : i # 0  BY DEF SoporteInv, SoporteTypeOK
<1>15. ventanilla[v].id = 0 /\ w.id = 0  BY <1>8, <1>10 DEF SinVentanilla
<1>16. ASSUME NEW i \in DOMAIN ticket \ solapados PROVE Atendido(i)'
  BY <1>14, <1>12, <1>15, <1>10 DEF SoporteInv, Atendido
<1> QED BY <1>10, <1>11, <1>13, <1>16 DEF SoporteInv, FoliosUnicos

LEMMA SoporteGuarda ==
    ASSUME SoporteInv, NEW v \in Ventanillas, GuardaTicket(v) PROVE SoporteInv'
<1>1. /\ ventanilla[v].paso = "inserta" /\ ventanilla' = [ventanilla EXCEPT ![v] = SinVentanilla]
      /\ UNCHANGED <<vivos, peticionesSoporte, solapados>> /\ Len(ticket) < MaxTickets
  BY DEF GuardaTicket
<1>2. PICK t : t = ventanilla[v].fila  OBVIOUS
<1>3. t \in Ticket /\ ventanilla[v].id = 0 /\ TicketBien(t)
      /\ ComoSeDijo(t, PorAtender)
  BY <1>1, <1>2, VentanillaForma DEF SoporteInv, EnVentanilla
<1>4. \A o \in Ventanillas : ventanilla'[o] = IF o = v THEN SinVentanilla ELSE ventanilla[o]
  BY <1>1 DEF SoporteInv, SoporteTypeOK
<1>5. /\ ticket \in Seq(Ticket) /\ Len(ticket) \in Nat /\ DOMAIN ticket = 1 .. Len(ticket)
      /\ respondido \in Seq(Dicho)
      /\ Len(respondido) = Len(ticket)
  BY DEF SoporteInv, SoporteTypeOK
<1>6. ventanilla' \in [Ventanillas -> Ventanilla \cup {SinVentanilla}]
  BY <1>1 DEF SoporteInv, SoporteTypeOK
<1>7. SinVentanilla.id = 0 /\ SinVentanilla.paso = "libre"  BY DEF SinVentanilla
<1>8. \A i \in Nat \ {0} :
        \A o \in Ventanillas : /\ ventanilla'[o].id = i => ventanilla'[o] = ventanilla[o]
                               /\ ventanilla[o].id = i => ventanilla'[o] = ventanilla[o]
  BY <1>3, <1>4, <1>7
<1>9. CASE ExisteFolio(t.folio)
  <2>1. ticket' = ticket /\ respondido' = respondido  BY <1>2, <1>9 DEF GuardaTicket
  <2>2. SoporteTypeOK'  BY <1>1, <1>6, <2>1 DEF SoporteInv, SoporteTypeOK
  <2>3. \A o \in Ventanillas : EnVentanilla(ventanilla[o])'
    BY <1>4, <1>7, <2>1 DEF EnVentanilla, SoporteInv
  <2>4. ASSUME NEW i \in DOMAIN ticket \ solapados PROVE Atendido(i)'
    BY <1>5, <1>8, <2>1 DEF SoporteInv, Atendido
  <2> QED BY <1>1, <2>1, <2>2, <2>3, <2>4 DEF SoporteInv, FoliosUnicos
<1>10. CASE ~ExisteFolio(t.folio)
  <2>1. ticket' = Append(ticket, t) /\ respondido' = Append(respondido, PorAtender)
    BY <1>2, <1>10 DEF GuardaTicket
  <2>2. PICK n : n = Len(ticket) + 1  OBVIOUS
  <2>3. /\ ticket' \in Seq(Ticket) /\ Len(ticket') = n /\ DOMAIN ticket' = 1 .. n
        /\ ticket'[n] = t /\ \A i \in DOMAIN ticket : ticket'[i] = ticket[i]
        /\ DOMAIN ticket' = DOMAIN ticket \cup {n} /\ n \in Nat \ {0}
    BY <1>3, <1>5, <2>1, <2>2
  <2>4. PorAtender \in Dicho
    BY DEF PorAtender, EstadoTicket, Respuestas, Dicho
  <2>5. /\ respondido' \in Seq(Dicho)
        /\ Len(respondido') = n /\ respondido'[n] = PorAtender
        /\ \A i \in DOMAIN ticket : respondido'[i] = respondido[i]
    BY <1>5, <2>1, <2>2, <2>4
  <2>6. n <= MaxTickets  BY <1>1, <1>5, <2>2
  <2>7. SoporteTypeOK'  BY <1>1, <1>6, <2>3, <2>5, <2>6 DEF SoporteInv, SoporteTypeOK
  <2>8. FoliosUnicos'  BY <1>10, <2>3 DEF ExisteFolio, SoporteInv, FoliosUnicos
  <2>9. \A i \in DOMAIN ticket' : TicketBien(ticket'[i])  BY <1>3, <2>3 DEF SoporteInv
  <2>10. \A o \in Ventanillas : EnVentanilla(ventanilla[o])'
    <3>1. ASSUME NEW o \in Ventanillas, o # v PROVE EnVentanilla(ventanilla[o])'
      BY <1>4, <3>1, <2>3 DEF SoporteInv, EnVentanilla
    <3>2. EnVentanilla(ventanilla[v])'  BY <1>4, <1>7 DEF EnVentanilla
    <3> QED BY <3>1, <3>2
  <2>11. ASSUME NEW i \in DOMAIN ticket' \ solapados' PROVE Atendido(i)'
    <3>1. CASE i \in DOMAIN ticket
      BY <1>1, <1>5, <2>11, <3>1, <2>3, <2>5, <1>8 DEF SoporteInv, Atendido
    <3>2. CASE i = n
      <4>1. \A o \in Ventanillas : ventanilla[o].id # n
        BY <1>5, <2>2, VentanillaForma, <2>3 DEF SoporteInv, EnVentanilla
      <4>2. \A o \in Ventanillas : ventanilla'[o].id # n  BY <1>8, <2>3, <4>1
      <4> QED BY <1>3, <2>3, <2>5, <3>2, <4>2 DEF Atendido
    <3> QED BY <2>3, <2>11, <3>1, <3>2
  <2> QED BY <2>7, <2>8, <2>9, <2>10, <2>11 DEF SoporteInv
<1> QED BY <1>9, <1>10

\* What an update leaves of the ticket it read.
Anotado(t, estado, agente, yo) == ConAgente(ConEstado(t, estado), estado, agente, yo)
AnotadoDe(t, c, estado, agente) ==
    /\ c \in Ticket /\ TicketBien(c) /\ c.folio = t.folio /\ c.respuesta = t.respuesta
    /\ c.estado = IF estado = "ausente" THEN t.estado ELSE estado
    /\ agente # "ausente" => ((c.agente # NoAgente) <=> agente \in Agentes)
    /\ agente = "ausente" =>
         ((c.agente # NoAgente) <=> (estado = "en_atencion" \/ t.agente # NoAgente))
LEMMA AnotadoBien ==
    ASSUME NEW t \in Ticket, TicketBien(t), NEW estado \in EstadoTicket \cup {"ausente"},
           NEW agente \in Agentes \cup {NoAgente, "ausente"}, NEW yo \in Agentes
    PROVE  AnotadoDe(t, Anotado(t, estado, agente, yo), estado, agente)
<1>0. PICK c : c = Anotado(t, estado, agente, yo)  OBVIOUS
<1>1. PICK e : e = ConEstado(t, estado)  OBVIOUS
<1>2. /\ e \in Ticket /\ TicketBien(e) /\ e.folio = t.folio /\ e.agente = t.agente
      /\ e.respuesta = t.respuesta /\ e.estado = IF estado = "ausente" THEN t.estado ELSE estado
  <2>1. CASE estado = "ausente"  BY <1>1, <2>1 DEF ConEstado
  <2>2. CASE estado # "ausente"
    <3>1. estado \in EstadoTicket  BY <2>2
    <3>2. e = [t EXCEPT !.estado = estado, !.resueltoAt = t.resueltoAt \/ estado = "resuelto",
                        !.cerradoAt = t.cerradoAt \/ estado = "cerrado"]
      BY <1>1, <2>2 DEF ConEstado
    <3>3. PICK a \in BOOLEAN, b \in BOOLEAN :
            (a <=> t.resueltoAt \/ estado = "resuelto") /\ (b <=> t.cerradoAt \/ estado = "cerrado")
            /\ e = [t EXCEPT !.estado = estado, !.resueltoAt = a, !.cerradoAt = b]
      BY <3>2
    <3>4. /\ e \in Ticket /\ e.estado = estado /\ e.resueltoAt = a /\ e.cerradoAt = b
          /\ e.folio = t.folio /\ e.agente = t.agente /\ e.tipo = t.tipo
          /\ e.prioridad = t.prioridad /\ e.usuario = t.usuario /\ e.negocio = t.negocio
          /\ e.respuesta = t.respuesta
      BY <3>1, <3>3 DEF Ticket
    <3> QED BY <2>2, <3>3, <3>4 DEF TicketBien
  <2> QED BY <2>1, <2>2
<1>4. PICK g \in Agentes \cup {NoAgente} :
        /\ c = [e EXCEPT !.agente = g]
        /\ agente # "ausente" => g = agente
        /\ agente = "ausente" => g = IF estado = "en_atencion" /\ e.agente = NoAgente
                                      THEN yo ELSE e.agente
  BY <1>0, <1>1, <1>2 DEF Anotado, ConAgente, Ticket
<1>6. /\ c \in Ticket /\ c.folio = e.folio /\ c.agente = g /\ c.tipo = e.tipo
      /\ c.prioridad = e.prioridad /\ c.usuario = e.usuario /\ c.negocio = e.negocio
      /\ c.estado = e.estado /\ c.resueltoAt = e.resueltoAt /\ c.cerradoAt = e.cerradoAt
      /\ c.respuesta = e.respuesta
  BY <1>2, <1>4 DEF Ticket
<1>7. TicketBien(c)  BY <1>2, <1>6 DEF TicketBien
<1> QED BY <1>0, <1>2, <1>4, <1>6, <1>7 DEF AnotadoDe

LEMMA SoporteAtiende ==
    ASSUME SoporteInv, NEW v \in Ventanillas, NEW id \in 1 .. MaxTickets,
           NEW estado \in EstadoTicket \cup {"ausente"}, NEW responde \in BOOLEAN,
           NEW agente \in Agentes \cup {NoAgente, "ausente"}, NEW yo \in Agentes,
           ActualizarAdmin(v, id, estado, responde, agente, yo)
    PROVE  SoporteInv'
<1>1. /\ ticket \in Seq(Ticket) /\ Len(ticket) \in Nat /\ DOMAIN ticket = 1 .. Len(ticket)
      /\ respondido \in Seq(Dicho) /\ Len(respondido) = Len(ticket)
      /\ ventanilla \in [Ventanillas -> Ventanilla \cup {SinVentanilla}]
      /\ \A i \in DOMAIN ticket : /\ ticket[i] \in Ticket /\ respondido[i] \in Dicho
                                   /\ respondido[i].agente \in BOOLEAN
  BY SoporteFormas DEF SoporteInv
<1>2. /\ id \in DOMAIN ticket /\ ventanilla[v] = SinVentanilla
      /\ UNCHANGED <<ticket, vivos>> /\ peticionesSoporte + 1 \in Respuestas
      /\ peticionesSoporte' = peticionesSoporte + 1
  <2>1. /\ id \in DOMAIN ticket /\ ventanilla[v] = SinVentanilla
        /\ UNCHANGED <<ticket, vivos>> /\ peticionesSoporte < MaxPeticionesSoporte
        /\ peticionesSoporte' = peticionesSoporte + 1
    BY DEF ActualizarAdmin, NuevaPeticion
  <2>2. peticionesSoporte \in 0 .. MaxPeticionesSoporte
    BY DEF SoporteInv, SoporteTypeOK, Respuestas
  <2>3. peticionesSoporte + 1 \in Respuestas
    BY ONLY MaxPeticionesSoporte \in Nat, <2>1, <2>2 DEF Respuestas
  <2> QED BY ONLY <2>1, <2>3
<1>3. PICK t : t = ticket[id]  OBVIOUS
<1>4. t \in Ticket /\ TicketBien(t)  BY <1>1, <1>2, <1>3 DEF SoporteInv
<1>50. PICK n \in Respuestas : n = peticionesSoporte + 1  BY <1>2
<1>51. PICK c : c = Anotado(t, estado, agente, yo)  OBVIOUS
<1>52. AnotadoDe(t, c, estado, agente)  BY <1>4, <1>51, AnotadoBien
<1>53. PICK m \in Respuestas : m = IF responde THEN n ELSE c.respuesta
  BY <1>52 DEF AnotadoDe, Ticket
<1>5. PICK f : f = [c EXCEPT !.respuesta = m]  OBVIOUS
<1>54. f = [Anotado(t, estado, agente, yo) EXCEPT
              !.respuesta = IF responde THEN peticionesSoporte + 1 ELSE @]
  BY <1>50, <1>51, <1>53, <1>5
<1>6. /\ f \in Ticket /\ TicketBien(f) /\ f.folio = t.folio
      /\ f.estado = IF estado = "ausente" THEN t.estado ELSE estado
      /\ f.respuesta = IF responde THEN n ELSE t.respuesta
      /\ agente # "ausente" => ((f.agente # NoAgente) <=> agente \in Agentes)
      /\ agente = "ausente" =>
           ((f.agente # NoAgente) <=> (estado = "en_atencion" \/ t.agente # NoAgente))
  BY <1>52, <1>53, <1>5 DEF AnotadoDe, Ticket, TicketBien
<1>11. PICK g \in {"ausente", "alguien", "nadie"} :
         g = IF agente = "ausente" THEN IF estado = "en_atencion" THEN "alguien" ELSE "ausente"
             ELSE IF agente \in Agentes THEN "alguien" ELSE "nadie"
  <2>1. CASE agente = "ausente" /\ estado = "en_atencion"  BY <2>1
  <2>2. CASE agente = "ausente" /\ estado # "en_atencion"  BY <2>2
  <2>3. CASE agente # "ausente" /\ agente \in Agentes  BY <2>3
  <2>4. CASE agente # "ausente" /\ agente \notin Agentes  BY <2>4
  <2> QED BY <2>1, <2>2, <2>3, <2>4
<1>55. PICK k \in Respuestas : k = IF responde THEN n ELSE 0  BY DEF Respuestas
<1>12. PICK x : x = [estado |-> estado, respuesta |-> k, agente |-> g]  OBVIOUS
<1>7. PICK w : w = [paso |-> "atiende", id |-> id, fila |-> f, cambios |-> x]  OBVIOUS
<1>13. x = [estado |-> estado, respuesta |-> IF responde THEN peticionesSoporte + 1 ELSE 0,
            agente |-> IF agente = "ausente"
                       THEN IF estado = "en_atencion" THEN "alguien" ELSE "ausente"
                       ELSE IF agente \in Agentes THEN "alguien" ELSE "nadie"]
  BY <1>11, <1>12, <1>50, <1>55
<1>8. ventanilla' = [ventanilla EXCEPT ![v] = w]
  BY <1>3, <1>54, <1>7, <1>13 DEF ActualizarAdmin, Anotado
<1>14. x \in Cambios  BY <1>12 DEF Cambios
<1>9. w \in Ventanilla  BY <1>6, <1>7, <1>14 DEF Ventanilla
<1>10. \A o \in Ventanillas : ventanilla'[o] = IF o = v THEN w ELSE ventanilla[o]  BY <1>1, <1>8
<1>15. UNCHANGED respondido  BY DEF ActualizarAdmin
<1>16. solapados' = IF \E o \in Ventanillas : ventanilla[o].id = id
                    THEN solapados \cup {id} ELSE solapados
  BY DEF ActualizarAdmin
<1>17. SoporteTypeOK'  BY <1>2, <1>8, <1>9, <1>15, <1>16 DEF SoporteInv, SoporteTypeOK
<1>18. \A o \in Ventanillas : EnVentanilla(ventanilla[o])'
  <2>1. EnVentanilla(ventanilla[v])'  BY <1>2, <1>3, <1>6, <1>7, <1>10 DEF EnVentanilla
  <2>2. ASSUME NEW o \in Ventanillas, o # v PROVE EnVentanilla(ventanilla[o])'
    BY <1>2, <1>10, <2>2 DEF EnVentanilla, SoporteInv
  <2> QED BY <2>1, <2>2
<1>19. ventanilla[v].id = 0 /\ w.id = id /\ w.fila = f /\ w.cambios = x
  BY <1>2, <1>7 DEF SinVentanilla
<1>20. ASSUME NEW i \in DOMAIN ticket \ solapados' PROVE Atendido(i)'
  <2>1. Atendido(i) /\ i # 0  BY <1>1, <1>16, <1>20 DEF SoporteInv
  <2>2. CASE i # id  BY <1>10, <1>19, <2>2, <2>1, <1>2, <1>15 DEF Atendido
  <2>3. CASE i = id
    <3>1. \A o \in Ventanillas : ventanilla[o].id # id  BY <1>16, <1>20, <2>3
    <3>2. PICK r : r = respondido[id]  OBVIOUS
    <3>3. ComoSeDijo(t, r)  BY <1>3, <2>1, <2>3, <3>2 DEF Atendido
    <3>4. PICK d : d = ConCambios(r, x)  OBVIOUS
    <3>5. /\ d.estado = IF estado = "ausente" THEN r.estado ELSE estado
          /\ d.respuesta = IF k = 0 THEN r.respuesta ELSE k
          /\ d.agente = IF g = "ausente" THEN r.agente ELSE g = "alguien"
      BY <1>12, <3>4 DEF ConCambios
    <3>6. r.agente \in BOOLEAN /\ n # 0
      BY <1>1, <1>2, <1>50, <3>2 DEF SoporteInv, SoporteTypeOK, Respuestas
    <3>7. f.estado = d.estado /\ f.respuesta = d.respuesta
      BY <1>55, <1>6, <3>3, <3>5, <3>6 DEF ComoSeDijo
    <3>8. (f.agente # NoAgente) <=> d.agente
      BY <1>6, <1>11, <3>3, <3>5, <3>6 DEF ComoSeDijo
    <3>9. ComoSeDijo(f, d)  BY <3>7, <3>8 DEF ComoSeDijo
    <3>10. \A o \in Ventanillas : ventanilla'[o].id = id <=> o = v  BY <1>10, <1>19, <3>1
    <3>11. ventanilla'[v].fila = f /\ ventanilla'[v].cambios = x  BY <1>10, <1>19
    <3> QED BY <1>2, <1>3, <1>15, <2>3, <3>2, <3>3, <3>4, <3>9, <3>10, <3>11 DEF Atendido
  <2> QED BY <2>2, <2>3
<1> QED BY <1>2, <1>17, <1>18, <1>20 DEF SoporteInv, FoliosUnicos

LEMMA SoporteGuardaAtencion ==
    ASSUME SoporteInv, NEW v \in Ventanillas, GuardaAtencion(v) PROVE SoporteInv'
<1>1. /\ ventanilla[v].paso = "atiende" /\ ventanilla' = [ventanilla EXCEPT ![v] = SinVentanilla]
      /\ ticket' = [ticket EXCEPT ![ventanilla[v].id] = ventanilla[v].fila]
      /\ respondido' = [respondido EXCEPT ![ventanilla[v].id] =
                           ConCambios(@, ventanilla[v].cambios)]
      /\ UNCHANGED <<vivos, peticionesSoporte, solapados>>
  BY DEF GuardaAtencion
<1>2. PICK t, k : t = ventanilla[v].fila /\ k = ventanilla[v].id  OBVIOUS
<1>20. PICK c : c = ventanilla[v].cambios  OBVIOUS
<1>21. PICK d : d = ConCambios(respondido[k], c)  OBVIOUS
<1>3. /\ t \in Ticket /\ TicketBien(t) /\ k \in DOMAIN ticket /\ t.folio = ticket[k].folio
  BY <1>1, <1>2, VentanillaForma DEF SoporteInv, EnVentanilla
<1>4. /\ ticket \in Seq(Ticket) /\ Len(ticket) \in Nat /\ DOMAIN ticket = 1 .. Len(ticket)
      /\ ventanilla \in [Ventanillas -> Ventanilla \cup {SinVentanilla}]
  BY DEF SoporteInv, SoporteTypeOK
<1>5. \A o \in Ventanillas : ventanilla'[o] = IF o = v THEN SinVentanilla ELSE ventanilla[o]
  BY <1>1, <1>4
<1>6. /\ ticket' \in Seq(Ticket) /\ Len(ticket') = Len(ticket) /\ DOMAIN ticket' = DOMAIN ticket
      /\ \A i \in DOMAIN ticket : ticket'[i] = IF i = k THEN t ELSE ticket[i]
  BY <1>1, <1>2, <1>3, <1>4
<1>22. /\ respondido \in Seq(Dicho) /\ Len(respondido) = Len(ticket) /\ respondido[k] \in Dicho
       /\ respondido' = [respondido EXCEPT ![k] = d]
  BY <1>1, <1>2, <1>3, <1>20, <1>21, SoporteFormas DEF SoporteInv
<1>23. c \in Cambios  BY <1>1, <1>20, VentanillaForma DEF SoporteInv
<1>24. d \in Dicho
  <2>1. PICK r \in Dicho : r = respondido[k]  BY <1>22
  <2>2. PICK e \in EstadoTicket : e = IF c.estado = "ausente" THEN r.estado ELSE c.estado
    BY <1>23, <2>1 DEF Dicho, Cambios
  <2>3. PICK m \in Respuestas : m = IF c.respuesta = 0 THEN r.respuesta ELSE c.respuesta
    BY <1>23, <2>1 DEF Dicho, Cambios
  <2>4. PICK a : a = IF c.agente = "ausente" THEN r.agente ELSE c.agente = "alguien"  OBVIOUS
  <2>5. r.agente \in BOOLEAN  BY <2>1 DEF Dicho
  <2>6. a \in BOOLEAN
    <3>1. CASE c.agente = "ausente"  BY <2>4, <2>5, <3>1
    <3>2. CASE c.agente # "ausente"  BY <2>4, <3>2
    <3> QED BY <3>1, <3>2
  <2>7. d = [estado |-> e, respuesta |-> m, agente |-> a]
    BY ONLY <1>21, <2>1, <2>2, <2>3, <2>4, Zenon DEF ConCambios
  <2> QED BY <2>6, <2>7 DEF Dicho
<1>25. /\ respondido' \in Seq(Dicho) /\ Len(respondido') = Len(ticket)
       /\ \A i \in DOMAIN ticket : respondido'[i] = IF i = k THEN d ELSE respondido[i]
  BY <1>3, <1>4, <1>22, <1>24
<1>7. SoporteTypeOK'  BY <1>1, <1>4, <1>6, <1>25 DEF SoporteInv, SoporteTypeOK
<1>8. \A i \in DOMAIN ticket : ticket'[i].folio = ticket[i].folio /\ TicketBien(ticket'[i])
  BY <1>3, <1>6 DEF SoporteInv
<1>9. SinVentanilla.id = 0 /\ SinVentanilla.paso = "libre"  BY DEF SinVentanilla
<1>10. \A o \in Ventanillas : EnVentanilla(ventanilla[o])'
  <2>1. ASSUME NEW o \in Ventanillas, o # v PROVE EnVentanilla(ventanilla[o])'
    BY <1>5, <2>1, <1>6, <1>8 DEF SoporteInv, EnVentanilla
  <2>2. EnVentanilla(ventanilla[v])'  BY <1>5, <1>9 DEF EnVentanilla
  <2> QED BY <2>1, <2>2
<1>11. ASSUME NEW i \in DOMAIN ticket \ solapados PROVE Atendido(i)'
  <2>1. Atendido(i) /\ i # 0  BY <1>4 DEF SoporteInv
  <2>2. \A o \in Ventanillas : ventanilla'[o].id = i =>
          o # v /\ ventanilla'[o] = ventanilla[o] /\ ventanilla[o].id = i
    BY <1>5, <1>9, <2>1
  <2>3. CASE i = k
    <3>1. ComoSeDijo(t, d)  BY <1>2, <1>20, <1>21, <2>1, <2>3 DEF Atendido
    <3>2. \A o \in Ventanillas : ventanilla'[o].id # k  BY <1>2, <2>1, <2>2, <2>3 DEF Atendido
    <3> QED BY <1>6, <1>25, <2>3, <3>1, <3>2 DEF Atendido
  <2>4. CASE i # k  BY <2>4, <1>6, <1>25, <2>1, <2>2 DEF Atendido
  <2> QED BY <2>3, <2>4
<1>12. FoliosUnicos'  BY <1>6, <1>8 DEF SoporteInv, FoliosUnicos
<1> QED BY <1>1, <1>6, <1>7, <1>8, <1>10, <1>11, <1>12 DEF SoporteInv

\* A save that rejects leaves the ticket to whoever asks next.
LEMMA SoporteFalla ==
    ASSUME SoporteInv, NEW v \in Ventanillas, FallaGuardar(v) PROVE SoporteInv'
<1>1. /\ ventanilla' = [ventanilla EXCEPT ![v] = SinVentanilla]
      /\ UNCHANGED <<ticket, vivos, peticionesSoporte, respondido, solapados>>
  BY DEF FallaGuardar
<1>2. SinVentanilla.id = 0 /\ SinVentanilla.paso = "libre"  BY DEF SinVentanilla
<1>3. \A o \in Ventanillas : ventanilla'[o] = IF o = v THEN SinVentanilla ELSE ventanilla[o]
  BY <1>1 DEF SoporteInv, SoporteTypeOK
<1>4. SoporteTypeOK'  BY <1>1 DEF SoporteInv, SoporteTypeOK
<1>5. \A o \in Ventanillas : EnVentanilla(ventanilla[o])'
  BY <1>1, <1>2, <1>3 DEF SoporteInv, EnVentanilla
<1>6. ASSUME NEW i \in DOMAIN ticket \ solapados PROVE Atendido(i)'
  <2>1. Atendido(i) /\ i # 0  BY SoporteFormas DEF SoporteInv
  <2>2. \A o \in Ventanillas : ventanilla'[o].id = i =>
          ventanilla'[o] = ventanilla[o] /\ ventanilla[o].id = i
    BY <1>2, <1>3, <2>1
  <2> QED BY <1>1, <2>1, <2>2 DEF Atendido
<1> QED BY <1>1, <1>4, <1>5, <1>6 DEF SoporteInv, FoliosUnicos

LEMMA SoporteSigue == SoporteInv /\ [SoporteNext]_soporteVars => SoporteInv'
<1> SUFFICES ASSUME SoporteInv, [SoporteNext]_soporteVars PROVE SoporteInv'  OBVIOUS
<1>1. CASE UNCHANGED <<ticket, ventanilla, peticionesSoporte, respondido, solapados>>
           /\ vivos' \subseteq vivos
  BY <1>1 DEF SoporteInv, SoporteTypeOK, FoliosUnicos, EnVentanilla, Atendido
<1>2. CASE UNCHANGED soporteVars  BY <1>1, <1>2 DEF soporteVars
<1>3. ASSUME NEW x \in vivos, SeVa(x) PROVE SoporteInv'  BY <1>1, <1>3 DEF SeVa
<1> QED BY <1>2, <1>3, SoporteGuarda, SoporteGuardaAtencion, SoporteFalla, SoporteCrea,
        SoporteAtiende
        DEF SoporteNext

LEMMA SoporteSiempre == SoporteSpec => []SoporteInv
  BY SoporteEmpieza, SoporteSigue, PTL DEF SoporteSpec

\* A list holds every ticket it is of.
LEMMA EnLaLista ==
    ASSUME SoporteInv, NEW S, S \subseteq DOMAIN ticket, NEW i \in S
    PROVE  Contains(Listar(S), ticket[i])
<1> DEFINE D == [k \in S |-> {h \in S : h > k}]
<1>0. DOMAIN ticket = 1 .. Len(ticket) /\ Len(ticket) \in Nat  BY DEF SoporteInv, SoporteTypeOK
<1>00. S \subseteq Int  BY <1>0
<1>1. IsFiniteSet(S)
  <2>1. IsFiniteSet(1 .. Len(ticket))  BY <1>0, FS_Interval
  <2> QED BY <1>0, <2>1, FS_Subset
<1>2. Cardinality(S) \in Nat  BY <1>1, FS_CardinalityType
<1>3. D \in [S -> SUBSET S] /\ \A k \in S : k \notin D[k]  BY <1>00
<1>4. \A j, k \in S : j \in D[k] => D[j] \subseteq D[k]
  <2>1. ASSUME NEW j \in S, NEW k \in S, j \in D[k], NEW h \in D[j] PROVE h \in D[k]  BY <1>00, <2>1
  <2> QED BY <2>1
<1>5. \A j, k \in S : j = k \/ j \in D[k] \/ k \in D[j]  BY <1>00
<1>6. \A k \in S : D[k] = {h \in S : h > k}  OBVIOUS
<1> HIDE DEF D
<1>7. /\ \A j, k \in S : Cardinality(D[j]) = Cardinality(D[k]) => j = k
      /\ \A k \in S : Cardinality(D[k]) \in 0 .. Cardinality(S) - 1
  BY ONLY <1>1, <1>3, <1>4, <1>5, RangosDistintos
<1>8. PICK n \in 0 .. Cardinality(S) - 1 : n = Cardinality(D[i])  BY <1>7
<1>9. PICK L : L = Listar(S)  OBVIOUS
<1>10. L = [k \in 1 .. Cardinality(S) |->
              ticket[CHOOSE j \in S : Cardinality({h \in S : h > j}) = k - 1]]
  BY <1>9 DEF Listar
<1>11. n + 1 \in 1 .. Cardinality(S) /\ n + 1 - 1 = n  BY <1>2, <1>8
<1>12. Len(L) = Cardinality(S)  BY <1>2, <1>10
<1>13. PICK x : x = CHOOSE j \in S : Cardinality({h \in S : h > j}) = n  OBVIOUS
<1>14. x \in S /\ Cardinality({h \in S : h > x}) = n  BY <1>6, <1>8, <1>13
<1>15. x = i  BY <1>6, <1>7, <1>8, <1>14
<1>16. L[n + 1] = ticket[i]
  <2>1. PICK k \in 1 .. Cardinality(S) : k = n + 1 /\ k - 1 = n  BY ONLY <1>11
  <2>2. L[k] = ticket[CHOOSE j \in S : Cardinality({h \in S : h > j}) = k - 1]
    BY ONLY <1>10, <2>1, Zenon
  <2>3. L[k] = ticket[CHOOSE j \in S : Cardinality({h \in S : h > j}) = n]
    BY ONLY <2>1, <2>2, Zenon
  <2>4. L[k] = ticket[i]  BY ONLY <1>13, <1>15, <2>3, Zenon
  <2> QED BY ONLY <2>1, <2>4
<1> QED BY <1>9, <1>11, <1>12, <1>16 DEF Contains

LEMMA SoporteCumple == SoporteInv => TicketsEnRegla
<1> SUFFICES ASSUME SoporteInv, NEW i \in DOMAIN ticket
             PROVE  LET t == ticket[i]
                        solo == i \notin solapados
                    IN  /\ t.usuario # Anonimo =>
                            /\ ObtenerPorFolio(t.usuario, t.folio) = {i}
                            /\ Contains(ListarPorUsuario(t.usuario), t)
                            /\ t.tipo = "solicitud_negocio" /\ t.negocio \in vivos =>
                                  Contains(ListarPorNegocio(t.usuario, t.negocio), t)
                        /\ t.estado = "resuelto" => t.resueltoAt
                        /\ t.estado = "cerrado" => t.cerradoAt
                        /\ t.tipo = "reporte_bug" => t.prioridad = "normal"
                        /\ solo => /\ t.estado = respondido[i].estado
                                   /\ t.respuesta = respondido[i].respuesta
                                   /\ (t.agente # NoAgente) = respondido[i].agente
  BY DEF TicketsEnRegla, QuienEscribeLoEncuentra, AtencionFiel
<1>1. PICK t : t = ticket[i]  OBVIOUS
<1>2. /\ t \in Ticket /\ TicketBien(t) /\ respondido[i].agente \in BOOLEAN
  BY <1>1, SoporteFormas DEF SoporteInv
<1>3. ObtenerPorFolio(t.usuario, t.folio) = {i}
  BY <1>1 DEF ObtenerPorFolio, SoporteInv, FoliosUnicos
<1>4. Contains(ListarPorUsuario(t.usuario), t)
  <2>1. PICK S : S = {k \in DOMAIN ticket : ticket[k].usuario = t.usuario}  OBVIOUS
  <2>2. S \subseteq DOMAIN ticket /\ i \in S  BY <1>1, <2>1
  <2>3. Contains(Listar(S), ticket[i])  BY <2>2, EnLaLista
  <2> QED BY <1>1, <2>1, <2>3 DEF ListarPorUsuario
<1>5. ASSUME t.tipo = "solicitud_negocio", t.negocio \in vivos
      PROVE  Contains(ListarPorNegocio(t.usuario, t.negocio), t)
  <2>1. t.negocio # NoNegocio  BY <1>5 DEF SoporteInv, SoporteTypeOK, Negocios
  <2>2. PuedeListar(t.usuario, t.negocio)  BY <1>2, <1>5, <2>1 DEF TicketBien, PuedeListar
  <2>3. PICK S : S = {k \in DOMAIN ticket : ticket[k].negocio = t.negocio}  OBVIOUS
  <2>4. S \subseteq DOMAIN ticket /\ i \in S  BY <1>1, <2>3
  <2>5. Contains(Listar(S), ticket[i])  BY <2>4, EnLaLista
  <2> QED BY <1>1, <2>2, <2>3, <2>5 DEF ListarPorNegocio
<1>6. ASSUME i \notin solapados PROVE ComoSeDijo(t, respondido[i])
  BY <1>1, <1>6 DEF SoporteInv, Atendido
<1> QED BY <1>1, <1>2, <1>3, <1>4, <1>5, <1>6 DEF TicketBien, ComoSeDijo

HIDE SoporteDatos
=================================================================================
