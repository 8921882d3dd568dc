---------------------------- MODULE NegocioProofs ----------------------------
(* Theorems about Establecimientos, Imagenes and Sesiones: for any        *)
(* number of businesses, branches and requests at work at once, any quota  *)
(* and any number of images; and for any number of subscribers, devices,   *)
(* requests in progress, lost answers and failures.                        *)
EXTENDS Establecimientos, Imagenes, Sesiones, FiniteSetTheorems, TLAPS

USE EstablecimientosAssumption DEF EstablecimientosAssumption

--------------------
(* Establecimientos.  A business that is not exempt is worked on by one       *)
(* request at a time, so what that request has read of it still holds when *)
(* it saves.                                                               *)

\* What each request keeps of what it read.
Leida(w) ==
    LET l == llamada[w] IN
    /\ l.op = "creaNegocio" => l.id \in Negocios /\ negocio[l.id] = "libre"
    /\ l.op = "guardaNegocio" =>
          /\ l.id \in Negocios /\ negocio[l.id] # "libre" /\ l.fila.estado \in {"vivo", "eliminado"}
          /\ l.id \notin exento => negocio[l.id] = "vivo"
    /\ l.op = "alta" =>
          /\ l.id = Ninguno /\ l.fila.negocio \in Negocios /\ l.fila.estado = "vivo"
          /\ l.fila.negocio \notin exento => Cardinality(Vivas(l.fila.negocio)) < MaxSucursales
    /\ l.op = "guardaSucursal" =>
          /\ l.id \in SucursalesDelNegocio /\ sucursal[l.id].estado # "libre"
          /\ l.fila.negocio \in Negocios /\ l.fila.estado \in {"vivo", "eliminado"}
          /\ l.fila.negocio \notin exento =>
                sucursal[l.id] = [estado |-> "vivo", negocio |-> l.fila.negocio]
    /\ l.op = "nada" => l = SinLlamada

\* One request at a time.
Solas == \A w, v \in Llamadas, n \in Negocios \ exento :
            n \in NegociosDe(w) /\ n \in NegociosDe(v) => w = v

\* The businesses that are paid for: made, or being made.
Pagados == {n \in Negocios \ Cortesia : negocio[n] # "libre"
                \/ \E w \in Llamadas : llamada[w].op = "creaNegocio" /\ llamada[w].id = n}

\* No two requests make the same business.
Unicas == \A w, v \in Llamadas :
             /\ llamada[w].op = "creaNegocio" /\ llamada[v].op = "creaNegocio"
             /\ llamada[w].id = llamada[v].id
             => w = v

IInv == /\ EstablecimientosTypeOK
        /\ \A w \in Llamadas : Leida(w)
        /\ Solas /\ Unicas
        /\ \A n \in Negocios : IsFiniteSet(Vivas(n))
        /\ CupoDeSucursales /\ BorradosQuedan
        /\ IsFiniteSet(Pagados) /\ Cardinality(Pagados) <= unidades

--------------------
(* The requests.                                                           *)

LEMMA SinLlamadaType == SinLlamada \in LlamadaNegocio
  BY DEF SinLlamada, LlamadaNegocio, SucursalLibre, FilaSucursal, Estados

LEMMA Tipos ==
    ASSUME EstablecimientosTypeOK
    PROVE  /\ negocio \in [Negocios -> Estados]
           /\ sucursal \in [SucursalesDelNegocio -> FilaSucursal]
           /\ llamada \in [Llamadas -> LlamadaNegocio]
           /\ exento \subseteq Negocios /\ Ninguno \notin exento
  BY DEF EstablecimientosTypeOK

\* A request that did not act keeps what it read, if what it is about was left alone.
LEMMA LeidaSigue ==
    ASSUME IInv, NEW v \in Llamadas, NEW l, llamada[v] = l, llamada'[v] = l,
           exento \subseteq exento',
           l.op \in {"creaNegocio", "guardaNegocio"} =>
              \/ negocio'[l.id] = negocio[l.id]
              \/ l.op = "guardaNegocio" /\ l.id \in exento /\ negocio'[l.id] # "libre",
           l.op = "alta" => l.fila.negocio \in exento
                              \/ Vivas(l.fila.negocio)' \subseteq Vivas(l.fila.negocio),
           l.op = "guardaSucursal" =>
              \/ sucursal'[l.id] = sucursal[l.id]
              \/ l.fila.negocio \in exento /\ sucursal'[l.id].estado # "libre"
    PROVE  Leida(v)'
<1>1. Leida(v)  BY DEF IInv
<1>3. l.op = "alta" =>
        /\ l.id = Ninguno /\ l.fila.negocio \in Negocios /\ l.fila.estado = "vivo"
        /\ l.fila.negocio \notin exento' => Cardinality(Vivas(l.fila.negocio)') < MaxSucursales
  <2> SUFFICES ASSUME l.op = "alta", l.fila.negocio \notin exento'
               PROVE  Cardinality(Vivas(l.fila.negocio)') < MaxSucursales
    BY <1>1 DEF Leida
  <2>1. /\ l.fila.negocio \in Negocios /\ l.fila.negocio \notin exento
        /\ Cardinality(Vivas(l.fila.negocio)) < MaxSucursales
    BY <1>1 DEF Leida
  <2>2. Vivas(l.fila.negocio)' \subseteq Vivas(l.fila.negocio) /\ IsFiniteSet(Vivas(l.fila.negocio))
    BY <2>1 DEF IInv
  <2>3. /\ Cardinality(Vivas(l.fila.negocio)') <= Cardinality(Vivas(l.fila.negocio))
        /\ Cardinality(Vivas(l.fila.negocio)) \in Nat /\ Cardinality(Vivas(l.fila.negocio)') \in Nat
    BY <2>2, FS_Subset, FS_CardinalityType
  <2> QED BY <2>1, <2>3
<1>4. l.op = "creaNegocio" => l.id \in Negocios /\ negocio'[l.id] = "libre"  BY <1>1 DEF Leida
<1>5. l.op = "guardaNegocio" =>
        /\ l.id \in Negocios /\ negocio'[l.id] # "libre" /\ l.fila.estado \in {"vivo", "eliminado"}
        /\ l.id \notin exento' => negocio'[l.id] = "vivo"
  BY <1>1 DEF Leida
<1>6. l.op = "guardaSucursal" =>
        /\ l.id \in SucursalesDelNegocio /\ sucursal'[l.id].estado # "libre"
        /\ l.fila.negocio \in Negocios /\ l.fila.estado \in {"vivo", "eliminado"}
        /\ l.fila.negocio \notin exento' =>
              sucursal'[l.id] = [estado |-> "vivo", negocio |-> l.fila.negocio]
  BY <1>1 DEF Leida
<1>7. l.op = "nada" => l = SinLlamada  BY <1>1 DEF Leida
<1> QED BY <1>3, <1>4, <1>5, <1>6, <1>7 DEF Leida

\* A request that answers is about nothing.
LEMMA RespondeNegocio ==
    ASSUME IInv, NEW w \in Llamadas, RespondeLlamada(w)
    PROVE  /\ llamada' \in [Llamadas -> LlamadaNegocio]
           /\ llamada'[w] = SinLlamada /\ \A v \in Llamadas \ {w} : llamada'[v] = llamada[v]
           /\ Leida(w)' /\ Unicas' /\ \A n \in Negocios : n \notin NegociosDe(w)'
<1>1. /\ llamada' \in [Llamadas -> LlamadaNegocio]
      /\ llamada'[w] = SinLlamada /\ \A v \in Llamadas \ {w} : llamada'[v] = llamada[v]
  BY SinLlamadaType, Tipos DEF RespondeLlamada, IInv
<1>2. /\ SinLlamada.op = "nada" /\ SinLlamada.id = Ninguno
      /\ SinLlamada.fila.negocio = Ninguno
  BY DEF SinLlamada, SucursalLibre
<1>3. Leida(w)'  BY <1>1, <1>2 DEF Leida, SinLlamada, SucursalLibre
<1>4. Unicas'  BY <1>1, <1>2 DEF Unicas, IInv
<1>5. \A n \in Negocios : n \notin NegociosDe(w)'  BY <1>1, <1>2 DEF NegociosDe
<1> QED BY <1>1, <1>3, <1>4, <1>5

\* A request that arrives is about businesses nobody touches, or that are exempt.
LEMMA AtiendeNegocio ==
    ASSUME IInv, NEW w \in Llamadas, NEW l \in LlamadaNegocio, AtiendeLlamada(w, l),
           l.op # "creaNegocio" \/ l.id \notin Tocados,
           UNCHANGED sucursal, exento \subseteq exento',
           \A n \in Negocios \ exento' : n \in NegociosDe(w)' => n \notin Tocados
    PROVE  /\ llamada' \in [Llamadas -> LlamadaNegocio]
           /\ llamada'[w] = l /\ \A v \in Llamadas \ {w} : llamada'[v] = llamada[v]
           /\ Unicas' /\ Solas'
<1>1. /\ llamada' \in [Llamadas -> LlamadaNegocio]
      /\ llamada'[w] = l /\ \A v \in Llamadas \ {w} : llamada'[v] = llamada[v]
  BY Tipos DEF AtiendeLlamada, IInv
<1>2. \A v \in Llamadas : llamada[v].id \in NegociosDe(v) /\ NegociosDe(v) \subseteq Tocados
  BY DEF NegociosDe, Tocados
<1>3. Unicas'  BY <1>1, <1>2 DEF Unicas, IInv
<1>4. \A v \in Llamadas \ {w} : NegociosDe(v)' = NegociosDe(v)  BY <1>1 DEF NegociosDe
<1>5. Solas'  BY <1>2, <1>4 DEF Solas, IInv
<1> QED BY <1>1, <1>3, <1>5

--------------------
(* The steps.                                                              *)

\* The businesses paid for, when none is added.
LEMMA PagadosNoCrece ==
    ASSUME IInv, UNCHANGED unidades, Pagados' \subseteq Pagados
    PROVE  IsFiniteSet(Pagados') /\ Cardinality(Pagados') <= unidades'
<1>1. IsFiniteSet(Pagados) /\ Cardinality(Pagados) <= unidades /\ unidades \in Int
  BY DEF IInv, EstablecimientosTypeOK
<1>2. /\ IsFiniteSet(Pagados') /\ Cardinality(Pagados') <= Cardinality(Pagados)
      /\ Cardinality(Pagados) \in Nat /\ Cardinality(Pagados') \in Nat
  BY <1>1, FS_Subset, FS_CardinalityType
<1> QED BY <1>1, <1>2

\* A request that arrives reads the tables and changes none.
LEMMA Llega ==
    ASSUME IInv, NEW w \in Llamadas, NEW l \in LlamadaNegocio, AtiendeLlamada(w, l),
           l.op # "creaNegocio" \/ l.id \notin Tocados,
           UNCHANGED <<negocio, sucursal, borrados>>,
           unidades' \in 0 .. MaxNegocios,
           exento \subseteq exento', exento' \subseteq Negocios,
           \A n \in Negocios \ exento' : n \in NegociosDe(w)' => n \notin Tocados,
           Leida(w)', IsFiniteSet(Pagados'), Cardinality(Pagados') <= unidades'
    PROVE  IInv'
<1>1. /\ llamada' \in [Llamadas -> LlamadaNegocio]
      /\ llamada'[w] = l /\ \A v \in Llamadas \ {w} : llamada'[v] = llamada[v]
      /\ Unicas' /\ Solas'
  BY AtiendeNegocio
<1>2. EstablecimientosTypeOK'  BY <1>1 DEF IInv, EstablecimientosTypeOK
<1>3. \A n \in Negocios : Vivas(n)' = Vivas(n)  BY DEF Vivas
<1>4. \A v \in Llamadas : Leida(v)'
  <2> SUFFICES ASSUME NEW v \in Llamadas, v # w PROVE Leida(v)'  OBVIOUS
  <2>1. PICK k : k = llamada[v]  OBVIOUS
  <2>2. llamada'[v] = k  BY <1>1, <2>1
  <2>3. Vivas(k.fila.negocio)' = Vivas(k.fila.negocio)  BY DEF Vivas
  <2> QED BY <2>1, <2>2, <2>3, LeidaSigue
<1>5. CupoDeSucursales'  BY <1>3 DEF CupoDeSucursales, IInv
<1>6. BorradosQuedan'  BY DEF BorradosQuedan, IInv
<1>7. \A n \in Negocios : IsFiniteSet(Vivas(n)')  BY <1>3 DEF IInv
<1> QED BY <1>1, <1>2, <1>4, <1>5, <1>6, <1>7 DEF IInv

LEMMA PideNegocioStep ==
    ASSUME IInv, NEW w \in Llamadas, NEW n \in Negocios, PideNegocio(w, n)
    PROVE  IInv'
<1>1. PICK l : l = [op |-> "creaNegocio", id |-> n, fila |-> SucursalLibre]  OBVIOUS
<1>2. l \in LlamadaNegocio /\ l.op = "creaNegocio" /\ l.id = n /\ l.fila.negocio = Ninguno
  BY <1>1 DEF LlamadaNegocio, FilaSucursal, SucursalLibre, Estados
<1>3. AtiendeLlamada(w, l)  BY <1>1 DEF PideNegocio
<1>4. /\ negocio[n] = "libre" /\ n \notin Tocados /\ unidades < MaxNegocios /\ unidades' = unidades + 1
      /\ UNCHANGED <<negocio, sucursal, exento, borrados>>
  BY DEF PideNegocio
<1>5. llamada'[w] = l /\ \A v \in Llamadas \ {w} : llamada'[v] = llamada[v]
  BY <1>3, Tipos DEF AtiendeLlamada, IInv
<1>6. \A m \in Negocios \ exento' : m \in NegociosDe(w)' => m \notin Tocados
  BY <1>2, <1>4, <1>5 DEF NegociosDe
<1>7. Leida(w)'  BY <1>2, <1>4, <1>5 DEF Leida
<1>8. Pagados' \subseteq Pagados \cup {n}  BY <1>2, <1>4, <1>5 DEF Pagados
<1>9. /\ IsFiniteSet(Pagados) /\ Cardinality(Pagados) <= unidades /\ unidades \in 0 .. MaxNegocios
      /\ exento \subseteq Negocios
  BY DEF IInv, EstablecimientosTypeOK
<1>10. /\ IsFiniteSet(Pagados \cup {n}) /\ Cardinality(Pagados \cup {n}) <= unidades + 1
       /\ Cardinality(Pagados \cup {n}) \in Nat
  <2>1. /\ IsFiniteSet(Pagados \cup {n})
        /\ \/ Cardinality(Pagados \cup {n}) = Cardinality(Pagados)
           \/ Cardinality(Pagados \cup {n}) = Cardinality(Pagados) + 1
    BY <1>9, FS_AddElement
  <2>2. Cardinality(Pagados) \in Nat  BY <1>9, FS_CardinalityType
  <2> QED BY <1>9, <2>1, <2>2
<1>11. IsFiniteSet(Pagados') /\ Cardinality(Pagados') <= unidades + 1
  BY <1>8, <1>9, <1>10, FS_Subset, FS_CardinalityType
<1>12. unidades' \in 0 .. MaxNegocios  BY <1>4, <1>9
<1> QED BY <1>2, <1>3, <1>4, <1>6, <1>7, <1>9, <1>11, <1>12, Llega

\* A request that makes no business leaves those that are paid for as they are.
LEMMA SinCrear ==
    ASSUME IInv, NEW w \in Llamadas, NEW l \in LlamadaNegocio, AtiendeLlamada(w, l),
           l.op # "creaNegocio", UNCHANGED <<negocio, unidades>>
    PROVE  IsFiniteSet(Pagados') /\ Cardinality(Pagados') <= unidades'
<1>1. llamada'[w] = l /\ \A v \in Llamadas \ {w} : llamada'[v] = llamada[v]
  BY Tipos DEF AtiendeLlamada, IInv
<1>2. Pagados' \subseteq Pagados  BY <1>1 DEF Pagados
<1> QED BY <1>2, PagadosNoCrece

LEMMA PideCambioNegocioStep ==
    ASSUME IInv, NEW w \in Llamadas, NEW n \in Negocios, NEW e, PideCambioNegocio(w, n, e)
    PROVE  IInv'
<1>1. PICK l : l = [op |-> "guardaNegocio", id |-> n, fila |-> [estado |-> e, negocio |-> n]]
  OBVIOUS
<1>2. /\ negocio[n] = "vivo" /\ e \in {"vivo", "eliminado"} /\ AtiendeLlamada(w, l)
      /\ exento' = exento \cup ({n} \cap Tocados)
      /\ UNCHANGED <<negocio, sucursal, unidades, borrados>>
  BY <1>1 DEF PideCambioNegocio
<1>3. /\ l \in LlamadaNegocio /\ l.op = "guardaNegocio" /\ l.id = n
      /\ l.fila.negocio = n /\ l.fila.estado = e
  BY <1>1, <1>2 DEF LlamadaNegocio, FilaSucursal, Estados
<1>4. llamada'[w] = l  BY <1>2, Tipos DEF AtiendeLlamada, IInv
<1>5. \A m \in Negocios \ exento' : m \in NegociosDe(w)' => m \notin Tocados
  BY <1>2, <1>3, <1>4 DEF NegociosDe
<1>6. Leida(w)'  BY <1>2, <1>3, <1>4 DEF Leida
<1>7. exento \subseteq Negocios /\ unidades \in 0 .. MaxNegocios
  BY DEF IInv, EstablecimientosTypeOK
<1>8. IsFiniteSet(Pagados') /\ Cardinality(Pagados') <= unidades'  BY <1>2, <1>3, SinCrear
<1> QED BY <1>2, <1>3, <1>5, <1>6, <1>7, <1>8, Llega

LEMMA PideAltaStep ==
    ASSUME IInv, NEW w \in Llamadas, NEW n \in Negocios, NEW admin \in BOOLEAN,
           PideAlta(w, n, admin)
    PROVE  IInv'
<1>1. PICK l : l = [op |-> "alta", id |-> Ninguno, fila |-> [estado |-> "vivo", negocio |-> n]]
  OBVIOUS
<1>2. /\ AtiendeLlamada(w, l) /\ UNCHANGED <<negocio, sucursal, unidades, borrados>>
      /\ exento \cup ({n} \cap Tocados) \subseteq exento' /\ exento' \subseteq exento \cup {n}
      /\ n \notin exento' => Cardinality(Vivas(n)) < MaxSucursales
  BY <1>1 DEF PideAlta, Cabe
<1>3. /\ l \in LlamadaNegocio /\ l.op = "alta" /\ l.id = Ninguno
      /\ l.fila.negocio = n /\ l.fila.estado = "vivo"
  BY <1>1 DEF LlamadaNegocio, FilaSucursal, Estados
<1>4. llamada'[w] = l  BY <1>2, Tipos DEF AtiendeLlamada, IInv
<1>5. \A m \in Negocios \ exento' : m \in NegociosDe(w)' => m \notin Tocados
  BY <1>2, <1>3, <1>4 DEF NegociosDe
<1>6. Vivas(n)' = Vivas(n)  BY <1>2 DEF Vivas
<1>7. Leida(w)'  BY <1>2, <1>3, <1>4, <1>6 DEF Leida
<1>8. exento \subseteq Negocios /\ unidades \in 0 .. MaxNegocios
  BY DEF IInv, EstablecimientosTypeOK
<1>9. IsFiniteSet(Pagados') /\ Cardinality(Pagados') <= unidades'  BY <1>2, <1>3, SinCrear
<1> QED BY <1>2, <1>3, <1>5, <1>7, <1>8, <1>9, Llega

LEMMA PideCambioSucursalStep ==
    ASSUME IInv, NEW w \in Llamadas, NEW s \in SucursalesDelNegocio, NEW n \in Negocios, NEW e,
           PideCambioSucursal(w, s, e, n)
    PROVE  IInv'
<1>1. PICK l : l = [op |-> "guardaSucursal", id |-> s, fila |-> [estado |-> e, negocio |-> n]]
  OBVIOUS
<1>2. /\ AtiendeLlamada(w, l) /\ UNCHANGED <<negocio, sucursal, unidades, borrados>>
      /\ sucursal[s].estado = "vivo" /\ e \in {"vivo", "eliminado"}
      /\ exento \cup ({n, sucursal[s].negocio} \cap Tocados) \subseteq exento'
      /\ n \notin exento' => sucursal[s].negocio = n
  BY <1>1 DEF PideCambioSucursal
<1>3. sucursal[s] \in FilaSucursal /\ exento \subseteq Negocios /\ unidades \in 0 .. MaxNegocios
  BY DEF IInv, EstablecimientosTypeOK
<1>4. sucursal[s].negocio \in Negocios  BY <1>2, <1>3 DEF IInv, EstablecimientosTypeOK, FilaSucursal
<1>5. exento' \subseteq Negocios  BY <1>3, <1>4 DEF PideCambioSucursal
<1>6. /\ l \in LlamadaNegocio /\ l.op = "guardaSucursal" /\ l.id = s
      /\ l.fila.negocio = n /\ l.fila.estado = e
  BY <1>1, <1>2 DEF LlamadaNegocio, FilaSucursal, Estados
<1>7. llamada'[w] = l  BY <1>2, Tipos DEF AtiendeLlamada, IInv
<1>8. \A m \in Negocios \ exento' : m \in NegociosDe(w)' => m \notin Tocados
  BY <1>2, <1>6, <1>7 DEF NegociosDe
<1>9. n \notin exento' => sucursal[s] = [estado |-> "vivo", negocio |-> n]
  BY <1>2, <1>3 DEF FilaSucursal
<1>10. Leida(w)'  BY <1>2, <1>6, <1>7, <1>9 DEF Leida
<1>11. IsFiniteSet(Pagados') /\ Cardinality(Pagados') <= unidades'  BY <1>2, <1>6, SinCrear
<1> QED BY <1>2, <1>3, <1>5, <1>6, <1>8, <1>10, <1>11, Llega

\* A request that answers has changed only what no other request reads.
LEMMA Contesta ==
    ASSUME IInv, NEW w \in Llamadas, RespondeLlamada(w), UNCHANGED <<unidades, exento>>,
           negocio' \in [Negocios -> Estados],
           sucursal' \in [SucursalesDelNegocio -> FilaSucursal],
           \A s \in SucursalesDelNegocio : (sucursal'[s].estado = "libre") = (sucursal'[s].negocio = Ninguno),
           borrados' \subseteq Negocios \cup SucursalesDelNegocio,
           \A v \in Llamadas \ {w} : Leida(v)',
           \A v \in Llamadas \ {w}, n \in Negocios \ exento : n \in NegociosDe(v)' => n \in NegociosDe(v),
           \A n \in Negocios : IsFiniteSet(Vivas(n)'),
           CupoDeSucursales', BorradosQuedan', Pagados' \subseteq Pagados
    PROVE  IInv'
<1>1. /\ llamada' \in [Llamadas -> LlamadaNegocio]
      /\ Leida(w)' /\ Unicas' /\ \A n \in Negocios : n \notin NegociosDe(w)'
  BY RespondeNegocio
<1>2. EstablecimientosTypeOK'  BY <1>1 DEF IInv, EstablecimientosTypeOK
<1>3. IsFiniteSet(Pagados') /\ Cardinality(Pagados') <= unidades'  BY PagadosNoCrece
<1>4. Solas'
  <2> SUFFICES ASSUME NEW u \in Llamadas, NEW v \in Llamadas, NEW n \in Negocios \ exento,
                      n \in NegociosDe(u)', n \in NegociosDe(v)'
               PROVE  u = v
    BY DEF Solas
  <2>1. u # w /\ v # w  BY <1>1
  <2> QED BY <2>1 DEF Solas, IInv
<1>5. \A v \in Llamadas : Leida(v)'  BY <1>1
<1> QED BY <1>1, <1>2, <1>3, <1>4, <1>5 DEF IInv

LEMMA CreaNegocioStep ==
    ASSUME IInv, NEW w \in Llamadas, CreaNegocio(w)
    PROVE  IInv'
<1>1. PICK l : l = llamada[w]  OBVIOUS
<1>2. /\ l.op = "creaNegocio" /\ negocio' = [negocio EXCEPT ![l.id] = "vivo"]
      /\ RespondeLlamada(w) /\ UNCHANGED <<sucursal, unidades, exento, borrados>>
  BY <1>1 DEF CreaNegocio
<1>3. l.id \in Negocios /\ negocio[l.id] = "libre"  BY <1>1, <1>2 DEF IInv, Leida
<1>4. /\ negocio' \in [Negocios -> Estados] /\ negocio'[l.id] = "vivo"
      /\ \A n \in Negocios \ {l.id} : negocio'[n] = negocio[n]
  BY <1>2, <1>3, Tipos DEF IInv, Estados
<1>5. \A v \in Llamadas \ {w} : llamada'[v] = llamada[v]  BY <1>2, RespondeNegocio
<1>6. \A n : Vivas(n)' = Vivas(n)  BY <1>2 DEF Vivas
<1>7. \A v \in Llamadas \ {w} : Leida(v)'
  <2> SUFFICES ASSUME NEW v \in Llamadas \ {w} PROVE Leida(v)'  OBVIOUS
  <2>1. PICK k : k = llamada[v]  OBVIOUS
  <2>2. k.op \in {"creaNegocio", "guardaNegocio"} => k.id \in Negocios \ {l.id}
    BY <1>1, <1>2, <1>3, <2>1 DEF IInv, Unicas, Leida
  <2>3. llamada'[v] = k /\ Vivas(k.fila.negocio)' = Vivas(k.fila.negocio)  BY <1>5, <1>6, <2>1
  <2> QED BY <1>2, <1>4, <2>1, <2>2, <2>3, LeidaSigue
<1>8. \A v \in Llamadas \ {w} : NegociosDe(v)' = NegociosDe(v)  BY <1>2, <1>5 DEF NegociosDe
<1>9. CupoDeSucursales' /\ \A n \in Negocios : IsFiniteSet(Vivas(n)')
  BY <1>2, <1>6 DEF IInv, CupoDeSucursales
<1>10. BorradosQuedan'  BY <1>2, <1>3, <1>4 DEF IInv, BorradosQuedan
<1>11. Pagados' \subseteq Pagados
  <2> SUFFICES ASSUME NEW n \in Pagados' PROVE n \in Pagados  OBVIOUS
  <2>1. n \in Negocios \ Cortesia  BY DEF Pagados
  <2>2. CASE n = l.id  BY <1>1, <1>2, <2>1, <2>2 DEF Pagados
  <2>3. CASE n # l.id /\ negocio'[n] # "libre"  BY <1>4, <2>1, <2>3 DEF Pagados
  <2>4. CASE \E v \in Llamadas : llamada'[v].op = "creaNegocio" /\ llamada'[v].id = n
    <3>1. PICK v \in Llamadas : llamada'[v].op = "creaNegocio" /\ llamada'[v].id = n  BY <2>4
    <3>2. v # w  BY <1>2, <3>1, RespondeNegocio DEF SinLlamada
    <3> QED BY <1>5, <2>1, <3>1, <3>2 DEF Pagados
  <2> QED BY <2>2, <2>3, <2>4 DEF Pagados
<1>12. /\ sucursal' \in [SucursalesDelNegocio -> FilaSucursal]
       /\ \A s \in SucursalesDelNegocio : (sucursal'[s].estado = "libre") = (sucursal'[s].negocio = Ninguno)
       /\ borrados' \subseteq Negocios \cup SucursalesDelNegocio
  BY <1>2 DEF IInv, EstablecimientosTypeOK
<1> QED BY <1>2, <1>4, <1>7, <1>8, <1>9, <1>10, <1>11, <1>12, Contesta

\* A request that answers makes no business, so none is added to those paid for.
LEMMA PagadosSinCrear ==
    ASSUME IInv, NEW w \in Llamadas, RespondeLlamada(w),
           \A n \in Negocios : negocio'[n] # "libre" => negocio[n] # "libre"
    PROVE  Pagados' \subseteq Pagados
<1>1. SinLlamada.op = "nada"  BY DEF SinLlamada
<1> QED BY <1>1, RespondeNegocio DEF Pagados

LEMMA FallaLlamadaStep ==
    ASSUME IInv, NEW w \in Llamadas, FallaLlamada(w)
    PROVE  IInv'
<1>1. RespondeLlamada(w) /\ UNCHANGED <<negocio, sucursal, unidades, exento, borrados>>
  BY DEF FallaLlamada
<1>2. \A v \in Llamadas \ {w} : llamada'[v] = llamada[v]  BY <1>1, RespondeNegocio
<1>3. \A n : Vivas(n)' = Vivas(n)  BY <1>1 DEF Vivas
<1>4. \A v \in Llamadas \ {w} : Leida(v)'
  <2> SUFFICES ASSUME NEW v \in Llamadas \ {w} PROVE Leida(v)'  OBVIOUS
  <2>1. PICK k : k = llamada[v]  OBVIOUS
  <2>2. llamada'[v] = k /\ Vivas(k.fila.negocio)' = Vivas(k.fila.negocio)  BY <1>2, <1>3, <2>1
  <2> QED BY <1>1, <2>1, <2>2, LeidaSigue
<1>5. \A v \in Llamadas \ {w} : NegociosDe(v)' = NegociosDe(v)  BY <1>1, <1>2 DEF NegociosDe
<1>6. CupoDeSucursales' /\ \A n \in Negocios : IsFiniteSet(Vivas(n)')
  BY <1>1, <1>3 DEF IInv, CupoDeSucursales
<1>7. BorradosQuedan'  BY <1>1 DEF IInv, BorradosQuedan
<1>8. Pagados' \subseteq Pagados  BY <1>1, PagadosSinCrear
<1>9. /\ negocio' \in [Negocios -> Estados] /\ sucursal' \in [SucursalesDelNegocio -> FilaSucursal]
      /\ \A s \in SucursalesDelNegocio : (sucursal'[s].estado = "libre") = (sucursal'[s].negocio = Ninguno)
      /\ borrados' \subseteq Negocios \cup SucursalesDelNegocio
  BY <1>1 DEF IInv, EstablecimientosTypeOK
<1> QED BY <1>1, <1>4, <1>5, <1>6, <1>7, <1>8, <1>9, Contesta

LEMMA GuardaNegocioStep ==
    ASSUME IInv, NEW w \in Llamadas, GuardaNegocio(w)
    PROVE  IInv'
<1>1. PICK l : l = llamada[w]  OBVIOUS
<1>2. /\ l.op = "guardaNegocio" /\ negocio' = [negocio EXCEPT ![l.id] = l.fila.estado]
      /\ borrados' = borrados \cup (IF l.fila.estado = "eliminado" THEN {l.id} ELSE {})
      /\ RespondeLlamada(w) /\ UNCHANGED <<sucursal, unidades, exento>>
  BY <1>1 DEF GuardaNegocio, Borrado
<1>3. /\ l.id \in Negocios /\ negocio[l.id] # "libre" /\ l.fila.estado \in {"vivo", "eliminado"}
      /\ l.id \notin exento => negocio[l.id] = "vivo"
  BY <1>1, <1>2 DEF IInv, Leida
<1>4. /\ negocio' \in [Negocios -> Estados] /\ negocio'[l.id] = l.fila.estado
      /\ \A n \in Negocios \ {l.id} : negocio'[n] = negocio[n]
  BY <1>2, <1>3, Tipos DEF IInv, Estados
<1>5. \A v \in Llamadas \ {w} : llamada'[v] = llamada[v]  BY <1>2, RespondeNegocio
<1>6. \A n : Vivas(n)' = Vivas(n)  BY <1>2 DEF Vivas
<1>7. l.id \in NegociosDe(w)  BY <1>1 DEF NegociosDe
<1>8. \A v \in Llamadas \ {w} : Leida(v)'
  <2> SUFFICES ASSUME NEW v \in Llamadas \ {w} PROVE Leida(v)'  OBVIOUS
  <2>1. PICK k : k = llamada[v]  OBVIOUS
  <2>2. k.op = "creaNegocio" => k.id \in Negocios \ {l.id}  BY <1>3, <2>1 DEF IInv, Leida
  <2>3. k.op = "guardaNegocio" => k.id \in Negocios /\ (k.id # l.id \/ k.id \in exento)
    <3>1. k.id \in NegociosDe(v)  BY <2>1 DEF NegociosDe
    <3> QED BY <1>3, <1>7, <2>1, <3>1 DEF IInv, Leida, Solas
  <2>4. llamada'[v] = k /\ Vivas(k.fila.negocio)' = Vivas(k.fila.negocio)  BY <1>5, <1>6, <2>1
  <2>5. negocio'[l.id] # "libre"  BY <1>3, <1>4
  <2>6. k.op \in {"creaNegocio", "guardaNegocio"} =>
          \/ negocio'[k.id] = negocio[k.id]
          \/ k.op = "guardaNegocio" /\ k.id \in exento /\ negocio'[k.id] # "libre"
    BY <1>4, <2>2, <2>3, <2>5
  <2> QED BY <1>2, <2>1, <2>4, <2>6, LeidaSigue
<1>9. \A v \in Llamadas \ {w} : NegociosDe(v)' = NegociosDe(v)  BY <1>2, <1>5 DEF NegociosDe
<1>10. CupoDeSucursales' /\ \A n \in Negocios : IsFiniteSet(Vivas(n)')
  BY <1>2, <1>6 DEF IInv, CupoDeSucursales
<1>11. BorradosQuedan'  BY <1>2, <1>3, <1>4 DEF IInv, BorradosQuedan
<1>12. Pagados' \subseteq Pagados  BY <1>2, <1>3, <1>4, PagadosSinCrear
<1>13. /\ sucursal' \in [SucursalesDelNegocio -> FilaSucursal]
       /\ \A s \in SucursalesDelNegocio : (sucursal'[s].estado = "libre") = (sucursal'[s].negocio = Ninguno)
       /\ borrados' \subseteq Negocios \cup SucursalesDelNegocio
  BY <1>2, <1>3 DEF IInv, EstablecimientosTypeOK
<1> QED BY <1>2, <1>4, <1>8, <1>9, <1>10, <1>11, <1>12, <1>13, Contesta

\* A business gains at most the branch that is saved.
LEMMA VivasTrasGuardar ==
    ASSUME IInv, NEW s \in SucursalesDelNegocio,
           \A t \in SucursalesDelNegocio \ {s} : sucursal'[t] = sucursal[t]
    PROVE  \A n \in Negocios : /\ Vivas(n)' \subseteq Vivas(n) \cup {s}
                               /\ IsFiniteSet(Vivas(n)')
<1> SUFFICES ASSUME NEW n \in Negocios
             PROVE  Vivas(n)' \subseteq Vivas(n) \cup {s} /\ IsFiniteSet(Vivas(n)')
  OBVIOUS
<1>1. Vivas(n)' \subseteq Vivas(n) \cup {s}  BY DEF Vivas
<1>2. IsFiniteSet(Vivas(n) \cup {s})  BY FS_AddElement DEF IInv
<1> QED BY <1>1, <1>2, FS_Subset

LEMMA GuardaAltaStep ==
    ASSUME IInv, NEW w \in Llamadas, NEW s \in SucursalesDelNegocio, GuardaAlta(w, s)
    PROVE  IInv'
<1>1. PICK l : l = llamada[w]  OBVIOUS
<1>2. PICK m : m = l.fila.negocio  OBVIOUS
<1>3. /\ l.op = "alta" /\ sucursal[s] = SucursalLibre
      /\ sucursal' = [sucursal EXCEPT ![s] = l.fila]
      /\ RespondeLlamada(w) /\ UNCHANGED <<negocio, unidades, exento, borrados>>
  BY <1>1 DEF GuardaAlta
<1>4. /\ m \in Negocios /\ l.fila.estado = "vivo"
      /\ m \notin exento => Cardinality(Vivas(m)) < MaxSucursales
  BY <1>1, <1>2, <1>3 DEF IInv, Leida
<1>5. l \in LlamadaNegocio  BY <1>1, Tipos DEF IInv
<1>6. /\ sucursal' \in [SucursalesDelNegocio -> FilaSucursal]
      /\ sucursal'[s].estado = "vivo" /\ sucursal'[s].negocio = m
      /\ \A t \in SucursalesDelNegocio \ {s} : sucursal'[t] = sucursal[t]
  BY <1>2, <1>3, <1>4, <1>5, Tipos DEF IInv, LlamadaNegocio
<1>7. sucursal[s].estado = "libre" /\ sucursal[s].negocio = Ninguno  BY <1>3 DEF SucursalLibre
<1>8. \A v \in Llamadas \ {w} : llamada'[v] = llamada[v]  BY <1>3, RespondeNegocio
<1>9. m \in NegociosDe(w)  BY <1>1, <1>2 DEF NegociosDe
<1>10. \A n \in Negocios \ {m} : Vivas(n)' \subseteq Vivas(n)  BY <1>6 DEF Vivas
<1>11. \A n \in Negocios : Vivas(n)' \subseteq Vivas(n) \cup {s} /\ IsFiniteSet(Vivas(n)')
  BY <1>6, VivasTrasGuardar
<1>12. \A v \in Llamadas : llamada[v].id # s
  <2> SUFFICES ASSUME NEW v \in Llamadas, llamada[v].id = s PROVE FALSE  OBVIOUS
  <2>1. /\ Leida(v) /\ llamada[v] \in LlamadaNegocio  BY Tipos DEF IInv
  <2>2. llamada[v].op \in {"nada", "alta", "guardaSucursal", "creaNegocio", "guardaNegocio"}
    BY <2>1 DEF LlamadaNegocio
  <2>3. SinLlamada.id = Ninguno  BY DEF SinLlamada
  <2> QED BY <1>7, <2>1, <2>2, <2>3 DEF Leida
<1>13. \A v \in Llamadas \ {w} : Leida(v)'
  <2> SUFFICES ASSUME NEW v \in Llamadas \ {w} PROVE Leida(v)'  OBVIOUS
  <2>1. PICK k : k = llamada[v]  OBVIOUS
  <2>2. k.op = "alta" => k.fila.negocio \in exento \/ Vivas(k.fila.negocio)' \subseteq Vivas(k.fila.negocio)
    <3> SUFFICES ASSUME k.op = "alta", k.fila.negocio \notin exento
                 PROVE  Vivas(k.fila.negocio)' \subseteq Vivas(k.fila.negocio)
      OBVIOUS
    <3>1. k.fila.negocio \in NegociosDe(v) /\ k.fila.negocio \in Negocios
      BY <2>1 DEF NegociosDe, IInv, Leida
    <3>2. k.fila.negocio # m  BY <1>9, <3>1 DEF IInv, Solas
    <3> QED BY <1>10, <3>1, <3>2
  <2>3. k.op = "guardaSucursal" => sucursal'[k.id] = sucursal[k.id]
    BY <1>6, <1>12, <2>1 DEF IInv, Leida
  <2>4. llamada'[v] = k  BY <1>8, <2>1
  <2> QED BY <1>3, <2>1, <2>2, <2>3, <2>4, LeidaSigue
<1>14. \A v \in Llamadas \ {w} : NegociosDe(v)' = NegociosDe(v)  BY <1>6, <1>8, <1>12 DEF NegociosDe
<1>15. CupoDeSucursales'
  <2> SUFFICES ASSUME NEW n \in Negocios \ exento PROVE Cardinality(Vivas(n)') <= MaxSucursales
    BY <1>3 DEF CupoDeSucursales
  <2>1. IsFiniteSet(Vivas(n)) /\ Cardinality(Vivas(n)) <= MaxSucursales /\ Cardinality(Vivas(n)) \in Nat
    BY FS_CardinalityType DEF IInv, CupoDeSucursales
  <2>2. CASE n = m
    <3>1. Cardinality(Vivas(n)) < MaxSucursales  BY <1>4, <2>2
    <3>2. /\ IsFiniteSet(Vivas(n) \cup {s})
          /\ \/ Cardinality(Vivas(n) \cup {s}) = Cardinality(Vivas(n))
             \/ Cardinality(Vivas(n) \cup {s}) = Cardinality(Vivas(n)) + 1
      BY <2>1, FS_AddElement
    <3>3. Cardinality(Vivas(n)') <= Cardinality(Vivas(n) \cup {s}) /\ Cardinality(Vivas(n)') \in Nat
      BY <1>11, <3>2, FS_Subset, FS_CardinalityType
    <3> QED BY <2>1, <3>1, <3>2, <3>3
  <2>3. CASE n # m  BY <1>10, <2>1, <2>3, FS_Subset, FS_CardinalityType
  <2> QED BY <2>2, <2>3
<1>16. BorradosQuedan'  BY <1>7, Tipos, <1>3, <1>6 DEF IInv, BorradosQuedan
<1>17. Pagados' \subseteq Pagados  BY <1>3, PagadosSinCrear
<1>18. \A t \in SucursalesDelNegocio : (sucursal'[t].estado = "libre") = (sucursal'[t].negocio = Ninguno)
  <2>1. m # Ninguno  BY <1>4
  <2> QED BY <1>6, <2>1 DEF IInv, EstablecimientosTypeOK
<1>19. negocio' \in [Negocios -> Estados] /\ borrados' \subseteq Negocios \cup SucursalesDelNegocio
  BY <1>3 DEF IInv, EstablecimientosTypeOK
<1> QED BY <1>3, <1>6, <1>11, <1>13, <1>14, <1>15, <1>16, <1>17, <1>18, <1>19, Contesta

LEMMA GuardaSucursalStep ==
    ASSUME IInv, NEW w \in Llamadas, GuardaSucursal(w)
    PROVE  IInv'
<1>1. PICK l : l = llamada[w]  OBVIOUS
<1>2. PICK s : s = l.id  OBVIOUS
<1>3. PICK m : m = l.fila.negocio  OBVIOUS
<1>4. /\ l.op = "guardaSucursal" /\ sucursal' = [sucursal EXCEPT ![s] = l.fila]
      /\ borrados' = borrados \cup (IF l.fila.estado = "eliminado" THEN {s} ELSE {})
      /\ RespondeLlamada(w) /\ UNCHANGED <<negocio, unidades, exento>>
  BY <1>1, <1>2 DEF GuardaSucursal, Borrado
<1>5. /\ s \in SucursalesDelNegocio /\ sucursal[s].estado # "libre" /\ m \in Negocios
      /\ l.fila.estado \in {"vivo", "eliminado"}
      /\ m \notin exento => sucursal[s] = [estado |-> "vivo", negocio |-> m]
  BY <1>1, <1>2, <1>3, <1>4 DEF IInv, Leida
<1>6. l \in LlamadaNegocio  BY <1>1, Tipos DEF IInv
<1>7. /\ sucursal' \in [SucursalesDelNegocio -> FilaSucursal]
      /\ sucursal'[s].estado \in {"vivo", "eliminado"} /\ sucursal'[s].negocio = m
      /\ sucursal'[s].estado = l.fila.estado
      /\ \A t \in SucursalesDelNegocio \ {s} : sucursal'[t] = sucursal[t]
  BY <1>3, <1>4, <1>5, <1>6, Tipos DEF IInv, LlamadaNegocio
<1>8. \A v \in Llamadas \ {w} : llamada'[v] = llamada[v]  BY <1>4, RespondeNegocio
<1>9. m \in NegociosDe(w) /\ sucursal[s].negocio \in NegociosDe(w)
  BY <1>1, <1>2, <1>3, <1>5 DEF NegociosDe
<1>10. \A n \in Negocios \ exento : Vivas(n)' \subseteq Vivas(n)  BY <1>5, <1>7 DEF Vivas
<1>11. \A n \in Negocios : IsFiniteSet(Vivas(n)')  BY <1>5, <1>7, VivasTrasGuardar
<1>12. \A v \in Llamadas \ {w} : Leida(v)'
  <2> SUFFICES ASSUME NEW v \in Llamadas \ {w} PROVE Leida(v)'  OBVIOUS
  <2>1. PICK k : k = llamada[v]  OBVIOUS
  <2>2. k.op = "alta" => k.fila.negocio \in exento \/ Vivas(k.fila.negocio)' \subseteq Vivas(k.fila.negocio)
    BY <1>10, <2>1 DEF IInv, Leida
  <2>3. k.op = "guardaSucursal" =>
          \/ sucursal'[k.id] = sucursal[k.id]
          \/ k.fila.negocio \in exento /\ sucursal'[k.id].estado # "libre"
    <3> SUFFICES ASSUME k.op = "guardaSucursal", k.id = s PROVE k.fila.negocio \in exento
      BY <1>7, <2>1 DEF IInv, Leida
    <3>1. /\ k.fila.negocio \in Negocios
          /\ k.fila.negocio \notin exento =>
                sucursal[s] = [estado |-> "vivo", negocio |-> k.fila.negocio]
      BY <2>1 DEF IInv, Leida
    <3>2. k.fila.negocio \notin exento => sucursal[s].negocio = k.fila.negocio  BY <3>1
    <3>3. k.fila.negocio \in NegociosDe(v)  BY <2>1 DEF NegociosDe
    <3> QED BY <1>9, <3>1, <3>2, <3>3 DEF IInv, Solas
  <2>4. llamada'[v] = k  BY <1>8, <2>1
  <2> QED BY <1>4, <2>1, <2>2, <2>3, <2>4, LeidaSigue
<1>13. \A v \in Llamadas \ {w}, n \in Negocios \ exento : n \in NegociosDe(v)' => n \in NegociosDe(v)
  <2> SUFFICES ASSUME NEW v \in Llamadas \ {w}, NEW n \in Negocios \ exento, n \in NegociosDe(v)'
               PROVE  n \in NegociosDe(v)
    OBVIOUS
  <2>1. CASE llamada[v].id = s  BY <1>5, <1>7, <1>8, <2>1 DEF NegociosDe
  <2>2. CASE llamada[v].id # s  BY <1>7, <1>8, <2>2 DEF NegociosDe
  <2> QED BY <2>1, <2>2
<1>14. CupoDeSucursales'
  <2> SUFFICES ASSUME NEW n \in Negocios \ exento PROVE Cardinality(Vivas(n)') <= MaxSucursales
    BY <1>4 DEF CupoDeSucursales
  <2>1. IsFiniteSet(Vivas(n)) /\ Cardinality(Vivas(n)) <= MaxSucursales /\ Cardinality(Vivas(n)) \in Nat
    BY FS_CardinalityType DEF IInv, CupoDeSucursales
  <2>2. Cardinality(Vivas(n)') <= Cardinality(Vivas(n)) /\ Cardinality(Vivas(n)') \in Nat
    BY <1>10, <2>1, FS_Subset, FS_CardinalityType
  <2> QED BY <2>1, <2>2
<1>15. BorradosQuedan'
  <2>1. \A n \in borrados' \cap Negocios : n \in exento \/ negocio[n] = "eliminado"
    BY <1>4, <1>5 DEF IInv, BorradosQuedan
  <2>2. s \in borrados /\ m \notin exento => FALSE  BY <1>5 DEF IInv, BorradosQuedan
  <2>3. \A t \in borrados' \cap SucursalesDelNegocio :
           sucursal'[t].negocio \in exento \/ sucursal'[t].estado = "eliminado"
    <3> SUFFICES ASSUME NEW t \in borrados' \cap SucursalesDelNegocio
                 PROVE  sucursal'[t].negocio \in exento \/ sucursal'[t].estado = "eliminado"
      OBVIOUS
    <3>1. CASE t = s  BY <1>4, <1>7, <2>2, <3>1
    <3>2. CASE t # s  BY <1>4, <1>7, <3>2 DEF IInv, BorradosQuedan
    <3> QED BY <3>1, <3>2
  <2> QED BY <1>4, <2>1, <2>3 DEF BorradosQuedan
<1>16. Pagados' \subseteq Pagados  BY <1>4, PagadosSinCrear
<1>17. \A t \in SucursalesDelNegocio : (sucursal'[t].estado = "libre") = (sucursal'[t].negocio = Ninguno)
  <2>1. m # Ninguno  BY <1>5
  <2> QED BY <1>7, <2>1 DEF IInv, EstablecimientosTypeOK
<1>18. negocio' \in [Negocios -> Estados] /\ borrados' \subseteq Negocios \cup SucursalesDelNegocio
  BY <1>4, <1>5 DEF IInv, EstablecimientosTypeOK
<1> QED BY <1>4, <1>7, <1>11, <1>12, <1>13, <1>14, <1>15, <1>16, <1>17, <1>18, Contesta

--------------------
(* The theorems.                                                           *)

LEMMA InvInit == EstablecimientosInit => IInv
<1> SUFFICES ASSUME EstablecimientosInit PROVE IInv  OBVIOUS
<1>1. /\ negocio = [n \in Negocios |-> IF n \in Cortesia THEN "vivo" ELSE "libre"]
      /\ sucursal = [s \in SucursalesDelNegocio |-> SucursalLibre] /\ unidades = 0
      /\ llamada = [w \in Llamadas |-> SinLlamada] /\ exento = {} /\ borrados = {}
  BY DEF EstablecimientosInit
<1>2. /\ SucursalLibre.estado = "libre" /\ SucursalLibre.negocio = Ninguno
      /\ SucursalLibre \in FilaSucursal
  BY DEF SucursalLibre, FilaSucursal, Estados
<1>3. SinLlamada.op = "nada" /\ SinLlamada.id = Ninguno /\ SinLlamada.fila.negocio = Ninguno
  BY DEF SinLlamada, SucursalLibre
<1>4. EstablecimientosTypeOK
  <2>1. negocio \in [Negocios -> Estados] /\ sucursal \in [SucursalesDelNegocio -> FilaSucursal]
    BY <1>1, <1>2 DEF Estados
  <2>2. llamada \in [Llamadas -> LlamadaNegocio]  BY <1>1, SinLlamadaType
  <2>3. \A s \in SucursalesDelNegocio : (sucursal[s].estado = "libre") = (sucursal[s].negocio = Ninguno)
    BY <1>1, <1>2
  <2>4. 0 \in 0 .. MaxNegocios  OBVIOUS
  <2> QED BY <1>1, <2>1, <2>2, <2>3, <2>4 DEF EstablecimientosTypeOK
<1>5. \A w \in Llamadas : Leida(w)  BY <1>1, <1>3 DEF Leida
<1>6. Solas /\ Unicas  BY <1>1, <1>3 DEF Solas, Unicas, NegociosDe
<1>7. \A n \in Negocios : Vivas(n) = {}  BY <1>1, <1>2 DEF Vivas
<1>8. Pagados = {}  BY <1>1, <1>3 DEF Pagados
<1>9. IsFiniteSet({}) /\ Cardinality({}) = 0  BY FS_EmptySet
<1>10. CupoDeSucursales  BY <1>7, <1>9 DEF CupoDeSucursales
<1>11. BorradosQuedan  BY <1>1 DEF BorradosQuedan
<1> QED BY <1>1, <1>4, <1>5, <1>6, <1>7, <1>8, <1>9, <1>10, <1>11 DEF IInv

LEMMA InvStep == IInv /\ [EstablecimientosNext]_establecimientosVars => IInv'
<1> SUFFICES ASSUME IInv, [EstablecimientosNext]_establecimientosVars PROVE IInv'  OBVIOUS
<1>1. CASE EstablecimientosNext
  <2>1. PICK w \in Llamadas :
          \/ \E n \in Negocios : \/ PideNegocio(w, n)
                                 \/ \E admin \in BOOLEAN : PideAlta(w, n, admin)
                                 \/ \E e \in Estados : PideCambioNegocio(w, n, e)
          \/ \E s \in SucursalesDelNegocio, n \in Negocios, e \in Estados : PideCambioSucursal(w, s, e, n)
          \/ \E s \in SucursalesDelNegocio : GuardaAlta(w, s)
          \/ CreaNegocio(w) \/ GuardaNegocio(w) \/ GuardaSucursal(w) \/ FallaLlamada(w)
    BY <1>1 DEF EstablecimientosNext
  <2> QED BY <2>1, PideNegocioStep, PideAltaStep, PideCambioNegocioStep, PideCambioSucursalStep,
             GuardaAltaStep, CreaNegocioStep, GuardaNegocioStep, GuardaSucursalStep, FallaLlamadaStep
<1>2. CASE UNCHANGED establecimientosVars
  <2>1. UNCHANGED <<negocio, sucursal, unidades, llamada, exento, borrados>>
    BY <1>2 DEF establecimientosVars
  <2>2. EstablecimientosTypeOK' = EstablecimientosTypeOK /\ BorradosQuedan' = BorradosQuedan
    BY <2>1 DEF EstablecimientosTypeOK, BorradosQuedan
  <2>3. \A n : Vivas(n)' = Vivas(n)  BY <2>1 DEF Vivas
  <2>4. CupoDeSucursales' /\ \A n \in Negocios : IsFiniteSet(Vivas(n)')
    BY <2>1, <2>3 DEF CupoDeSucursales, IInv
  <2>5. \A w \in Llamadas : Leida(w)'
    <3> SUFFICES ASSUME NEW w \in Llamadas PROVE Leida(w)'  OBVIOUS
    <3>1. PICK k : k = llamada[w]  OBVIOUS
    <3> QED BY <2>1, <2>3, <3>1, LeidaSigue
  <2>6. \A w : NegociosDe(w)' = NegociosDe(w)  BY <2>1 DEF NegociosDe
  <2>7. Solas' /\ Unicas'  BY <2>1, <2>6 DEF Solas, Unicas, IInv
  <2>8. IsFiniteSet(Pagados') /\ Cardinality(Pagados') <= unidades'
    <3>1. Pagados' = Pagados  BY <2>1 DEF Pagados
    <3> QED BY <2>1, <3>1 DEF IInv
  <2> QED BY <2>2, <2>4, <2>5, <2>7, <2>8 DEF IInv
<1> QED BY <1>1, <1>2

\* The businesses that are not courtesies are among those paid for.
LEMMA CuentaDePagados == IInv => EstablecimientosEnRegla
<1> SUFFICES ASSUME IInv PROVE EstablecimientosEnRegla  OBVIOUS
<1> DEFINE H == {n \in Negocios \ Cortesia : negocio[n] # "libre"}
<1>1. H \subseteq Pagados  BY DEF Pagados
<1>2. IsFiniteSet(Pagados) /\ Cardinality(Pagados) <= unidades /\ unidades \in Int
  BY DEF IInv, EstablecimientosTypeOK
<1>3. /\ Cardinality(H) <= Cardinality(Pagados)
      /\ Cardinality(H) \in Nat /\ Cardinality(Pagados) \in Nat
  BY <1>1, <1>2, FS_Subset, FS_CardinalityType
<1>4. Cardinality(H) <= unidades  BY <1>2, <1>3
<1> QED BY <1>4 DEF EstablecimientosEnRegla, NegociosPagados, IInv

LEMMA Invariante == EstablecimientosSpec => []IInv
  BY InvInit, InvStep, PTL DEF EstablecimientosSpec

\* The rows and the requests keep their shape: a branch belongs to a business from the
\* moment it is saved, and the units spent never pass those of the cycle.
THEOREM EstablecimientosTypes == EstablecimientosSpec => []EstablecimientosTypeOK
<1>1. IInv => EstablecimientosTypeOK  BY DEF IInv
<1> QED BY <1>1, Invariante, PTL

\* A business that no admin, move or overlap exempts never has more live branches than
\* its membership gives (assertLimiteSucursales counts, and saves later), what was
\* deleted is not saved alive again, and each business spent its unit of the cycle.
THEOREM EstablecimientosCumplen == EstablecimientosSpec => []EstablecimientosEnRegla
  BY Invariante, CuentaDePagados, PTL

--------------------
(* Imagenes.  What each request does, in order.                            *)

HIDE EstablecimientosAssumption DEF EstablecimientosAssumption
USE ImagenesAssumption DEF ImagenesAssumption

\* Every plan there is.
TodosLosPlanes == {CambiaLogo, CambiaImagenPromo, CambiaFachada, CambiaAnuncio, ReenviaAnuncio,
                   EditaAnuncio, EditaConNueva, Agrega, QuitaLogo, QuitaFoto, Quita}

\* Which plans each kind of row has.
LEMMA PlanesEnumerados ==
    ASSUME NEW t \in TiposFila, NEW plan \in Planes(t)
    PROVE  /\ plan \in TodosLosPlanes
           /\ t = "logo" => plan \in {CambiaLogo, QuitaLogo}
           /\ t = "promocion" => plan \in {CambiaImagenPromo, Quita}
           /\ t = "fachada" => plan \in {CambiaFachada, Quita}
           /\ t = "anuncio" => plan \in {CambiaAnuncio, ReenviaAnuncio, EditaAnuncio,
                                     EditaConNueva, Quita}
           /\ t = "galeria" => plan \in {Agrega, QuitaFoto}
  BY DEF TiposFila, Planes, TodosLosPlanes

\* What each request does, one by one.
LEMMA PasosDeLosPlanes ==
    /\ Len(CambiaLogo) = 4 /\ CambiaLogo[1] = "lee" /\ CambiaLogo[2] = "sube"
       /\ CambiaLogo[3] = "destruye" /\ CambiaLogo[4] = "guarda"
    /\ Len(CambiaImagenPromo) = 4 /\ CambiaImagenPromo[1] = "lee" /\ CambiaImagenPromo[2] = "destruye"
       /\ CambiaImagenPromo[3] = "sube" /\ CambiaImagenPromo[4] = "guarda"
    /\ Len(CambiaFachada) = 2 /\ CambiaFachada[1] = "sube" /\ CambiaFachada[2] = "guarda"
    /\ Len(CambiaAnuncio) = 4 /\ CambiaAnuncio[1] = "sube" /\ CambiaAnuncio[2] = "lee"
       /\ CambiaAnuncio[3] = "guarda" /\ CambiaAnuncio[4] = "destruye"
    /\ Len(ReenviaAnuncio) = 3 /\ ReenviaAnuncio[1] = "lee" /\ ReenviaAnuncio[2] = "guarda"
       /\ ReenviaAnuncio[3] = "destruye"
    /\ Len(EditaAnuncio) = 2 /\ EditaAnuncio[1] = "lee" /\ EditaAnuncio[2] = "guarda"
    /\ Len(EditaConNueva) = 3 /\ EditaConNueva[1] = "sube" /\ EditaConNueva[2] = "lee"
       /\ EditaConNueva[3] = "guarda"
    /\ Len(Agrega) = 2 /\ Agrega[1] = "sube" /\ Agrega[2] = "guarda"
    /\ Len(QuitaLogo) = 3 /\ QuitaLogo[1] = "lee" /\ QuitaLogo[2] = "destruye" /\ QuitaLogo[3] = "borra"
    /\ Len(QuitaFoto) = 3 /\ QuitaFoto[1] = "lee" /\ QuitaFoto[2] = "borra" /\ QuitaFoto[3] = "destruye"
    /\ Len(Quita) = 1 /\ Quita[1] = "borra"
  BY DEF CambiaLogo, CambiaImagenPromo, CambiaFachada, CambiaAnuncio, ReenviaAnuncio,
         EditaAnuncio, EditaConNueva, Agrega, QuitaLogo, QuitaFoto, Quita

\* The updates that send back the image that is shown.
Reenvian == {ReenviaAnuncio, EditaAnuncio}

\* The shape the proofs use.
LEMMA FormaDelPlan ==
    ASSUME NEW t \in TiposFila, NEW plan \in Planes(t), NEW k \in 1 .. Len(plan)
    PROVE  /\ Len(plan) \in 1 .. 4 /\ plan # <<>>
           /\ plan[k] \in {"lee", "sube", "destruye", "guarda", "borra"}
           /\ plan[k] = "guarda" =>
                 (plan \in Reenvian /\ k = 2) \/ \E j \in 1 .. k - 1 : plan[j] = "sube"
           /\ plan[k] = "guarda" /\ t # "anuncio" => k = Len(plan)
           /\ t = "anuncio" /\ plan[k] = "destruye" => k = Len(plan) /\ k > 1 /\ plan[k - 1] = "guarda"
                                                       /\ plan \in DestruyePrevia
           /\ t = "fachada" => plan[k] # "destruye"
           /\ plan[k] = "borra" /\ t # "galeria" => k = Len(plan)
           /\ t = "galeria" => \/ plan = Agrega /\ ((k = 1 /\ plan[k] = "sube") \/ (k = 2 /\ plan[k] = "guarda"))
                               \/ plan = QuitaFoto /\ \/ k = 1 /\ plan[k] = "lee"
                                                      \/ k = 2 /\ plan[k] = "borra"
                                                      \/ k = 3 /\ plan[k] = "destruye"
           /\ plan \in Reenvian => t = "anuncio" /\ (k = 1 => plan[k] = "lee")
           /\ plan = QuitaFoto => t = "galeria"
           /\ plan[k] \in {"lee", "sube"} => k < Len(plan)
           /\ t \in {"logo", "promocion"} /\ plan[k] = "destruye" => k < Len(plan)
<1>1. plan \in TodosLosPlanes  BY PlanesEnumerados
<1>2. plan # <<>>
  BY <1>1 DEF TodosLosPlanes, CambiaLogo, CambiaImagenPromo, CambiaFachada, CambiaAnuncio,
       ReenviaAnuncio, EditaAnuncio, EditaConNueva, Agrega, QuitaLogo, QuitaFoto, Quita
<1>3. t # "anuncio" => plan \notin Reenvian
  BY PlanesEnumerados, PasosDeLosPlanes DEF TiposFila, Reenvian, CambiaFachada, EditaAnuncio,
     Agrega
<1>13. t # "galeria" => plan # QuitaFoto  BY PlanesEnumerados, PasosDeLosPlanes DEF TiposFila
<1>4. CASE plan = CambiaLogo
  BY <1>4, PlanesEnumerados, PasosDeLosPlanes, <1>2, <1>3, <1>13 DEF TiposFila, Reenvian, DestruyePrevia
<1>5. CASE plan = CambiaImagenPromo
  BY <1>5, PlanesEnumerados, PasosDeLosPlanes, <1>2, <1>3, <1>13 DEF TiposFila, Reenvian, DestruyePrevia
<1>6. CASE plan = CambiaFachada
  BY <1>6, PlanesEnumerados, PasosDeLosPlanes, <1>2, <1>3, <1>13 DEF TiposFila, Reenvian, DestruyePrevia, Agrega,
     CambiaFachada
<1>7. CASE plan = CambiaAnuncio
  BY <1>7, PlanesEnumerados, PasosDeLosPlanes, <1>2, <1>3, <1>13 DEF TiposFila, Reenvian, DestruyePrevia
<1>8. CASE plan = ReenviaAnuncio
  BY <1>8, PlanesEnumerados, PasosDeLosPlanes, <1>2, <1>3, <1>13 DEF TiposFila, Reenvian, DestruyePrevia
<1>14. CASE plan = EditaAnuncio
  BY <1>14, PlanesEnumerados, PasosDeLosPlanes, <1>2, <1>3, <1>13 DEF TiposFila, Reenvian, DestruyePrevia
<1>15. CASE plan = EditaConNueva
  BY <1>15, PlanesEnumerados, PasosDeLosPlanes, <1>2, <1>3, <1>13 DEF TiposFila, Reenvian, DestruyePrevia
<1>9. CASE plan = Agrega
  BY <1>9, PlanesEnumerados, PasosDeLosPlanes, <1>2, <1>3, <1>13 DEF TiposFila, Reenvian, DestruyePrevia
<1>10. CASE plan = QuitaLogo
  BY <1>10, PlanesEnumerados, PasosDeLosPlanes, <1>2, <1>3, <1>13 DEF TiposFila, Reenvian, DestruyePrevia
<1>11. CASE plan = QuitaFoto
  BY <1>11, PlanesEnumerados, PasosDeLosPlanes, <1>2, <1>3, <1>13 DEF TiposFila, Reenvian, DestruyePrevia
<1>12. CASE plan = Quita
  BY <1>12, PlanesEnumerados, PasosDeLosPlanes, <1>2, <1>3, <1>13 DEF TiposFila, Reenvian, DestruyePrevia
<1> QED BY <1>1, <1>4, <1>5, <1>6, <1>7, <1>8, <1>9, <1>10, <1>11, <1>12, <1>14, <1>15
    DEF TodosLosPlanes

--------------------
(* The invariant.  The gallery is worked on by any number of requests, the *)
(* others, until rota, by one.                                             *)

\* The photos uploaded and about to be added, and those about to be taken off.
Agregando == {p \in PedidosImagen : pedidoImagen[p].plan = Agrega /\ pedidoImagen[p].i = 2}
Quitando == {p \in PedidosImagen : pedidoImagen[p].plan = QuitaFoto}

\* A request is at a step of one of its plans, and has what the steps before gave it.
EnPaso(p) ==
    LET r == pedidoImagen[p] IN
    /\ r.vieja <= subidas /\ r.nueva <= subidas
    /\ tipoFila # "anuncio" => r.conId
    /\ \/ r = SinPedidoImagen
       \/ /\ r.plan \in Planes(tipoFila) /\ r.i \in 1 .. Len(r.plan)
          /\ \A k \in 1 .. r.i - 1 : r.plan[k] = "sube" \/ r.plan \in Reenvian => r.nueva # 0

\* The invariants below are about a row whose requests did not overlap, or do no harm.
Ordenada == tipoFila \in {"galeria", "fachada"} \/ ~rota
\* Until rota, one request is at work, and it names its publicId if it destroys.
DeUnaEnUna == ~rota => \A p, q \in EnObra : 
    p = q /\ (pedidoImagen[p].plan \in DestruyePrevia => pedidoImagen[p].conId)
\* What was uploaded to be shown is kept until it is.
Guardadas == filaViva /\ Ordenada =>
                \A p \in PedidosImagen : pedidoImagen[p].nueva # 0 /\ (tipoFila = "galeria" => p \in Agregando)
                                            => pedidoImagen[p].nueva \in nube \cup descartadas
\* No request is past its destroy: of a logo or a promotion, which save afterwards.
SinDestruir(p) ==
    \A k \in 1 .. pedidoImagen[p].i - 1 : pedidoImagen[p].plan[k] # "destruye"
NadaDestruido == tipoFila \in {"logo", "promocion"} => \A p \in EnObra : SinDestruir(p)
\* What is shown is kept, but between the destroy and the save.
Mostradas == filaViva /\ Ordenada /\ NadaDestruido => imagenes \subseteq nube \cup descartadas
\* An advert shows the new image before the one of before is destroyed.
YaCambiada == tipoFila = "anuncio" /\ filaViva /\ ~rota =>
                 \A p \in EnObra : Paso(p) = "destruye" => imagenes = {pedidoImagen[p].nueva}
\* Each photo is added once, and none is taken off that is about to be added.
EnGaleria == tipoFila = "galeria" =>
    /\ filaViva
    /\ \A p \in Agregando : pedidoImagen[p].nueva \notin imagenes
    /\ \A p, q \in Agregando : pedidoImagen[p].nueva = pedidoImagen[q].nueva => p = q
    /\ \A p \in Agregando, q \in Quitando : pedidoImagen[p].nueva # pedidoImagen[q].vieja
    /\ \A p \in Quitando : pedidoImagen[p].i = 3 => pedidoImagen[p].vieja \notin imagenes

ImgInv == /\ ImagenesTypeOK /\ publicId <= subidas
          /\ \A p \in PedidosImagen : EnPaso(p)
          /\ tipoFila \notin {"galeria", "fachada"} => DeUnaEnUna
          /\ Guardadas /\ Mostradas /\ YaCambiada /\ EnGaleria

--------------------
\* No request.
LEMMA SinPedidoImagenType ==
    /\ SinPedidoImagen \in PedidoImagen /\ SinPedidoImagen.plan = <<>>
    /\ SinPedidoImagen.nueva = 0 /\ SinPedidoImagen.vieja = 0 /\ SinPedidoImagen.i = 1
    /\ SinPedidoImagen.conId = TRUE
  BY DEF SinPedidoImagen, PedidoImagen, IdsImagen

\* The shapes, in the form the steps use.
LEMMA TiposImagen ==
    ASSUME ImgInv
    PROVE  /\ pedidoImagen \in [PedidosImagen -> PedidoImagen]
           /\ tipoFila \in TiposFila /\ imagenes \subseteq 1 .. subidas /\ nube \subseteq 1 .. subidas
           /\ subidas \in 0 .. MaxSubidas /\ publicId \in 0 .. MaxSubidas
           /\ filaViva \in BOOLEAN /\ rota \in BOOLEAN
           /\ descartadas \subseteq 1 .. subidas
  BY DEF ImgInv, ImagenesTypeOK, IdsImagen

\* A request at work is at a step of its plan.
LEMMA EnSuPlan ==
    ASSUME ImgInv, NEW p \in PedidosImagen, NEW r, r = pedidoImagen[p], Paso(p) # "nada"
    PROVE  /\ r \in PedidoImagen /\ r # SinPedidoImagen /\ p \in EnObra /\ Paso(p) = r.plan[r.i]
           /\ r.plan \in Planes(tipoFila) /\ Len(r.plan) \in 1 .. 4 /\ r.i \in 1 .. Len(r.plan)
           /\ r.plan # <<>>
           /\ r.vieja \in 0 .. subidas /\ r.nueva \in 0 .. subidas /\ r.conId \in BOOLEAN
           /\ \A k \in 1 .. r.i - 1 : r.plan[k] = "sube" \/ r.plan \in Reenvian => r.nueva # 0
           /\ tipoFila # "anuncio" => r.conId
<1>1. r \in PedidoImagen /\ tipoFila \in TiposFila /\ EnPaso(p)  BY TiposImagen DEF ImgInv
<1>2. r # SinPedidoImagen /\ Paso(p) = r.plan[r.i]  BY DEF Paso
<1>3. p \in EnObra  BY <1>2 DEF EnObra
<1>4. /\ r.vieja <= subidas /\ r.nueva <= subidas
      /\ tipoFila # "anuncio" => r.conId
      /\ r.plan \in Planes(tipoFila) /\ r.i \in 1 .. Len(r.plan)
      /\ \A k \in 1 .. r.i - 1 : r.plan[k] = "sube" \/ r.plan \in Reenvian => r.nueva # 0
  BY <1>1, <1>2 DEF EnPaso
<1>5. r.vieja \in 0 .. subidas /\ r.nueva \in 0 .. subidas /\ r.conId \in BOOLEAN
  BY <1>1, <1>4, TiposImagen DEF PedidoImagen, IdsImagen
<1>6. Len(r.plan) \in 1 .. 4 /\ r.plan # <<>>  BY <1>1, <1>4, FormaDelPlan
<1> QED BY <1>1, <1>2, <1>3, <1>4, <1>5, <1>6

\* What SigueImagen leaves.
LEMMA Sigue ==
    ASSUME ImgInv, NEW p \in PedidosImagen, NEW r \in PedidoImagen, SigueImagen(p, r),
           r.plan \in Planes(tipoFila), r.i \in 1 .. Len(r.plan), Len(r.plan) \in 1 .. 4
    PROVE  /\ pedidoImagen' \in [PedidosImagen -> PedidoImagen]
           /\ \A q \in PedidosImagen \ {p} : pedidoImagen'[q] = pedidoImagen[q]
           /\ r.i = Len(r.plan) => pedidoImagen'[p] = SinPedidoImagen
           /\ r.i < Len(r.plan) =>
                 /\ pedidoImagen'[p].plan = r.plan /\ pedidoImagen'[p].i = r.i + 1
                 /\ pedidoImagen'[p].vieja = r.vieja /\ pedidoImagen'[p].nueva = r.nueva
                 /\ pedidoImagen'[p].conId = r.conId
<1>1. pedidoImagen \in [PedidosImagen -> PedidoImagen]  BY TiposImagen
<1>2. CASE r.i = Len(r.plan)  BY <1>1, <1>2, SinPedidoImagenType DEF SigueImagen
<1>3. CASE r.i < Len(r.plan)
  <2>0. PICK k : k = r.i  OBVIOUS
  <2>01. PICK n : n = Len(r.plan)  OBVIOUS
  <2>1. pedidoImagen' = [pedidoImagen EXCEPT ![p] = [r EXCEPT !.i = r.i + 1]]
    <3>1. k # n  BY <1>3, <2>0, <2>01
    <3> QED BY <2>0, <2>01, <3>1 DEF SigueImagen
  <2>2. r.i + 1 \in 1 .. 5
    <3>1. n \in 1 .. 4 /\ k \in 1 .. n /\ k < n  BY <1>3, <2>0, <2>01
    <3>2. k + 1 \in 1 .. 5  BY <3>1
    <3> QED BY <2>0, <3>2
  <2>3. [r EXCEPT !.i = r.i + 1] \in PedidoImagen  BY <2>2 DEF PedidoImagen
  <2> QED BY <1>1, <1>3, <2>1, <2>3 DEF PedidoImagen
<1> QED BY <1>2, <1>3

\* A request that stops.
LEMMA Abandona ==
    ASSUME ImgInv, NEW p \in PedidosImagen, AbandonaImagen(p)
    PROVE  /\ pedidoImagen' \in [PedidosImagen -> PedidoImagen]
           /\ \A q \in PedidosImagen \ {p} : pedidoImagen'[q] = pedidoImagen[q]
           /\ pedidoImagen'[p] = SinPedidoImagen
  BY TiposImagen, SinPedidoImagenType DEF AbandonaImagen

\* A request that ends: the sets of requests lose it.
LEMMA TerminaImagen ==
    ASSUME NEW p \in PedidosImagen, pedidoImagen'[p] = SinPedidoImagen,
           \A q \in PedidosImagen \ {p} : pedidoImagen'[q] = pedidoImagen[q]
    PROVE  /\ EnObra' = EnObra \ {p} /\ Agregando' = Agregando \ {p} /\ Quitando' = Quitando \ {p}
           /\ \A q \in PedidosImagen \ {p} : Paso(q)' = Paso(q) /\ SinDestruir(q)' = SinDestruir(q)
<1>1. EnObra' = EnObra \ {p}  BY DEF EnObra
<1>2. <<>> # Agrega /\ <<>> # QuitaFoto  BY DEF Agrega, QuitaFoto
<1>3. Agregando' = Agregando \ {p} /\ Quitando' = Quitando \ {p}
  BY <1>2, SinPedidoImagenType DEF Agregando, Quitando
<1>4. \A q \in PedidosImagen \ {p} : Paso(q)' = Paso(q) /\ SinDestruir(q)' = SinDestruir(q)
  BY DEF Paso, SinDestruir
<1> QED BY <1>1, <1>3, <1>4

\* A request that goes on to its next step.
LEMMA Continua ==
    ASSUME NEW p \in PedidosImagen, p \in EnObra,
           pedidoImagen'[p].plan = pedidoImagen[p].plan, pedidoImagen[p].plan # <<>>,
           pedidoImagen'[p].i = pedidoImagen[p].i + 1, pedidoImagen[p].i \in 1 .. 4,
           \A q \in PedidosImagen \ {p} : pedidoImagen'[q] = pedidoImagen[q]
    PROVE  /\ EnObra' = EnObra
           /\ Agregando' \ {p} = Agregando \ {p} /\ Quitando' = Quitando
           /\ p \in Agregando' <=> pedidoImagen[p].plan = Agrega /\ pedidoImagen[p].i = 1
           /\ \A q \in PedidosImagen \ {p} : Paso(q)' = Paso(q) /\ SinDestruir(q)' = SinDestruir(q)
           /\ Paso(p)' = pedidoImagen[p].plan[pedidoImagen[p].i + 1]
           /\ SinDestruir(p)' <=>
                 SinDestruir(p) /\ pedidoImagen[p].plan[pedidoImagen[p].i] # "destruye"
<1>1. pedidoImagen'[p] # SinPedidoImagen  BY SinPedidoImagenType
<1>2. EnObra' = EnObra  BY <1>1 DEF EnObra
<1>3. /\ Agregando' \ {p} = Agregando \ {p} /\ Quitando' = Quitando
      /\ p \in Agregando' <=> pedidoImagen[p].plan = Agrega /\ pedidoImagen[p].i = 1
  BY DEF Agregando, Quitando
<1>4. \A q \in PedidosImagen \ {p} : Paso(q)' = Paso(q) /\ SinDestruir(q)' = SinDestruir(q)
  BY DEF Paso, SinDestruir
<1>5. Paso(p)' = pedidoImagen[p].plan[pedidoImagen[p].i + 1]  BY <1>1 DEF Paso
<1>6. PICK i \in 1 .. 4 : i = pedidoImagen[p].i  OBVIOUS
<1>7. 1 .. i = (1 .. (i - 1)) \cup {i} /\ (i + 1) - 1 = i  BY <1>6
<1>8. SinDestruir(p)' <=> \A k \in 1 .. i : pedidoImagen[p].plan[k] # "destruye"
  BY <1>6, <1>7 DEF SinDestruir
<1>9. SinDestruir(p) <=> \A k \in 1 .. (i - 1) : pedidoImagen[p].plan[k] # "destruye"
  BY <1>6 DEF SinDestruir
<1> QED BY <1>2, <1>3, <1>4, <1>5, <1>6, <1>7, <1>8, <1>9

\* The other requests stay where they were.
LEMMA OtrosEnPaso ==
    ASSUME ImgInv, NEW q \in PedidosImagen, pedidoImagen'[q] = pedidoImagen[q],
           tipoFila' = tipoFila, subidas' \in Int, subidas <= subidas'
    PROVE  EnPaso(q)'
<1>1. EnPaso(q) /\ pedidoImagen[q] \in PedidoImagen /\ subidas \in Int  BY TiposImagen DEF ImgInv
<1>2. pedidoImagen[q].vieja \in Int /\ pedidoImagen[q].nueva \in Int
  BY <1>1 DEF PedidoImagen, IdsImagen
<1>3. pedidoImagen[q].vieja <= subidas' /\ pedidoImagen[q].nueva <= subidas'
  BY <1>1, <1>2 DEF EnPaso
<1> QED BY <1>1, <1>3 DEF EnPaso

\* No request is at no step.
LEMMA SinPedidoEnPaso ==
    ASSUME NEW q \in PedidosImagen, pedidoImagen'[q] = SinPedidoImagen, subidas' \in Nat
    PROVE  EnPaso(q)'
  BY SinPedidoImagenType DEF EnPaso

\* The request that acted is at the next step of its plan.
LEMMA SiguienteEnPaso ==
    ASSUME ImgInv, NEW p \in PedidosImagen, NEW r, r = pedidoImagen[p], Paso(p) # "nada",
           r.i < Len(r.plan),
           tipoFila' = tipoFila, subidas' \in Int, subidas <= subidas',
           pedidoImagen'[p].plan = r.plan, pedidoImagen'[p].i = r.i + 1,
           pedidoImagen'[p].conId = r.conId,
           pedidoImagen'[p].vieja \in 0 .. subidas', pedidoImagen'[p].nueva \in 0 .. subidas',
           r.nueva # 0 => pedidoImagen'[p].nueva # 0,
           Paso(p) = "sube" => pedidoImagen'[p].nueva # 0,
           Paso(p) = "lee" /\ r.plan \in Reenvian => pedidoImagen'[p].nueva # 0
    PROVE  EnPaso(p)'
<1>1. /\ r.plan \in Planes(tipoFila) /\ Len(r.plan) \in 1 .. 4 /\ r.i \in 1 .. Len(r.plan)
      /\ \A k \in 1 .. r.i - 1 : r.plan[k] = "sube" \/ r.plan \in Reenvian => r.nueva # 0
      /\ tipoFila # "anuncio" => r.conId
      /\ Paso(p) = r.plan[r.i] /\ tipoFila \in TiposFila
  BY EnSuPlan, TiposImagen
<1>2. PICK i \in 1 .. 3 : i = r.i
  <2>1. PICK i : i = r.i  OBVIOUS
  <2>2. PICK n : n = Len(r.plan)  OBVIOUS
  <2>3. i < n /\ n \in 1 .. 4 /\ i \in 1 .. n  BY <1>1, <2>1, <2>2
  <2> QED BY <2>1, <2>3
<1>3. PICK pl : pl = r.plan  OBVIOUS
<1>4. i + 1 \in 1 .. Len(pl)
  <2>1. PICK n : n = Len(r.plan)  OBVIOUS
  <2>2. n \in 1 .. 4 /\ i < n  BY <1>1, <1>2, <2>1
  <2> QED BY <1>3, <2>1, <2>2
<1>5. \A k \in 1 .. i : pl[k] = "sube" \/ pl \in Reenvian => pedidoImagen'[p].nueva # 0
  <2> SUFFICES ASSUME NEW k \in 1 .. i, pl[k] = "sube" \/ pl \in Reenvian
               PROVE  pedidoImagen'[p].nueva # 0
    OBVIOUS
  <2>1. CASE k \in 1 .. i - 1  BY <1>1, <1>2, <1>3, <2>1
  <2>2. CASE k = i
    <3>1. CASE pl[i] = "sube"  BY <1>1, <1>2, <1>3, <3>1
    <3>2. CASE pl \in Reenvian /\ i = 1  BY <1>1, <1>2, <3>2, <1>3, FormaDelPlan
    <3>3. CASE pl \in Reenvian /\ i # 1
      <4>1. 1 \in 1 .. r.i - 1  BY <1>2, <3>3
      <4> QED BY <1>1, <1>3, <3>3, <4>1
    <3> QED BY <2>2, <3>1, <3>2, <3>3
  <2> QED BY <2>1, <2>2
<1>6. (i + 1) - 1 = i  BY <1>2
<1>7. pedidoImagen'[p].vieja <= subidas' /\ pedidoImagen'[p].nueva <= subidas'  OBVIOUS
<1> QED BY <1>1, <1>2, <1>3, <1>4, <1>5, <1>6, <1>7 DEF EnPaso

--------------------
\* A request that leaves, and what it did was not between a destroy and a save.
LEMMA SeVa ==
    ASSUME ImgInv, NEW p \in PedidosImagen, AbandonaImagen(p),
           UNCHANGED <<tipoFila, imagenes, publicId, filaViva, nube, subidas, descartadas>>,
           rota' \in BOOLEAN, rota => rota',
           filaViva /\ ~rota' /\ tipoFila \in {"logo", "promocion"} => SinDestruir(p)
    PROVE  ImgInv'
<1>1. /\ pedidoImagen' \in [PedidosImagen -> PedidoImagen]
      /\ \A q \in PedidosImagen \ {p} : pedidoImagen'[q] = pedidoImagen[q]
      /\ pedidoImagen'[p] = SinPedidoImagen
  BY Abandona
<1>2. /\ EnObra' = EnObra \ {p} /\ Agregando' = Agregando \ {p} /\ Quitando' = Quitando \ {p}
      /\ \A q \in PedidosImagen \ {p} : Paso(q)' = Paso(q) /\ SinDestruir(q)' = SinDestruir(q)
  BY <1>1, TerminaImagen
<1>3. ImagenesTypeOK' /\ publicId' <= subidas'  BY <1>1 DEF ImgInv, ImagenesTypeOK
<1>4. \A q \in PedidosImagen : EnPaso(q)'  BY <1>1, TiposImagen, OtrosEnPaso, SinPedidoEnPaso
<1>5. EnObra \subseteq PedidosImagen /\ Agregando \subseteq PedidosImagen /\ Quitando \subseteq PedidosImagen
  BY DEF EnObra, Agregando, Quitando
<1>6. tipoFila' \notin {"galeria", "fachada"} => DeUnaEnUna'
  BY <1>1, <1>2, <1>5 DEF ImgInv, DeUnaEnUna
<1>7. Ordenada' => Ordenada  BY DEF Ordenada
<1>8. Guardadas'  BY <1>1, <1>2, <1>7, SinPedidoImagenType DEF ImgInv, Guardadas
<1>9. filaViva /\ Ordenada' /\ NadaDestruido' => NadaDestruido
  BY <1>2, <1>5 DEF NadaDestruido, Ordenada
<1>10. Mostradas'  BY <1>7, <1>9 DEF ImgInv, Mostradas
<1>11. YaCambiada'  BY <1>1, <1>2, <1>5 DEF ImgInv, YaCambiada
<1>12. EnGaleria'  BY <1>1, <1>2, <1>5 DEF ImgInv, EnGaleria
<1> QED BY <1>3, <1>4, <1>6, <1>8, <1>10, <1>11, <1>12 DEF ImgInv

\* The steps, one lemma each.
LEMMA FallaImagenStep ==
    ASSUME ImgInv, NEW p \in PedidosImagen, FallaImagen(p)
    PROVE  ImgInv'
<1>1. PICK r : r = pedidoImagen[p]  OBVIOUS
<1>2. /\ Paso(p) # "nada" /\ AbandonaImagen(p)
      /\ rota' = (rota \/ \E k \in 1 .. r.i : r.plan[k] = "destruye")
      /\ UNCHANGED <<tipoFila, imagenes, publicId, filaViva, nube, subidas, descartadas>>
  BY <1>1 DEF FallaImagen
<1>3. rota' \in BOOLEAN /\ (rota => rota')  BY <1>2, TiposImagen
<1>4. r.i \in 1 .. Len(r.plan) /\ Len(r.plan) \in 1 .. 4  BY <1>1, <1>2, EnSuPlan
<1>5. ~rota' => SinDestruir(p)
  <2>1. PICK i : i = r.i  OBVIOUS
  <2>2. i \in Int  BY <1>4, <2>1
  <2>3. \A k \in 1 .. i - 1 : k \in 1 .. i  BY <2>2
  <2> QED BY <1>1, <1>2, <2>1, <2>3 DEF SinDestruir
<1> QED BY <1>2, <1>3, <1>5, SeVa

LEMMA PideImagenStep ==
    ASSUME ImgInv, NEW p \in PedidosImagen, NEW plan \in Planes(tipoFila), NEW conId \in BOOLEAN,
           conId \/ tipoFila = "anuncio", PideImagen(p, plan, conId)
    PROVE  ImgInv'
<1>1. PICK r : r = [SinPedidoImagen EXCEPT !.plan = plan, !.conId = conId]  OBVIOUS
<1>2. /\ filaViva /\ UNCHANGED <<tipoFila, imagenes, publicId, filaViva, nube, subidas, descartadas>>
      /\ rota' = (rota \/ EnObra # {} \/ (~conId /\ plan \in DestruyePrevia))
      /\ pedidoImagen' = [pedidoImagen EXCEPT ![p] = r]
  BY <1>1 DEF PideImagen
<1>3. tipoFila \in TiposFila  BY TiposImagen
<1>4. plan # <<>> /\ Len(plan) \in 1 .. 4 /\ 1 \in 1 .. Len(plan)
  BY <1>3, PlanesEnumerados, PasosDeLosPlanes, FormaDelPlan DEF TodosLosPlanes
<1>5. /\ r \in PedidoImagen /\ r.plan = plan /\ r.i = 1 /\ r.vieja = 0 /\ r.nueva = 0
      /\ r.conId = conId /\ r # SinPedidoImagen
  BY <1>1, <1>3, <1>4, SinPedidoImagenType DEF PedidoImagen, SinPedidoImagen
<1>6. /\ pedidoImagen' \in [PedidosImagen -> PedidoImagen] /\ pedidoImagen'[p] = r
      /\ \A q \in PedidosImagen \ {p} : pedidoImagen'[q] = pedidoImagen[q]
  BY <1>2, <1>5, TiposImagen
<1>7. EnObra' = EnObra \cup {p} /\ Agregando' = Agregando \ {p} /\ Quitando' \subseteq Quitando \cup {p}
  BY <1>5, <1>6 DEF EnObra, Agregando, Quitando
<1>8. Paso(p)' = plan[1]  BY <1>5, <1>6 DEF Paso
<1>9. tipoFila = "anuncio" => plan[1] # "destruye"  BY <1>3, <1>4, FormaDelPlan
<1>10. rota' \in BOOLEAN /\ (rota => rota') /\ (~rota' => EnObra = {} /\ (plan \in DestruyePrevia => conId))
  BY <1>2, TiposImagen
<1>11. ImagenesTypeOK' /\ publicId' <= subidas'  BY <1>2, <1>6, <1>10 DEF ImgInv, ImagenesTypeOK
<1>12. EnPaso(p)'  BY <1>2, TiposImagen, <1>4, <1>5, <1>6 DEF EnPaso
<1>13. \A q \in PedidosImagen : EnPaso(q)'  BY <1>2, <1>6, <1>12, TiposImagen, OtrosEnPaso
<1>14. DeUnaEnUna'  BY <1>5, <1>6, <1>7, <1>10 DEF DeUnaEnUna
<1>15. Ordenada' => Ordenada  BY <1>2, <1>10 DEF Ordenada
<1>16. Guardadas'  BY <1>2, <1>5, <1>6, <1>7, <1>15 DEF ImgInv, Guardadas
<1>17. Ordenada' => NadaDestruido  BY <1>2, <1>3, <1>10 DEF NadaDestruido, Ordenada
<1>18. Mostradas'  BY <1>2, <1>15, <1>17 DEF ImgInv, Mostradas
<1>19. YaCambiada'  BY <1>2, <1>7, <1>8, <1>9, <1>10 DEF YaCambiada
<1>20. \A q \in Agregando : pedidoImagen[q].nueva # 0
  <2> SUFFICES ASSUME NEW q \in Agregando PROVE pedidoImagen[q].nueva # 0  OBVIOUS
  <2>1. PICK s : s = pedidoImagen[q]  OBVIOUS
  <2>2. q \in PedidosImagen /\ s.plan = Agrega /\ s.i = 2 /\ EnPaso(q)
    BY <2>1 DEF Agregando, ImgInv
  <2>3. s # SinPedidoImagen  BY <2>2, SinPedidoImagenType
  <2>4. 1 \in 1 .. s.i - 1  BY <2>2
  <2> QED BY <2>1, <2>2, <2>3, <2>4, PasosDeLosPlanes DEF EnPaso
<1>21. EnGaleria'
  <2> SUFFICES ASSUME tipoFila = "galeria" PROVE EnGaleria'  BY <1>2 DEF EnGaleria
  <2>1. /\ \A q \in Agregando : pedidoImagen[q].nueva \notin imagenes
        /\ \A q, s \in Agregando : pedidoImagen[s].nueva = pedidoImagen[q].nueva => s = q
        /\ \A q \in Agregando, s \in Quitando : pedidoImagen[q].nueva # pedidoImagen[s].vieja
        /\ \A q \in Quitando : pedidoImagen[q].i = 3 => pedidoImagen[q].vieja \notin imagenes
    BY DEF ImgInv, EnGaleria
  <2>2. Agregando \subseteq PedidosImagen /\ Quitando \subseteq PedidosImagen
    BY DEF Agregando, Quitando
  <2>3. \A q \in Agregando' : q \in Agregando /\ pedidoImagen'[q] = pedidoImagen[q]
    BY <1>6, <1>7, <2>2
  <2>4. \A q \in Quitando' : q = p \/ (q \in Quitando /\ pedidoImagen'[q] = pedidoImagen[q])
    BY <1>6, <1>7, <2>2
  <2> QED BY <1>2, <1>5, <1>6, <1>20, <2>1, <2>3, <2>4 DEF EnGaleria
<1> QED BY <1>11, <1>13, <1>14, <1>16, <1>18, <1>19, <1>21 DEF ImgInv

\* What a step that goes on to the next one changes of the requests.
LEMMA Prosigue ==
    ASSUME ImgInv, NEW p \in PedidosImagen, NEW r, r = pedidoImagen[p], Paso(p) # "nada",
           NEW s \in PedidoImagen, SigueImagen(p, s), s.plan = r.plan, s.i = r.i
    PROVE  /\ pedidoImagen' \in [PedidosImagen -> PedidoImagen]
           /\ \A q \in PedidosImagen \ {p} : pedidoImagen'[q] = pedidoImagen[q]
           /\ r.i = Len(r.plan) => pedidoImagen'[p] = SinPedidoImagen
           /\ r.i < Len(r.plan) =>
                 /\ pedidoImagen'[p].plan = r.plan /\ pedidoImagen'[p].i = r.i + 1
                 /\ pedidoImagen'[p].vieja = s.vieja /\ pedidoImagen'[p].nueva = s.nueva
                 /\ pedidoImagen'[p].conId = s.conId
                 /\ EnObra' = EnObra
                 /\ Agregando' \ {p} = Agregando \ {p} /\ Quitando' = Quitando
                 /\ p \in Agregando' <=> r.plan = Agrega /\ r.i = 1
                 /\ Paso(p)' = r.plan[r.i + 1]
                 /\ SinDestruir(p)' <=> SinDestruir(p) /\ r.plan[r.i] # "destruye"
           /\ \A q \in PedidosImagen \ {p} : Paso(q)' = Paso(q) /\ SinDestruir(q)' = SinDestruir(q)
<1>1. /\ r.plan \in Planes(tipoFila) /\ r.i \in 1 .. Len(r.plan) /\ Len(r.plan) \in 1 .. 4
      /\ p \in EnObra /\ r.plan # <<>>
  BY EnSuPlan
<1>2. /\ pedidoImagen' \in [PedidosImagen -> PedidoImagen]
      /\ \A q \in PedidosImagen \ {p} : pedidoImagen'[q] = pedidoImagen[q]
      /\ r.i = Len(r.plan) => pedidoImagen'[p] = SinPedidoImagen
      /\ r.i < Len(r.plan) =>
            /\ pedidoImagen'[p].plan = r.plan /\ pedidoImagen'[p].i = r.i + 1
            /\ pedidoImagen'[p].vieja = s.vieja /\ pedidoImagen'[p].nueva = s.nueva
            /\ pedidoImagen'[p].conId = s.conId
  BY <1>1, Sigue
<1>3. \A q \in PedidosImagen \ {p} : Paso(q)' = Paso(q) /\ SinDestruir(q)' = SinDestruir(q)
  BY <1>2 DEF Paso, SinDestruir
<1>4. r.i \in 1 .. 4
  <2>1. PICK i : i = r.i  OBVIOUS
  <2>2. PICK n : n = Len(r.plan)  OBVIOUS
  <2>3. n \in 1 .. 4 /\ i \in 1 .. n  BY <1>1, <2>1, <2>2
  <2> QED BY <2>1, <2>3
<1>5. r.i < Len(r.plan) =>
            /\ EnObra' = EnObra
            /\ Agregando' \ {p} = Agregando \ {p} /\ Quitando' = Quitando
            /\ p \in Agregando' <=> r.plan = Agrega /\ r.i = 1
            /\ Paso(p)' = r.plan[r.i + 1]
            /\ SinDestruir(p)' <=> SinDestruir(p) /\ r.plan[r.i] # "destruye"
  <2> SUFFICES ASSUME r.i < Len(r.plan)
               PROVE  /\ EnObra' = EnObra
                      /\ Agregando' \ {p} = Agregando \ {p} /\ Quitando' = Quitando
                      /\ p \in Agregando' <=> r.plan = Agrega /\ r.i = 1
                      /\ Paso(p)' = r.plan[r.i + 1]
                      /\ SinDestruir(p)' <=> SinDestruir(p) /\ r.plan[r.i] # "destruye"
    OBVIOUS
  <2>1. pedidoImagen'[p].plan = pedidoImagen[p].plan /\ pedidoImagen'[p].i = pedidoImagen[p].i + 1
    BY <1>2
  <2>2. pedidoImagen[p].plan # <<>> /\ pedidoImagen[p].i \in 1 .. 4  BY <1>1, <1>4
  <2>3. /\ EnObra' = EnObra
        /\ Agregando' \ {p} = Agregando \ {p} /\ Quitando' = Quitando
        /\ p \in Agregando' <=> pedidoImagen[p].plan = Agrega /\ pedidoImagen[p].i = 1
        /\ Paso(p)' = pedidoImagen[p].plan[pedidoImagen[p].i + 1]
        /\ SinDestruir(p)' <=>
              SinDestruir(p) /\ pedidoImagen[p].plan[pedidoImagen[p].i] # "destruye"
    BY <1>1, <1>2, <2>1, <2>2, Continua
  <2> QED BY <2>3
<1> QED BY <1>2, <1>3, <1>5

\* A request that only reads or uploads, and goes on.
LEMMA Prepara ==
    ASSUME ImgInv, NEW p \in PedidosImagen, NEW r, r = pedidoImagen[p],
           Paso(p) \in {"lee", "sube"},
           NEW s \in PedidoImagen, SigueImagen(p, s), s.plan = r.plan, s.i = r.i, s.conId = r.conId,
           UNCHANGED <<tipoFila, imagenes, publicId, filaViva, rota, descartadas>>,
           subidas' \in 0 .. MaxSubidas, subidas <= subidas',
           nube \subseteq nube', nube' \subseteq 1 .. subidas',
           s.vieja \in 0 .. subidas', s.nueva \in 0 .. subidas',
           r.nueva # 0 => s.nueva # 0,
           Paso(p) = "sube" => s.nueva # 0 /\ s.nueva \in nube',
           Paso(p) = "lee" /\ r.plan \in Reenvian => s.nueva # 0,
           filaViva /\ Ordenada => s.nueva = r.nueva \/ s.nueva \in nube' \cup descartadas,
           tipoFila = "galeria" /\ r.plan = Agrega =>
              s.nueva \notin imagenes /\ \A q \in PedidosImagen \ {p} :
                 s.nueva # pedidoImagen[q].nueva /\ s.nueva # pedidoImagen[q].vieja,
           tipoFila = "galeria" /\ r.plan = QuitaFoto => s.vieja \in imagenes
    PROVE  ImgInv'
<1>1. /\ r.plan \in Planes(tipoFila) /\ r.i \in 1 .. Len(r.plan) /\ Len(r.plan) \in 1 .. 4
      /\ p \in EnObra /\ Paso(p) = r.plan[r.i] /\ tipoFila \in TiposFila
  BY EnSuPlan, TiposImagen
<1>2. r.i < Len(r.plan)  BY <1>1, FormaDelPlan
<1>3. /\ pedidoImagen' \in [PedidosImagen -> PedidoImagen]
      /\ \A q \in PedidosImagen \ {p} : pedidoImagen'[q] = pedidoImagen[q]
      /\ pedidoImagen'[p].plan = r.plan /\ pedidoImagen'[p].i = r.i + 1
      /\ pedidoImagen'[p].vieja = s.vieja /\ pedidoImagen'[p].nueva = s.nueva
      /\ pedidoImagen'[p].conId = s.conId
      /\ EnObra' = EnObra
      /\ Agregando' \ {p} = Agregando \ {p} /\ Quitando' = Quitando
      /\ p \in Agregando' <=> r.plan = Agrega /\ r.i = 1
      /\ Paso(p)' = r.plan[r.i + 1]
      /\ SinDestruir(p)' <=> SinDestruir(p)
      /\ \A q \in PedidosImagen \ {p} : Paso(q)' = Paso(q) /\ SinDestruir(q)' = SinDestruir(q)
  BY <1>1, <1>2, Prosigue
<1>4. ImagenesTypeOK' /\ publicId' <= subidas'
  BY TiposImagen, <1>3 DEF ImgInv, ImagenesTypeOK, IdsImagen
<1>5. \A q \in PedidosImagen \ {p} : EnPaso(q)'  BY <1>3, TiposImagen, OtrosEnPaso
<1>6. EnPaso(p)'  BY <1>1, <1>2, <1>3, SiguienteEnPaso, SMTT(30)
<1>7. EnObra \subseteq PedidosImagen /\ Agregando \subseteq PedidosImagen /\ Quitando \subseteq PedidosImagen
  BY DEF EnObra, Agregando, Quitando
<1>8. tipoFila' \notin {"galeria", "fachada"} => DeUnaEnUna'  BY <1>3, <1>7 DEF ImgInv, DeUnaEnUna
<1>9. Ordenada' = Ordenada /\ (NadaDestruido' => NadaDestruido)
  BY <1>3, <1>7 DEF Ordenada, NadaDestruido
<1>10. Guardadas'
  <2> SUFFICES ASSUME filaViva, Ordenada, NEW q \in PedidosImagen, pedidoImagen'[q].nueva # 0,
                      tipoFila = "galeria" => q \in Agregando'
               PROVE  pedidoImagen'[q].nueva \in nube' \cup descartadas
    BY <1>9 DEF Guardadas
  <2>1. CASE q # p  BY <1>3, <2>1 DEF ImgInv, Guardadas
  <2>2. CASE q = p /\ s.nueva \in nube' \cup descartadas  BY <1>3, <2>2
  <2>3. CASE q = p /\ s.nueva = r.nueva
    <3>1. CASE tipoFila = "galeria"  BY <1>3, <2>3, <3>1, PasosDeLosPlanes, <1>1
    <3>2. CASE tipoFila # "galeria"  BY <1>3, <2>3, <3>2 DEF ImgInv, Guardadas
    <3> QED BY <3>1, <3>2
  <2> QED BY <2>1, <2>2, <2>3
<1>11. Mostradas'  BY <1>9 DEF ImgInv, Mostradas
<1>12. YaCambiada'
  <2> SUFFICES ASSUME tipoFila = "anuncio", filaViva, ~rota, NEW q \in EnObra, Paso(q)' = "destruye"
               PROVE  imagenes = {pedidoImagen'[q].nueva}
    BY <1>3 DEF YaCambiada
  <2>1. CASE q # p  BY <1>3, <1>7, <2>1 DEF ImgInv, YaCambiada
  <2>2. CASE q = p
    <3>1. PICK i : i = r.i  OBVIOUS
    <3>2. PICK n : n = Len(r.plan)  OBVIOUS
    <3>3. i \in 1 .. n /\ n \in 1 .. 4 /\ i < n  BY <1>1, <1>2, <3>1, <3>2
    <3>4. i + 1 \in 1 .. n /\ (i + 1) - 1 = i  BY <3>3
    <3>5. r.plan[i + 1] = "destruye"  BY <2>2, <1>3, <3>1
    <3>6. r.plan[i] = "guarda"
      <4>1. PICK j : j = i + 1  OBVIOUS
      <4>2. j \in 1 .. Len(r.plan) /\ j - 1 = i /\ r.plan[j] = "destruye"
        BY <3>2, <3>4, <3>5, <4>1
      <4>3. r.plan[j - 1] = "guarda"  BY <1>1, <2>2, <4>2, FormaDelPlan
      <4> QED BY <4>2, <4>3
    <3> QED BY <1>1, <3>1, <3>6
  <2> QED BY <2>1, <2>2
<1>13. EnGaleria'
  <2> SUFFICES ASSUME tipoFila = "galeria" PROVE EnGaleria'  BY DEF EnGaleria
  <2>1. /\ filaViva
        /\ \A q \in Agregando : pedidoImagen[q].nueva \notin imagenes
        /\ \A q, t \in Agregando : pedidoImagen[t].nueva = pedidoImagen[q].nueva => t = q
        /\ \A q \in Agregando, t \in Quitando : pedidoImagen[q].nueva # pedidoImagen[t].vieja
        /\ \A q \in Quitando : pedidoImagen[q].i = 3 => pedidoImagen[q].vieja \notin imagenes
    BY DEF ImgInv, EnGaleria
  <2>2. \A q \in Agregando' : \/ q = p /\ r.plan = Agrega
                              \/ q # p /\ q \in Agregando /\ pedidoImagen'[q] = pedidoImagen[q]
    BY <1>3, <1>7
  <2>3. \A q \in Quitando' : \/ q = p /\ r.plan = QuitaFoto
                             \/ q # p /\ q \in Quitando /\ pedidoImagen'[q] = pedidoImagen[q]
    BY <1>3, <1>7 DEF Quitando
  <2>4. Agrega # QuitaFoto  BY PasosDeLosPlanes
  <2>5. r.plan = QuitaFoto => r.i = 1  BY <1>1, <2>4, FormaDelPlan
  <2>6. filaViva' /\ \A q \in Agregando' : pedidoImagen'[q].nueva \notin imagenes'
    BY <1>3, <2>1, <2>2
  <2>7. \A q, t \in Agregando' : pedidoImagen'[q].nueva = pedidoImagen'[t].nueva => q = t
    BY <1>3, <1>7, <2>1, <2>2
  <2>8. \A q \in Agregando', t \in Quitando' : pedidoImagen'[q].nueva # pedidoImagen'[t].vieja
    BY <1>3, <1>7, <2>1, <2>2, <2>3, <2>4
  <2>9. \A q \in Quitando' : pedidoImagen'[q].i = 3 => pedidoImagen'[q].vieja \notin imagenes'
    BY <1>3, <2>1, <2>3, <2>5
  <2> QED BY <2>6, <2>7, <2>8, <2>9 DEF EnGaleria
<1> QED BY <1>4, <1>5, <1>6, <1>8, <1>10, <1>11, <1>12, <1>13 DEF ImgInv

LEMMA LeeImagenStep ==
    ASSUME ImgInv, NEW p \in PedidosImagen, LeeImagen(p)
    PROVE  ImgInv'
<1>1. PICK r : r = pedidoImagen[p]  OBVIOUS
<1>2. PICK v \in IF imagenes = {} THEN {0} ELSE imagenes :
         LET vieja == IF tipoFila = "anuncio" THEN publicId ELSE v IN
         IF filaViva /\ (v = 0 => r.plan \notin {QuitaFoto} \cup Reenvian)
         THEN SigueImagen(p, [r EXCEPT !.vieja = vieja,
                                       !.nueva = IF r.plan \in Reenvian THEN v ELSE @])
         ELSE AbandonaImagen(p)
  <2>1. DeLaMostrada = {QuitaFoto} \cup Reenvian /\ DeLaMostrada \ {QuitaFoto} = Reenvian
    BY PasosDeLosPlanes DEF DeLaMostrada, Reenvian
  <2> QED BY <1>1, <2>1 DEF LeeImagen
<1>3. Paso(p) = "lee" /\ UNCHANGED <<tipoFila, imagenes, publicId, filaViva, nube, subidas, rota, descartadas>>
  BY DEF LeeImagen
<1>4. /\ r \in PedidoImagen /\ r.plan \in Planes(tipoFila) /\ r.i \in 1 .. Len(r.plan)
      /\ r.plan[r.i] = "lee" /\ r.vieja \in 0 .. subidas /\ r.nueva \in 0 .. subidas
      /\ tipoFila \in TiposFila /\ imagenes \subseteq 1 .. subidas /\ nube \subseteq 1 .. subidas
      /\ subidas \in 0 .. MaxSubidas
      /\ Paso(p) = r.plan[r.i]
  BY <1>1, <1>3, EnSuPlan, TiposImagen
<1>5. publicId \in 0 .. subidas  BY TiposImagen DEF ImgInv
<1>6. v \in 0 .. subidas /\ (v # 0 => v \in imagenes)  BY <1>4
<1>7. CASE filaViva /\ (v = 0 => r.plan \notin {QuitaFoto} \cup Reenvian)
  <2>1. PICK w : w = IF tipoFila = "anuncio" THEN publicId ELSE v  OBVIOUS
  <2>2. PICK u : u = IF r.plan \in Reenvian THEN v ELSE r.nueva  OBVIOUS
  <2>3. PICK s : s = [r EXCEPT !.vieja = w, !.nueva = u]  OBVIOUS
  <2>4. w \in 0 .. subidas /\ u \in 0 .. subidas  BY <1>4, <1>5, <1>6, <2>1, <2>2
  <2>5. /\ s \in PedidoImagen /\ s.plan = r.plan /\ s.i = r.i /\ s.conId = r.conId
        /\ s.vieja = w /\ s.nueva = u
    <3>1. w \in IdsImagen /\ u \in IdsImagen  BY <1>4, <2>4 DEF IdsImagen
    <3> QED BY <1>4, <2>3, <3>1 DEF PedidoImagen
  <2>6. SigueImagen(p, s)  BY <1>2, <1>7, <2>1, <2>2, <2>3
  <2>7. r.plan \in Reenvian => tipoFila = "anuncio" /\ v # 0 /\ v \in imagenes
    BY <1>4, <1>6, <1>7, FormaDelPlan
  <2>8. filaViva /\ Ordenada => u = r.nueva \/ u \in nube \cup descartadas
    BY <2>2, <2>7 DEF NadaDestruido, ImgInv, Mostradas
  <2>9. r.plan # Agrega  BY <1>4, PasosDeLosPlanes
  <2>10. r.plan = QuitaFoto => tipoFila = "galeria" /\ w \in imagenes
    BY <1>4, <1>6, <1>7, <2>1, FormaDelPlan
  <2>11. r.nueva # 0 => u # 0  BY <2>2, <2>7
  <2>12. Paso(p) = "lee" /\ r.plan \in Reenvian => u # 0  BY <2>2, <2>7
  <2>13. /\ filaViva /\ Ordenada => s.nueva = r.nueva \/ s.nueva \in nube' \cup descartadas
         /\ s.vieja \in 0 .. subidas' /\ s.nueva \in 0 .. subidas'
         /\ r.nueva # 0 => s.nueva # 0
         /\ Paso(p) = "sube" => s.nueva # 0 /\ s.nueva \in nube'
         /\ Paso(p) = "lee" /\ r.plan \in Reenvian => s.nueva # 0
         /\ tipoFila = "galeria" /\ r.plan = QuitaFoto => s.vieja \in imagenes
    BY <1>3, <2>4, <2>5, <2>8, <2>10, <2>11, <2>12
  <2>14. /\ subidas' \in 0 .. MaxSubidas /\ subidas <= subidas'
         /\ nube \subseteq nube' /\ nube' \subseteq 1 .. subidas'
    BY <1>3, <1>4
  <2> QED BY <1>1, <1>3, <2>5, <2>6, <2>9, <2>13, <2>14, Prepara
<1>8. CASE ~(filaViva /\ (v = 0 => r.plan \notin {QuitaFoto} \cup Reenvian))
  BY <1>2, <1>8, <1>4, FormaDelPlan, <1>3, TiposImagen, SeVa
<1> QED BY <1>7, <1>8

LEMMA SubeImagenStep ==
    ASSUME ImgInv, NEW p \in PedidosImagen, SubeImagen(p)
    PROVE  ImgInv'
<1>1. PICK r : r = pedidoImagen[p]  OBVIOUS
<1>2. PICK s : s = [r EXCEPT !.nueva = subidas + 1]  OBVIOUS
<1>3. /\ Paso(p) = "sube" /\ subidas < MaxSubidas /\ subidas' = subidas + 1
      /\ nube' = nube \cup {subidas + 1} /\ SigueImagen(p, s)
      /\ UNCHANGED <<tipoFila, imagenes, publicId, filaViva, rota, descartadas>>
  BY <1>1, <1>2 DEF SubeImagen
<1>4. /\ r \in PedidoImagen /\ r.plan \in Planes(tipoFila) /\ r.i \in 1 .. Len(r.plan)
      /\ r.plan[r.i] = "sube" /\ r.vieja \in 0 .. subidas
      /\ tipoFila \in TiposFila /\ imagenes \subseteq 1 .. subidas /\ nube \subseteq 1 .. subidas
      /\ subidas \in 0 .. MaxSubidas
  BY <1>1, <1>3, EnSuPlan, TiposImagen
<1>5. subidas + 1 \in 0 .. MaxSubidas /\ subidas + 1 # 0 /\ subidas + 1 \notin imagenes
  BY <1>3, <1>4
<1>6. /\ s \in PedidoImagen /\ s.plan = r.plan /\ s.i = r.i /\ s.conId = r.conId
      /\ s.vieja = r.vieja /\ s.nueva = subidas + 1
  <2>1. PICK u : u = subidas + 1  OBVIOUS
  <2>2. u \in IdsImagen  BY <1>5, <2>1 DEF IdsImagen
  <2>3. s = [r EXCEPT !.nueva = u]  BY <1>2, <2>1
  <2>4. /\ s \in PedidoImagen /\ s.plan = r.plan /\ s.i = r.i /\ s.conId = r.conId
        /\ s.vieja = r.vieja /\ s.nueva = u
    BY <1>4, <2>2, <2>3 DEF PedidoImagen
  <2> QED BY <2>1, <2>4
<1>7. \A q \in PedidosImagen : pedidoImagen[q].nueva <= subidas /\ pedidoImagen[q].vieja <= subidas
  BY DEF ImgInv, EnPaso
<1>8. \A q \in PedidosImagen : subidas + 1 # pedidoImagen[q].nueva /\ subidas + 1 # pedidoImagen[q].vieja
  <2> SUFFICES ASSUME NEW q \in PedidosImagen
               PROVE  subidas + 1 # pedidoImagen[q].nueva /\ subidas + 1 # pedidoImagen[q].vieja
    OBVIOUS
  <2>1. PICK a, b : a = pedidoImagen[q].nueva /\ b = pedidoImagen[q].vieja  OBVIOUS
  <2>2. a <= subidas /\ b <= subidas  BY <1>7, <2>1
  <2>3. subidas + 1 # a /\ subidas + 1 # b  BY <1>4, <2>2
  <2> QED BY <2>1, <2>3
<1>9. r.plan # QuitaFoto  BY <1>4, PasosDeLosPlanes
<1>10. nube' \subseteq 1 .. subidas' /\ nube \subseteq nube' /\ s.nueva \in nube'
       /\ s.vieja \in 0 .. subidas' /\ s.nueva \in 0 .. subidas' /\ subidas <= subidas'
  <2>1. PICK u, w : u = subidas + 1 /\ w = r.vieja  OBVIOUS
  <2>2. subidas \in Nat /\ u \in Nat /\ u > subidas /\ w \in 0 .. subidas  BY <1>4, <2>1
  <2>3. u \in 0 .. u /\ w \in 0 .. u /\ subidas <= u /\ 1 .. u = (1 .. subidas) \cup {u}
    BY <2>1, <2>2
  <2>4. nube \cup {u} \subseteq 1 .. u  BY <1>4, <2>3
  <2> QED BY <1>3, <1>6, <2>1, <2>3, <2>4
<1> QED BY <1>1, <1>3, <1>5, <1>6, <1>8, <1>9, <1>10, Prepara

LEMMA BorraImagenStep ==
    ASSUME ImgInv, NEW p \in PedidosImagen, BorraImagen(p)
    PROVE  ImgInv'
<1>1. PICK r : r = pedidoImagen[p]  OBVIOUS
<1>2. /\ Paso(p) = "borra" /\ SigueImagen(p, r)
      /\ imagenes' = imagenes \ IF tipoFila = "galeria" THEN {r.vieja} ELSE {}
      /\ filaViva' = (tipoFila = "galeria")
      /\ UNCHANGED <<tipoFila, publicId, nube, subidas, rota, descartadas>>
  BY <1>1 DEF BorraImagen
<1>3. /\ r \in PedidoImagen /\ r.plan \in Planes(tipoFila) /\ r.i \in 1 .. Len(r.plan)
      /\ Len(r.plan) \in 1 .. 4
      /\ r.plan[r.i] = "borra" /\ r.vieja \in 0 .. subidas /\ r.nueva \in 0 .. subidas
      /\ tipoFila \in TiposFila /\ p \in EnObra
      /\ Paso(p) = r.plan[r.i]
  BY <1>1, <1>2, EnSuPlan, TiposImagen
<1>4. /\ pedidoImagen' \in [PedidosImagen -> PedidoImagen]
      /\ \A q \in PedidosImagen \ {p} : pedidoImagen'[q] = pedidoImagen[q]
  BY <1>1, <1>2, <1>3, Prosigue
<1>5. ImagenesTypeOK' /\ publicId' <= subidas'
  BY <1>2, TiposImagen, <1>4 DEF ImgInv, ImagenesTypeOK
<1>6. \A q \in PedidosImagen \ {p} : EnPaso(q)'  BY <1>2, <1>4, TiposImagen, OtrosEnPaso
<1>7. EnObra \subseteq PedidosImagen /\ Agregando \subseteq PedidosImagen /\ Quitando \subseteq PedidosImagen
  BY DEF EnObra, Agregando, Quitando
<1>8. CASE tipoFila # "galeria"
  <2>1. r.i = Len(r.plan)  BY <1>3, <1>8, FormaDelPlan
  <2>2. pedidoImagen'[p] = SinPedidoImagen  BY <1>1, <1>2, <1>3, <2>1, Prosigue
  <2>3. EnPaso(p)'  BY <1>2, <2>2, TiposImagen, SinPedidoEnPaso
  <2>4. EnObra' = EnObra \ {p}  BY <1>4, <2>2, TerminaImagen
  <2>5. tipoFila' \notin {"galeria", "fachada"} => DeUnaEnUna'
    BY <1>2, <1>4, <1>7, <2>4 DEF ImgInv, DeUnaEnUna
  <2>6. Guardadas' /\ Mostradas' /\ YaCambiada' /\ EnGaleria'
    BY <1>2, <1>8 DEF Guardadas, Mostradas, YaCambiada, EnGaleria
  <2> QED BY <1>5, <1>6, <2>3, <2>5, <2>6 DEF ImgInv
<1>9. CASE tipoFila = "galeria"
  <2>1. r.plan = QuitaFoto /\ r.i = 2 /\ Agrega # QuitaFoto /\ r.i < Len(r.plan)
    <3>1. r.plan = QuitaFoto /\ r.i = 2  BY <1>3, <1>9, FormaDelPlan
    <3>2. Len(QuitaFoto) = 3 /\ Agrega # QuitaFoto  BY PasosDeLosPlanes
    <3> QED BY <3>1, <3>2
  <2>2. /\ pedidoImagen'[p].plan = r.plan /\ pedidoImagen'[p].i = 3
        /\ pedidoImagen'[p].vieja = r.vieja /\ pedidoImagen'[p].nueva = r.nueva
        /\ pedidoImagen'[p].conId = r.conId
        /\ EnObra' = EnObra
        /\ Agregando' = Agregando \ {p} /\ Quitando' = Quitando
    BY <1>1, <1>2, <1>3, <1>7, <2>1, Prosigue
  <2>3. EnPaso(p)'  BY <1>2, <1>3, <2>1, <2>2, TiposImagen, <1>1, SiguienteEnPaso
  <2>4. Guardadas'  BY <1>2, <1>4, <1>7, <1>9, <2>2 DEF ImgInv, Guardadas, Ordenada, EnGaleria
  <2>5. Mostradas'  BY <1>2, <1>9 DEF ImgInv, EnGaleria, Ordenada, NadaDestruido, Mostradas
  <2>6. YaCambiada'  BY <1>2, <1>9 DEF YaCambiada
  <2>7. EnGaleria'
    <3>1. /\ \A q \in Agregando : pedidoImagen[q].nueva \notin imagenes
          /\ \A q, t \in Agregando : pedidoImagen[t].nueva = pedidoImagen[q].nueva => t = q
          /\ \A q \in Agregando, t \in Quitando : pedidoImagen[q].nueva # pedidoImagen[t].vieja
          /\ \A q \in Quitando : pedidoImagen[q].i = 3 => pedidoImagen[q].vieja \notin imagenes
      BY <1>9 DEF ImgInv, EnGaleria
    <3>2. \A q \in Agregando' : q \in Agregando /\ pedidoImagen'[q] = pedidoImagen[q]
      BY <1>4, <1>7, <2>2
    <3>3. \A q \in Quitando' : /\ q \in Quitando /\ pedidoImagen'[q].vieja = pedidoImagen[q].vieja
                               /\ q # p => pedidoImagen'[q] = pedidoImagen[q]
      BY <1>1, <1>4, <1>7, <2>2
    <3>4. filaViva' /\ imagenes' = imagenes \ {r.vieja}  BY <1>2, <1>9
    <3>5. \A q \in Quitando' : pedidoImagen'[q].i = 3 => pedidoImagen'[q].vieja \notin imagenes'
      BY <1>1, <3>1, <3>3, <3>4
    <3>6. \A q \in Agregando' : pedidoImagen'[q].nueva \notin imagenes'  BY <3>1, <3>2, <3>4
    <3>7. \A q, t \in Agregando' : pedidoImagen'[q].nueva = pedidoImagen'[t].nueva => q = t
      BY <3>1, <3>2
    <3>8. \A q \in Agregando', t \in Quitando' : pedidoImagen'[q].nueva # pedidoImagen'[t].vieja
      BY <3>1, <3>2, <3>3
    <3> QED BY <3>4, <3>5, <3>6, <3>7, <3>8 DEF EnGaleria
  <2> QED BY <1>2, <1>5, <1>6, <1>9, <2>3, <2>4, <2>5, <2>6, <2>7 DEF ImgInv
<1> QED BY <1>8, <1>9

LEMMA DestruyeImagenStep ==
    ASSUME ImgInv, NEW p \in PedidosImagen, DestruyeImagen(p)
    PROVE  ImgInv'
<1>1. PICK r : r = pedidoImagen[p]  OBVIOUS
<1>2. PICK d : d = Destruidas(r)  OBVIOUS
<1>3. /\ Paso(p) = "destruye" /\ nube' \in {nube, nube \ d} /\ SigueImagen(p, r)
      /\ UNCHANGED <<tipoFila, imagenes, publicId, filaViva, subidas, rota, descartadas>>
  BY <1>1, <1>2 DEF DestruyeImagen
<1>4. d \subseteq {r.vieja} /\ (r.conId => r.nueva \notin d)  BY <1>2 DEF Destruidas
<1>5. /\ r \in PedidoImagen /\ r.plan \in Planes(tipoFila) /\ r.i \in 1 .. Len(r.plan)
      /\ Len(r.plan) \in 1 .. 4 /\ r.plan[r.i] = "destruye"
      /\ r.vieja \in 0 .. subidas /\ r.nueva \in 0 .. subidas
      /\ tipoFila \in TiposFila /\ p \in EnObra /\ Paso(p) = r.plan[r.i]
  BY <1>1, <1>3, EnSuPlan, TiposImagen
<1>6. nube' \subseteq nube /\ nube \ d \subseteq nube' /\ nube' \subseteq 1 .. subidas
  BY <1>3, TiposImagen
<1>7. /\ pedidoImagen' \in [PedidosImagen -> PedidoImagen]
      /\ \A q \in PedidosImagen \ {p} : pedidoImagen'[q] = pedidoImagen[q]
      /\ r.i = Len(r.plan) => pedidoImagen'[p] = SinPedidoImagen
      /\ r.i < Len(r.plan) =>
            /\ pedidoImagen'[p].plan = r.plan /\ pedidoImagen'[p].i = r.i + 1
            /\ pedidoImagen'[p].vieja = r.vieja /\ pedidoImagen'[p].nueva = r.nueva
            /\ pedidoImagen'[p].conId = r.conId /\ EnObra' = EnObra
            /\ SinDestruir(p)' <=> SinDestruir(p) /\ r.plan[r.i] # "destruye"
      /\ \A q \in PedidosImagen \ {p} : Paso(q)' = Paso(q) /\ SinDestruir(q)' = SinDestruir(q)
  BY <1>1, <1>3, <1>5, Prosigue
<1>8. r.i = Len(r.plan) \/ r.i < Len(r.plan)
  <2>1. PICK i, n : i = r.i /\ n = Len(r.plan)  OBVIOUS
  <2>2. i \in 1 .. n /\ n \in 1 .. 4  BY <1>5, <2>1
  <2>3. i = n \/ i < n  BY <2>2
  <2> QED BY <2>1, <2>3
<1>9. ImagenesTypeOK' /\ publicId' <= subidas'  BY <1>3, <1>6, <1>7 DEF ImgInv, ImagenesTypeOK
<1>10. \A q \in PedidosImagen : EnPaso(q)'
  <2>1. \A q \in PedidosImagen \ {p} : EnPaso(q)'  BY <1>3, <1>7, TiposImagen, OtrosEnPaso
  <2>2. CASE r.i = Len(r.plan)  BY <1>3, <1>7, <2>1, <2>2, TiposImagen, SinPedidoEnPaso
  <2>3. CASE r.i < Len(r.plan)  BY <1>3, <1>5, <1>7, <2>3, TiposImagen, <1>1, <2>1, SiguienteEnPaso
  <2> QED BY <1>8, <2>2, <2>3
<1>11. EnObra \subseteq PedidosImagen /\ Agregando \subseteq PedidosImagen /\ Quitando \subseteq PedidosImagen
  BY DEF EnObra, Agregando, Quitando
<1>12. EnObra' \subseteq EnObra  BY <1>7, <1>8, TerminaImagen
<1>13. tipoFila' \notin {"galeria", "fachada"} => DeUnaEnUna'
  <2>1. \A q \in EnObra' : /\ pedidoImagen'[q].conId = pedidoImagen[q].conId
                            /\ pedidoImagen'[q].plan = pedidoImagen[q].plan
    <3> SUFFICES ASSUME NEW q \in EnObra' PROVE /\ pedidoImagen'[q].conId = pedidoImagen[q].conId
                                                /\ pedidoImagen'[q].plan = pedidoImagen[q].plan
      OBVIOUS
    <3>1. CASE q # p  BY <1>7, <1>11, <1>12, <3>1
    <3>2. CASE q = p /\ r.i < Len(r.plan)  BY <1>1, <1>7, <3>2
    <3>3. CASE q = p /\ r.i = Len(r.plan)  BY <1>7, <3>3, TerminaImagen
    <3> QED BY <1>8, <3>1, <3>2, <3>3
  <2> QED BY <1>3, <1>12, <2>1 DEF ImgInv, DeUnaEnUna
<1>14. tipoFila # "fachada"  BY <1>5, FormaDelPlan
<1>15. CASE tipoFila = "galeria"
  <2>1. r.plan = QuitaFoto /\ r.i = 3  BY <1>5, <1>15, FormaDelPlan
  <2>2. r.i = Len(r.plan)  BY <2>1, PasosDeLosPlanes
  <2>3. /\ pedidoImagen'[p] = SinPedidoImagen /\ Agregando' = Agregando \ {p}
        /\ Quitando' = Quitando \ {p} /\ p \in Quitando
    BY <1>1, <1>7, <2>1, <2>2, TerminaImagen DEF Quitando
  <2>4. /\ filaViva
        /\ \A q \in Agregando : pedidoImagen[q].nueva \notin imagenes
        /\ \A q, t \in Agregando : pedidoImagen[t].nueva = pedidoImagen[q].nueva => t = q
        /\ \A q \in Agregando, t \in Quitando : pedidoImagen[q].nueva # pedidoImagen[t].vieja
        /\ \A q \in Quitando : pedidoImagen[q].i = 3 => pedidoImagen[q].vieja \notin imagenes
    BY <1>15 DEF ImgInv, EnGaleria
  <2>5. Ordenada /\ NadaDestruido  BY <1>15 DEF Ordenada, NadaDestruido
  <2>6. Mostradas'  BY <1>1, <2>1, <2>3, <2>4, <2>5, <1>3, <1>4, <1>6 DEF ImgInv, Mostradas
  <2>7. Guardadas'
    <3> SUFFICES ASSUME NEW q \in Agregando', pedidoImagen'[q].nueva # 0
                 PROVE  pedidoImagen'[q].nueva \in nube' \cup descartadas
      BY <1>3, <1>15 DEF Guardadas
    <3>1. q \in Agregando /\ q # p /\ pedidoImagen'[q] = pedidoImagen[q]  BY <1>7, <1>11, <2>3
    <3>2. pedidoImagen[q].nueva \in nube \cup descartadas
      BY <1>11, <2>4, <2>5, <3>1 DEF ImgInv, Guardadas
    <3>3. pedidoImagen[q].nueva # r.vieja  BY <1>1, <2>3, <2>4, <3>1
    <3> QED BY <1>4, <1>6, <3>1, <3>2, <3>3
  <2>8. EnGaleria'  BY <1>7, <1>11, <2>3, <1>3, <2>4 DEF EnGaleria
  <2>9. YaCambiada'  BY <1>3, <1>15 DEF YaCambiada
  <2> QED BY <1>9, <1>10, <1>13, <2>6, <2>7, <2>8, <2>9 DEF ImgInv
<1>16. CASE tipoFila \in {"logo", "promocion", "anuncio"}
  <2>1. EnGaleria'  BY <1>3, <1>16 DEF EnGaleria
  <2>2. Ordenada => ~rota /\ r.conId /\ EnObra = {p}
    <3>1. tipoFila = "anuncio" => r.plan \in DestruyePrevia  BY <1>5, FormaDelPlan
    <3>2. tipoFila # "anuncio" => r.conId  BY <1>1, <1>3, EnSuPlan
    <3> QED BY <1>1, <1>5, <1>16, <3>1, <3>2 DEF Ordenada, ImgInv, DeUnaEnUna
  <2>3. Ordenada' = Ordenada  BY <1>3 DEF Ordenada
  <2>4. Ordenada => \A q \in PedidosImagen \ {p} : pedidoImagen[q] = SinPedidoImagen
    BY <2>2 DEF EnObra
  <2>5. Guardadas'
    <3> SUFFICES ASSUME filaViva, Ordenada, NEW q \in PedidosImagen, pedidoImagen'[q].nueva # 0
                 PROVE  pedidoImagen'[q].nueva \in nube' \cup descartadas
      BY <1>3, <2>3 DEF Guardadas
    <3>1. q = p  BY <1>7, <2>4, SinPedidoImagenType
    <3>2. r.i < Len(r.plan) /\ pedidoImagen'[p].nueva = r.nueva
      BY <1>7, <1>8, <3>1, SinPedidoImagenType
    <3>3. r.nueva \in nube \cup descartadas
      BY <1>1, <1>16, <3>1, <3>2 DEF ImgInv, Guardadas
    <3> QED BY <1>4, <1>6, <2>2, <3>1, <3>2, <3>3
  <2>6. CASE tipoFila = "anuncio"
    <3>1. r.i = Len(r.plan)  BY <1>5, <2>6, FormaDelPlan
    <3>2. EnObra' = EnObra \ {p}  BY <1>7, <3>1, TerminaImagen
    <3>3. YaCambiada'  BY <1>3, <2>2, <3>2 DEF YaCambiada, Ordenada
    <3>4. Mostradas'
      <4> SUFFICES ASSUME filaViva, Ordenada PROVE imagenes \subseteq nube' \cup descartadas
        BY <1>3, <2>3 DEF Mostradas
      <4>1. NadaDestruido  BY <2>6 DEF NadaDestruido
      <4>2. imagenes \subseteq nube \cup descartadas  BY <4>1 DEF ImgInv, Mostradas
      <4>3. imagenes = {r.nueva}  BY <1>1, <1>3, <1>5, <2>2, <2>6 DEF ImgInv, YaCambiada
      <4> QED BY <1>4, <1>6, <2>2, <4>2, <4>3
    <3> QED BY <1>9, <1>10, <1>13, <2>1, <2>5, <3>3, <3>4 DEF ImgInv
  <2>7. CASE tipoFila \in {"logo", "promocion"}
    <3>1. r.i < Len(r.plan)  BY <1>5, <2>7, FormaDelPlan
    <3>2. ~NadaDestruido'  BY <1>3, <1>5, <1>7, <2>7, <3>1 DEF NadaDestruido
    <3>3. Mostradas' /\ YaCambiada'  BY <1>3, <2>7, <3>2 DEF Mostradas, YaCambiada
    <3> QED BY <1>9, <1>10, <1>13, <2>1, <2>5, <3>3 DEF ImgInv
  <2> QED BY <1>16, <2>6, <2>7
<1> QED BY <1>5, <1>14, <1>15, <1>16 DEF TiposFila

LEMMA GuardaImagenStep ==
    ASSUME ImgInv, NEW p \in PedidosImagen, GuardaImagen(p)
    PROVE  ImgInv'
<1>1. PICK r : r = pedidoImagen[p]  OBVIOUS
<1>2. /\ Paso(p) = "guarda" /\ UNCHANGED <<tipoFila, filaViva, nube, subidas, rota, descartadas>>
      /\ filaViva =>
            /\ imagenes' = {r.nueva} \cup IF tipoFila = "galeria" THEN imagenes ELSE {}
            /\ publicId' = IF r.conId THEN r.nueva ELSE publicId
            /\ SigueImagen(p, r)
      /\ ~filaViva => AbandonaImagen(p) /\ UNCHANGED <<imagenes, publicId, descartadas>>
  BY <1>1 DEF GuardaImagen
<1>3. CASE ~filaViva  BY <1>2, <1>3, TiposImagen, SeVa
<1>4. CASE filaViva
  <2>1. /\ r \in PedidoImagen /\ r.plan \in Planes(tipoFila) /\ r.i \in 1 .. Len(r.plan)
        /\ Len(r.plan) \in 1 .. 4 /\ r.plan[r.i] = "guarda"
        /\ r.vieja \in 0 .. subidas /\ r.nueva \in 0 .. subidas
        /\ tipoFila \in TiposFila /\ p \in EnObra /\ Paso(p) = r.plan[r.i]
        /\ \A k \in 1 .. r.i - 1 : r.plan[k] = "sube" \/ r.plan \in Reenvian => r.nueva # 0
    BY <1>1, <1>2, EnSuPlan, TiposImagen
  <2>2. r.nueva # 0
    <3>1. \/ r.plan \in Reenvian /\ r.i = 2
          \/ \E j \in 1 .. r.i - 1 : r.plan[j] = "sube"
      BY <2>1, FormaDelPlan
    <3>2. CASE r.plan \in Reenvian /\ r.i = 2
      <4>1. 1 \in 1 .. r.i - 1  BY <3>2
      <4> QED BY <2>1, <3>2, <4>1
    <3>3. CASE \E j \in 1 .. r.i - 1 : r.plan[j] = "sube"  BY <2>1, <3>3
    <3> QED BY <3>1, <3>2, <3>3
  <2>3. /\ imagenes' = {r.nueva} \cup IF tipoFila = "galeria" THEN imagenes ELSE {}
        /\ publicId' = IF r.conId THEN r.nueva ELSE publicId
        /\ SigueImagen(p, r)
    BY <1>2, <1>4
  <2>4. imagenes' \subseteq 1 .. subidas /\ publicId' \in 0 .. MaxSubidas /\ publicId' <= subidas
    <3>1. PICK u : u = r.nueva  OBVIOUS
    <3>2. u \in 1 .. subidas /\ u \in 0 .. MaxSubidas /\ u <= subidas
      BY <2>1, <2>2, <3>1, TiposImagen
    <3> QED BY <2>3, <3>1, <3>2, TiposImagen DEF ImgInv
  <2>5. /\ pedidoImagen' \in [PedidosImagen -> PedidoImagen]
        /\ \A q \in PedidosImagen \ {p} : pedidoImagen'[q] = pedidoImagen[q]
        /\ r.i = Len(r.plan) => pedidoImagen'[p] = SinPedidoImagen
        /\ r.i < Len(r.plan) =>
              /\ pedidoImagen'[p].plan = r.plan /\ pedidoImagen'[p].i = r.i + 1
              /\ pedidoImagen'[p].vieja = r.vieja /\ pedidoImagen'[p].nueva = r.nueva
              /\ pedidoImagen'[p].conId = r.conId /\ EnObra' = EnObra
              /\ SinDestruir(p)' <=> SinDestruir(p) /\ r.plan[r.i] # "destruye"
        /\ \A q \in PedidosImagen \ {p} : Paso(q)' = Paso(q) /\ SinDestruir(q)' = SinDestruir(q)
    BY <1>1, <1>2, <2>1, <2>3, Prosigue
  <2>6. r.i = Len(r.plan) \/ r.i < Len(r.plan)
    <3>1. PICK i, n : i = r.i /\ n = Len(r.plan)  OBVIOUS
    <3>2. i \in 1 .. n /\ n \in 1 .. 4  BY <2>1, <3>1
    <3>3. i = n \/ i < n  BY <3>2
    <3> QED BY <3>1, <3>3
  <2>7. ImagenesTypeOK' /\ publicId' <= subidas'
    BY <1>2, <2>4, <2>5 DEF ImgInv, ImagenesTypeOK, IdsImagen
  <2>8. \A q \in PedidosImagen : EnPaso(q)'
    <3>1. \A q \in PedidosImagen \ {p} : EnPaso(q)'  BY <1>2, <2>5, TiposImagen, OtrosEnPaso
    <3>2. CASE r.i = Len(r.plan)  BY <1>2, <2>5, <3>1, <3>2, TiposImagen, SinPedidoEnPaso
    <3>3. CASE r.i < Len(r.plan)
      <4>1. "guarda" # "sube" /\ "guarda" # "lee" /\ subidas' \in Int /\ subidas <= subidas'
            /\ pedidoImagen'[p].vieja \in 0 .. subidas' /\ pedidoImagen'[p].nueva \in 0 .. subidas'
        BY <1>2, <2>1, <2>5, <3>3, TiposImagen
      <4> QED BY <1>1, <1>2, <2>5, <3>1, <3>3, <4>1, SiguienteEnPaso
    <3> QED BY <2>6, <3>2, <3>3
  <2>9. EnObra \subseteq PedidosImagen /\ Agregando \subseteq PedidosImagen /\ Quitando \subseteq PedidosImagen
    BY DEF EnObra, Agregando, Quitando
  <2>10. EnObra' \subseteq EnObra  BY <2>5, <2>6, TerminaImagen
  <2>11. \A q \in EnObra' : /\ pedidoImagen'[q].conId = pedidoImagen[q].conId
                            /\ pedidoImagen'[q].nueva = pedidoImagen[q].nueva
                            /\ pedidoImagen'[q].plan = pedidoImagen[q].plan
    <3> SUFFICES ASSUME NEW q \in EnObra' PROVE /\ pedidoImagen'[q].conId = pedidoImagen[q].conId
                                                /\ pedidoImagen'[q].nueva = pedidoImagen[q].nueva
                                                /\ pedidoImagen'[q].plan = pedidoImagen[q].plan
      OBVIOUS
    <3>1. CASE q # p  BY <2>5, <2>9, <2>10, <3>1
    <3>2. CASE q = p /\ r.i < Len(r.plan)  BY <1>1, <2>5, <3>2
    <3>3. CASE q = p /\ r.i = Len(r.plan)  BY <2>5, <3>3, TerminaImagen
    <3> QED BY <2>6, <3>1, <3>2, <3>3
  <2>12. tipoFila' \notin {"galeria", "fachada"} => DeUnaEnUna'
    BY <1>2, <2>10, <2>11 DEF ImgInv, DeUnaEnUna
  <2>13. Ordenada' = Ordenada  BY <1>2 DEF Ordenada
  <2>14. Ordenada => r.nueva \in nube \cup descartadas
    BY <1>1, <2>1, FormaDelPlan, <1>4, <2>2 DEF Agregando, ImgInv, Guardadas
  <2>15. Mostradas'  BY <1>4, <1>2, <2>3, <2>13, <2>14 DEF ImgInv, Mostradas, NadaDestruido
  <2>16. YaCambiada'
    <3> SUFFICES ASSUME tipoFila = "anuncio", ~rota, NEW q \in EnObra'
                 PROVE  imagenes' = {pedidoImagen'[q].nueva}
      BY <1>2 DEF YaCambiada
    <3>1. q = p  BY <2>1, <2>10 DEF ImgInv, DeUnaEnUna
    <3> QED BY <1>1, <2>3, <2>11, <3>1
  <2>17. CASE tipoFila = "galeria"
    <3>1. r.plan = Agrega /\ r.i = 2  BY <2>1, <2>17, FormaDelPlan
    <3>2. r.i = Len(r.plan)  BY <3>1, PasosDeLosPlanes
    <3>3. /\ pedidoImagen'[p] = SinPedidoImagen /\ Agregando' = Agregando \ {p}
          /\ Quitando' = Quitando \ {p} /\ p \in Agregando
      BY <1>1, <2>5, <3>1, <3>2, TerminaImagen DEF Agregando
    <3>4. /\ \A q \in Agregando : pedidoImagen[q].nueva \notin imagenes
          /\ \A q, t \in Agregando : pedidoImagen[t].nueva = pedidoImagen[q].nueva => t = q
          /\ \A q \in Agregando, t \in Quitando : pedidoImagen[q].nueva # pedidoImagen[t].vieja
          /\ \A q \in Quitando : pedidoImagen[q].i = 3 => pedidoImagen[q].vieja \notin imagenes
      BY <2>17 DEF ImgInv, EnGaleria
    <3>5. \A q \in Agregando' : q \in Agregando /\ q # p /\ pedidoImagen'[q] = pedidoImagen[q]
      BY <2>5, <2>9, <3>3
    <3>6. \A q \in Quitando' : q \in Quitando /\ pedidoImagen'[q] = pedidoImagen[q]
      BY <2>5, <2>9, <3>3
    <3>7. imagenes' = imagenes \cup {r.nueva} /\ filaViva'  BY <1>2, <1>4, <2>3, <2>17
    <3>8. \A q \in Agregando' : pedidoImagen'[q].nueva \notin imagenes'
      BY <1>1, <3>3, <3>4, <3>5, <3>7
    <3>9. \A q \in Quitando' : pedidoImagen'[q].i = 3 => pedidoImagen'[q].vieja \notin imagenes'
      BY <1>1, <3>3, <3>4, <3>6, <3>7
    <3>10. EnGaleria'  BY <3>4, <3>5, <3>6, <3>7, <3>8, <3>9 DEF EnGaleria
    <3>11. Guardadas'  BY <1>2, <1>4, <2>9, <2>17, <3>5 DEF ImgInv, Guardadas, Ordenada
    <3> QED BY <1>2, <2>7, <2>8, <2>12, <2>15, <2>16, <2>17, <3>10, <3>11 DEF ImgInv
  <2>18. CASE tipoFila # "galeria"
    <3>1. EnGaleria'  BY <1>2, <2>18 DEF EnGaleria
    <3>2. Guardadas'
      <4> SUFFICES ASSUME Ordenada, NEW q \in PedidosImagen, pedidoImagen'[q].nueva # 0
                   PROVE  pedidoImagen'[q].nueva \in nube \cup descartadas
        BY <1>2, <2>13 DEF Guardadas
      <4>1. CASE q # p  BY <1>4, <2>5, <2>18, <4>1 DEF ImgInv, Guardadas
      <4>2. CASE q = p  BY <2>5, <2>6, <2>14, <4>2, SinPedidoImagenType
      <4> QED BY <4>1, <4>2
    <3> QED BY <2>7, <2>8, <2>12, <2>15, <2>16, <3>1, <3>2 DEF ImgInv
  <2> QED BY <2>17, <2>18
<1> QED BY <1>3, <1>4

\* A step that leaves the requests and the row alone.
LEMMA PedidosQuietos ==
    ASSUME UNCHANGED <<tipoFila, pedidoImagen, subidas, rota, filaViva, imagenes>>
    PROVE  /\ \A p : EnPaso(p)' = EnPaso(p)
           /\ EnObra' = EnObra /\ Agregando' = Agregando /\ Quitando' = Quitando
           /\ \A p : Paso(p)' = Paso(p) /\ SinDestruir(p)' = SinDestruir(p)
           /\ Ordenada' = Ordenada /\ NadaDestruido' = NadaDestruido
           /\ DeUnaEnUna' = DeUnaEnUna /\ YaCambiada' = YaCambiada /\ EnGaleria' = EnGaleria
<1>1. /\ \A p : EnPaso(p)' = EnPaso(p)
      /\ EnObra' = EnObra /\ Agregando' = Agregando /\ Quitando' = Quitando
      /\ \A p : Paso(p)' = Paso(p) /\ SinDestruir(p)' = SinDestruir(p)
      /\ Ordenada' = Ordenada
  BY DEF EnPaso, EnObra, Agregando, Quitando, Paso, SinDestruir, Ordenada
<1>2. NadaDestruido' = NadaDestruido  BY <1>1 DEF NadaDestruido
<1>3. DeUnaEnUna' = DeUnaEnUna /\ YaCambiada' = YaCambiada /\ EnGaleria' = EnGaleria
  BY <1>1 DEF DeUnaEnUna, YaCambiada, EnGaleria
<1> QED BY <1>1, <1>2, <1>3

\* What DELETE /ads/upload destroys was kept, and is said to be destroyed.
LEMMA DeleteCloudinaryStep ==
    ASSUME ImgInv, NEW k \in 1 .. subidas, DeleteCloudinary(k)
    PROVE  ImgInv'
<1>1. /\ nube' = nube \ {k} /\ descartadas' = descartadas \cup {k} /\ k \in nube
      /\ UNCHANGED <<tipoFila, imagenes, publicId, filaViva, subidas, pedidoImagen, rota>>
  BY DEF DeleteCloudinary
<1>2. nube' \cup descartadas' = nube \cup descartadas  BY <1>1
<1>3. ImagenesTypeOK' /\ publicId' <= subidas'  BY <1>1 DEF ImgInv, ImagenesTypeOK
<1>4. Guardadas' /\ Mostradas'
  BY <1>1, <1>2, PedidosQuietos DEF ImgInv, Guardadas, Mostradas
<1> QED BY <1>1, <1>3, <1>4, PedidosQuietos DEF ImgInv

LEMMA EditaPublicIdStep ==
    ASSUME ImgInv, NEW k \in 0 .. subidas, EditaPublicId(k)
    PROVE  ImgInv'
<1>1. /\ publicId' = k
      /\ UNCHANGED <<tipoFila, imagenes, filaViva, nube, subidas, pedidoImagen, rota, descartadas>>
  BY DEF EditaPublicId
<1>2. ImagenesTypeOK' /\ publicId' <= subidas'  BY <1>1, TiposImagen DEF ImgInv, ImagenesTypeOK, IdsImagen
<1>3. Guardadas' /\ Mostradas'  BY <1>1, PedidosQuietos DEF ImgInv, Guardadas, Mostradas
<1> QED BY <1>1, <1>2, <1>3, PedidosQuietos DEF ImgInv

--------------------
(* The theorems.                                                           *)

LEMMA ImgInit == ImagenesInit => ImgInv
<1> SUFFICES ASSUME ImagenesInit PROVE ImgInv  OBVIOUS
<1>1. /\ tipoFila \in TiposFila /\ imagenes = {} /\ publicId = 0 /\ filaViva = TRUE
      /\ nube = {} /\ subidas = 0 /\ rota = FALSE /\ descartadas = {}
      /\ pedidoImagen = [p \in PedidosImagen |-> SinPedidoImagen]
  BY DEF ImagenesInit
<1>2. ImagenesTypeOK /\ publicId <= subidas
  <2>1. 0 \in IdsImagen  BY DEF IdsImagen
  <2>2. pedidoImagen \in [PedidosImagen -> PedidoImagen]  BY <1>1, SinPedidoImagenType
  <2>3. publicId <= subidas  BY <1>1
  <2> QED BY <1>1, <2>1, <2>2, <2>3 DEF ImagenesTypeOK
<1>3. \A p \in PedidosImagen : pedidoImagen[p] = SinPedidoImagen  BY <1>1
<1>4. \A p \in PedidosImagen : EnPaso(p)
  <2> SUFFICES ASSUME NEW p \in PedidosImagen PROVE EnPaso(p)  OBVIOUS
  <2>1. 0 <= subidas  BY <1>1
  <2> QED BY <1>3, <2>1, SinPedidoImagenType DEF EnPaso
<1>5. EnObra = {} /\ Agregando = {} /\ Quitando = {}
  <2>1. <<>> # Agrega /\ <<>> # QuitaFoto  BY DEF Agrega, QuitaFoto
  <2> QED BY <1>3, <2>1, SinPedidoImagenType DEF EnObra, Agregando, Quitando
<1>6. DeUnaEnUna /\ YaCambiada  BY <1>5 DEF DeUnaEnUna, YaCambiada
<1>7. Guardadas /\ Mostradas  BY <1>1, <1>3, SinPedidoImagenType DEF Guardadas, Mostradas
<1>8. EnGaleria  BY <1>1, <1>5 DEF EnGaleria
<1> QED BY <1>2, <1>4, <1>6, <1>7, <1>8 DEF ImgInv

LEMMA ImgStep == ImgInv /\ [ImagenesNext]_imagenesVars => ImgInv'
<1> SUFFICES ASSUME ImgInv, [ImagenesNext]_imagenesVars PROVE ImgInv'  OBVIOUS
<1>1. CASE \E p \in PedidosImagen :
          \/ \E plan \in Planes(tipoFila), conId \in BOOLEAN :
               (conId \/ tipoFila = "anuncio") /\ PideImagen(p, plan, conId)
          \/ LeeImagen(p) \/ SubeImagen(p) \/ DestruyeImagen(p)
          \/ GuardaImagen(p) \/ BorraImagen(p) \/ FallaImagen(p)
  <2>1. PICK p \in PedidosImagen :
          \/ \E plan \in Planes(tipoFila), conId \in BOOLEAN :
               (conId \/ tipoFila = "anuncio") /\ PideImagen(p, plan, conId)
          \/ LeeImagen(p) \/ SubeImagen(p) \/ DestruyeImagen(p)
          \/ GuardaImagen(p) \/ BorraImagen(p) \/ FallaImagen(p)
    BY <1>1
  <2> QED BY <2>1, PideImagenStep, LeeImagenStep, SubeImagenStep, DestruyeImagenStep,
             GuardaImagenStep, BorraImagenStep, FallaImagenStep
<1>3. CASE \E k \in 1 .. subidas : DeleteCloudinary(k)  BY <1>3, DeleteCloudinaryStep
<1>4. CASE \E k \in 0 .. subidas : EditaPublicId(k)  BY <1>4, EditaPublicIdStep
<1>2. CASE UNCHANGED imagenesVars
  <2>1. UNCHANGED <<tipoFila, imagenes, publicId, filaViva, nube, subidas, pedidoImagen, rota, descartadas>>
    BY <1>2 DEF imagenesVars
  <2>2. ImagenesTypeOK' = ImagenesTypeOK  BY <2>1 DEF ImagenesTypeOK
  <2>3. Guardadas' = Guardadas /\ Mostradas' = Mostradas
    BY <2>1, PedidosQuietos DEF Guardadas, Mostradas
  <2> QED BY <2>1, <2>2, <2>3, PedidosQuietos DEF ImgInv
<1> QED BY <1>1, <1>2, <1>3, <1>4 DEF ImagenesNext

\* What is shown is kept, whenever ImagenesVivas says so.
LEMMA ImgVivas == ImgInv => ImagenesVivas
<1> SUFFICES ASSUME ImgInv, filaViva, ~(tipoFila \in {"logo", "promocion", "anuncio"} /\ rota),
                    ~(tipoFila \in {"logo", "promocion"} /\ EnObra # {})
             PROVE  imagenes \subseteq nube \cup descartadas
  BY DEF ImagenesVivas
<1>1. Ordenada  BY DEF ImgInv, ImagenesTypeOK, TiposFila, Ordenada
<1>2. NadaDestruido  BY DEF NadaDestruido
<1> QED BY <1>1, <1>2 DEF ImgInv, Mostradas

LEMMA ImgInvariante == ImagenesSpec => []ImgInv
  BY ImgInit, ImgStep, PTL DEF ImagenesSpec

\* The row shows images that were uploaded, and each request is at a step of its plan:
\* the order in which its controller calls Cloudinary and the database.
THEOREM ImagenesTypes == ImagenesSpec => []ImagenesTypeOK
<1>1. ImgInv => ImagenesTypeOK  BY DEF ImgInv
<1> QED BY <1>1, ImgInvariante, PTL

\* Whatever calls fail and however many requests add and remove photos, the gallery and
\* the front of a branch show images that Cloudinary keeps; an advert, a logo or a
\* promotion, as long as its requests did not overlap (updateAdImage, eliminarFoto).
THEOREM ImagenesCumplen == ImagenesSpec => []ImagenesVivas
  BY ImgInvariante, ImgVivas, PTL

HIDE ImagenesAssumption DEF ImagenesAssumption

--------------------
(* Sesiones.  A device is signed out by nobody but its subscriber.         *)

LEMMA Cotas == /\ MaxSesiones \in Nat /\ MaxJti \in Nat /\ MaxCierres \in Nat
               /\ MaxPerdidas \in Nat /\ MaxFaults \in Nat
  BY SesionesAssumption DEF SesionesAssumption

USE Cotas DEF Ids, Jtis, Token, Nada, Viejo, tablas, cuentas

LEMMA Constantes == /\ NoSuscriptor \notin Suscriptores /\ NoDispositivo \notin Dispositivos
                    /\ \A d \in Dispositivos : De[d] \in Suscriptores
  BY SesionesAssumption DEF SesionesAssumption

--------------------
(* Types.                                                                  *)

\* The ids given out are rows, and no row has a jti that was not signed.
FilasOK ==
    \A i \in Ids : IF i < siguienteId THEN sesiones[i] \in Fila /\ sesiones[i].jti <= jti
                   ELSE sesiones[i] = NoFila

\* What the step of a request says about its locals.
LocalesOK ==
    \A m \in Workers : /\ worker[m].paso # "idle" => Titular(m) \in Suscriptores
                       /\ At(m, "rota") => worker[m].id \in Ids /\ worker[m].id < siguienteId

TypeInv == TypeOK /\ FilasOK /\ LocalesOK

LEMMA IdleOK == Idle \in Worker /\ Idle.paso = "idle"
  BY DEF Idle, Worker, Ops, Pasos

LEMMA TypeInit == Init => TypeInv
<1> SUFFICES ASSUME Init PROVE TypeInv  OBVIOUS
<1>1. TypeOK  BY IdleOK DEF Init, TypeOK
<1>2. FilasOK /\ LocalesOK  BY IdleOK DEF Init, FilasOK, LocalesOK, At
<1> QED BY <1>1, <1>2 DEF TypeInv

\* The locals after a step of one worker.
WorkersOK ==
    /\ worker' \in [Workers -> Worker]
    /\ \A m \in Workers :
          /\ worker'[m].paso # "idle" => worker'[m].suscriptor \in Suscriptores
          /\ worker'[m].paso = "rota" => worker'[m].id \in Ids /\ worker'[m].id < siguienteId

LEMMA WorkerStep ==
    ASSUME TypeInv, NEW m \in Workers, NEW w \in Worker, Goes(m, w),
           w.paso # "idle" => w.suscriptor \in Suscriptores,
           w.paso = "rota" => w.id \in Ids /\ w.id < siguienteId
    PROVE  WorkersOK
  BY DEF TypeInv, TypeOK, LocalesOK, Goes, WorkersOK, At, Titular

LEMMA WorkerSame == ASSUME TypeInv, UNCHANGED worker PROVE WorkersOK
  BY DEF TypeInv, TypeOK, LocalesOK, WorkersOK, At, Titular

LEMMA WorkerEnds == ASSUME TypeInv, NEW m \in Workers, Goes(m, Idle) PROVE WorkersOK
  BY IdleOK, WorkerStep

LEMMA WorkerMoves ==
    ASSUME TypeInv, NEW m \in Workers, worker[m].paso # "idle",
           NEW x \in Pasos \ {"rota"}, NEW t \in Token,
           Goes(m, [worker[m] EXCEPT !.token = t, !.paso = x])
    PROVE  WorkersOK
<1> DEFINE w == [worker[m] EXCEPT !.token = t, !.paso = x]
<1>1. worker[m] \in Worker /\ worker[m].suscriptor \in Suscriptores
  BY DEF TypeInv, TypeOK, LocalesOK, Titular
<1>2. w \in Worker /\ w.paso = x /\ w.suscriptor = worker[m].suscriptor  BY <1>1 DEF Worker
<1>3. Goes(m, w)  OBVIOUS
<1> HIDE DEF w
<1> QED BY <1>1, <1>2, <1>3, WorkerStep

LEMMA WorkerSteps ==
    ASSUME TypeInv, NEW m \in Workers, worker[m].paso # "idle",
           NEW x \in Pasos \ {"rota"}, Step(m, x)
    PROVE  WorkersOK
<1> DEFINE w == [worker[m] EXCEPT !.paso = x]
<1>1. worker[m] \in Worker /\ worker[m].suscriptor \in Suscriptores
  BY DEF TypeInv, TypeOK, LocalesOK, Titular
<1>2. w \in Worker /\ w.paso = x /\ w.suscriptor = worker[m].suscriptor  BY <1>1 DEF Worker
<1>3. Goes(m, w)  BY DEF Step
<1> HIDE DEF w
<1> QED BY <1>1, <1>2, <1>3, WorkerStep

\* Steps that leave the tables alone.
LEMMA TypeQuiet ==
    ASSUME TypeInv, WorkersOK, UNCHANGED tablas,
           tiene' \in [Dispositivos -> Token],
           pide' \in [Dispositivos -> BOOLEAN], perdio' \in [Dispositivos -> BOOLEAN],
           cierres' \in 0 .. MaxCierres, perdidas' \in 0 .. MaxPerdidas, faults' \in 0 .. MaxFaults
    PROVE  TypeInv'
<1>1. TypeOK'  BY DEF TypeInv, TypeOK, WorkersOK
<1>2. FilasOK'  BY DEF TypeInv, FilasOK
<1>3. LocalesOK'  BY DEF WorkersOK, LocalesOK, At, Titular
<1> QED BY <1>1, <1>2, <1>3 DEF TypeInv

\* Steps that leave the rows alone.
LEMMA TypeAccount ==
    ASSUME TypeInv, WorkersOK, UNCHANGED <<sesiones, siguienteId, jti, cerradas, cuentas>>,
           legado' \in [Suscriptores -> Dispositivos \cup {NoDispositivo}],
           eliminado' \in [Suscriptores -> BOOLEAN],
           UNCHANGED <<tiene, perdio>>, pide' \in [Dispositivos -> BOOLEAN]
    PROVE  TypeInv'
<1>1. TypeOK'  BY DEF TypeInv, TypeOK, WorkersOK
<1>2. FilasOK'  BY DEF TypeInv, FilasOK
<1>3. LocalesOK'  BY DEF WorkersOK, LocalesOK, At, Titular
<1> QED BY <1>1, <1>2, <1>3 DEF TypeInv

LEMMA TypeReject == ASSUME TypeInv, NEW m \in Workers, Rechaza(m) PROVE TypeInv'
<1>1. WorkersOK  BY WorkerEnds DEF Rechaza, Termina
<1>2. pide' \in [Dispositivos -> BOOLEAN]  BY DEF Rechaza, Termina
<1> QED BY <1>1, <1>2, TypeQuiet DEF Rechaza, TypeInv, TypeOK

LEMMA TypeGoesOn ==
    ASSUME TypeInv, NEW m \in Workers, worker[m].paso # "idle",
           NEW x \in Pasos \ {"rota"}, Step(m, x), UNCHANGED <<tablas, tiene, pide, perdio, cuentas>>
    PROVE  TypeInv'
<1>1. WorkersOK  BY WorkerSteps
<1> QED BY <1>1, TypeQuiet DEF TypeInv, TypeOK

LEMMA TypeRequests ==
    ASSUME TypeInv, NEW m \in Workers,
           \/ \E d \in Dispositivos : LoginEmail(m, d) \/ VerifyOtp(m, d) \/ Refresh(m, d)
           \/ \E s \in Suscriptores : Logout(m, s) \/ CambiarContrasena(m, s) \/ EliminarCuenta(m, s)
    PROVE  TypeInv'
<1>1. ASSUME NEW d \in Dispositivos, NEW op \in Ops, NEW x \in Pasos \ {"rota"}, NEW t \in Token,
             Pide(m, d, op, x, t)
      PROVE  TypeInv'
  <2> DEFINE w == [Idle EXCEPT !.op = op, !.paso = x, !.suscriptor = De[d],
                               !.dispositivo = d, !.oye = TRUE, !.token = t]
  <2>1. w \in Worker /\ w.suscriptor \in Suscriptores /\ w.paso = x
    BY Constantes, IdleOK DEF Worker, Idle
  <2>2. Goes(m, w)  BY <1>1 DEF Pide
  <2> HIDE DEF w
  <2>3. WorkersOK  BY <2>1, <2>2, WorkerStep
  <2> QED BY <1>1, <2>3, TypeQuiet DEF Pide, TypeInv, TypeOK
<1>2. ASSUME NEW s \in Suscriptores, NEW op \in Ops, NEW x \in Pasos \ {"rota"},
             PideCierre(m, s, op, x)
      PROVE  TypeInv'
  <2> DEFINE w == [Idle EXCEPT !.op = op, !.paso = x, !.suscriptor = s]
  <2>1. w \in Worker /\ w.suscriptor \in Suscriptores /\ w.paso = x  BY IdleOK DEF Worker, Idle
  <2>2. Goes(m, w)  BY <1>2 DEF PideCierre
  <2> HIDE DEF w
  <2>3. WorkersOK  BY <2>1, <2>2, WorkerStep
  <2>4. cierres' \in 0 .. MaxCierres  BY <1>2, SMTT(30) DEF PideCierre, TypeInv, TypeOK
  <2> QED BY <1>2, <2>3, <2>4, TypeQuiet DEF PideCierre, TypeInv, TypeOK
<1>3. ASSUME NEW d \in Dispositivos, LoginEmail(m, d) \/ VerifyOtp(m, d) \/ Refresh(m, d)
      PROVE  TypeInv'
  <2>1. tiene[d] \in Token  BY DEF TypeInv, TypeOK
  <2> QED BY <1>1, <1>3, <2>1 DEF LoginEmail, VerifyOtp, Refresh, Ops, Pasos
<1>4. ASSUME NEW s \in Suscriptores, Logout(m, s) \/ CambiarContrasena(m, s) \/ EliminarCuenta(m, s)
      PROVE  TypeInv'
  BY <1>2, <1>4 DEF Logout, CambiarContrasena, EliminarCuenta, Ops, Pasos
<1> QED BY <1>3, <1>4

--------------------
LEMMA TypeReads ==
    ASSUME TypeInv, NEW m \in Workers,
           LeeLogin(m) \/ UltimoLogin(m) \/ LeeSesion(m) \/ LeeLegado(m) \/ LeeCuenta(m)
    PROVE  TypeInv'
<1>1. CASE LeeLogin(m) \/ UltimoLogin(m) \/ LeeLegado(m) \/ LeeCuenta(m)
  BY <1>1, TypeReject, TypeGoesOn DEF LeeLogin, UltimoLogin, LeeLegado, LeeCuenta, At, Pasos
<1>2. CASE LeeSesion(m)
  <2> DEFINE I == {i \in Ids : sesiones[i].jti = worker[m].token /\ sesiones[i].suscriptor = Titular(m)}
  <2>1. CASE \A i \in I : sesiones[i].revocada  BY <1>2, <2>1, TypeReject DEF LeeSesion
  <2>2. CASE ~ \A i \in I : sesiones[i].revocada
    <3>1. PICK i \in I : i = CHOOSE j \in I : TRUE  BY <2>2
    <3>2. worker[m] \in Worker /\ Titular(m) \in Suscriptores
      BY <1>2 DEF LeeSesion, At, TypeInv, TypeOK, LocalesOK
    <3>3. i \in Ids /\ i < siguienteId /\ i \in 0 .. MaxSesiones /\ "rota" \in Pasos
      BY <3>1, <3>2, Constantes DEF TypeInv, FilasOK, NoFila, Pasos
    <3> DEFINE w == [worker[m] EXCEPT !.paso = "rota", !.id = i]
    <3>4. w \in Worker /\ w.suscriptor = Titular(m) /\ w.id = i  BY <3>2, <3>3 DEF Worker, Titular
    <3>5. Goes(m, w) /\ UNCHANGED <<tablas, tiene, pide, perdio, cuentas>>
      BY <1>2, <2>2, <3>1 DEF LeeSesion
    <3> HIDE DEF w
    <3>6. WorkersOK  BY <3>2, <3>3, <3>4, <3>5, WorkerStep
    <3> QED BY <3>5, <3>6, TypeQuiet DEF TypeInv, TypeOK
  <2> QED BY <2>1, <2>2
<1> QED BY <1>1, <1>2

LEMMA TypeSign ==
    ASSUME TypeInv, NEW m \in Workers, IssueRefreshSession(m) \/ Rota(m)
    PROVE  TypeInv'
<1>0. /\ worker[m] \in Worker /\ worker[m].paso # "idle" /\ Titular(m) \in Suscriptores
      /\ jti' = jti + 1 /\ jti' \in Jtis /\ jti \in Nat
  BY DEF IssueRefreshSession, Rota, At, Firma, TypeInv, TypeOK, LocalesOK
<1>1. WorkersOK
  <2> DEFINE x == CASE Es(m, "email") -> "ultimoLogin" [] Es(m, "otp") -> "responde"
                    [] OTHER -> "migra"
  <2>1. x \in Pasos \ {"rota"} /\ "responde" \in Pasos \ {"rota"} /\ jti' \in Token
    BY <1>0 DEF Pasos
  <2>2. \/ Goes(m, [worker[m] EXCEPT !.token = jti', !.paso = x])
        \/ Goes(m, [worker[m] EXCEPT !.token = jti', !.paso = "responde"])
    BY DEF IssueRefreshSession, Rota
  <2> HIDE DEF x
  <2> QED BY <1>0, <2>1, <2>2, WorkerMoves
<1>2. CASE IssueRefreshSession(m)
  <2> DEFINE f == [suscriptor |-> Titular(m), jti |-> jti', revocada |-> FALSE]
  <2>1. f \in Fila /\ f.jti = jti'  BY <1>0 DEF Fila
  <2>2. /\ sesiones' = [sesiones EXCEPT ![siguienteId] = f] /\ siguienteId' = siguienteId + 1
        /\ siguienteId \in Ids
    BY <1>2 DEF IssueRefreshSession, NuevaSesion, TypeInv, TypeOK
  <2> HIDE DEF f
  <2>3. TypeOK'
    <3>1. sesiones' \in [Ids -> Fila \cup {NoFila}] /\ siguienteId' \in 1 .. (MaxSesiones + 1)
      BY <2>1, <2>2 DEF TypeInv, TypeOK
    <3> QED BY <1>0, <1>1, <1>2, <3>1, SMTT(30) DEF IssueRefreshSession, TypeInv, TypeOK, WorkersOK
  <2>4. FilasOK'
    <3> SUFFICES ASSUME NEW i \in Ids
                 PROVE  IF i < siguienteId' THEN sesiones'[i] \in Fila /\ sesiones'[i].jti <= jti'
                        ELSE sesiones'[i] = NoFila
      BY DEF FilasOK
    <3>1. IF i < siguienteId THEN sesiones[i] \in Fila /\ sesiones[i].jti <= jti
          ELSE sesiones[i] = NoFila
      BY DEF TypeInv, FilasOK
    <3>2. sesiones'[i] = IF i = siguienteId THEN f ELSE sesiones[i]  BY <2>2 DEF TypeInv, TypeOK
    <3>3. sesiones[i] \in Fila => sesiones[i].jti \in Nat  BY DEF Fila
    <3> QED BY <1>0, <2>1, <2>2, <3>1, <3>2, <3>3
  <2>5. LocalesOK'  BY <1>1, <2>2 DEF WorkersOK, LocalesOK, At, Titular
  <2> QED BY <2>3, <2>4, <2>5 DEF TypeInv
<1>3. CASE Rota(m)
  <2> DEFINE k == worker[m].id
             f == [sesiones[k] EXCEPT !.jti = jti']
  <2>1. k \in Ids /\ k < siguienteId /\ sesiones[k] \in Fila
    BY <1>3 DEF Rota, TypeInv, LocalesOK, FilasOK
  <2>2. f \in Fila /\ f.jti = jti'  BY <1>0, <2>1 DEF Fila
  <2>3. sesiones' = [sesiones EXCEPT ![k] = f] /\ siguienteId' = siguienteId
    BY <1>3 DEF Rota, Rotada
  <2> HIDE DEF f, k
  <2>4. TypeOK'
    <3>1. sesiones' \in [Ids -> Fila \cup {NoFila}]  BY <2>1, <2>2, <2>3 DEF TypeInv, TypeOK
    <3> QED BY <1>0, <1>1, <1>3, <3>1 DEF Rota, TypeInv, TypeOK, WorkersOK
  <2>5. FilasOK'
    <3> SUFFICES ASSUME NEW i \in Ids
                 PROVE  IF i < siguienteId' THEN sesiones'[i] \in Fila /\ sesiones'[i].jti <= jti'
                        ELSE sesiones'[i] = NoFila
      BY DEF FilasOK
    <3>1. IF i < siguienteId THEN sesiones[i] \in Fila /\ sesiones[i].jti <= jti
          ELSE sesiones[i] = NoFila
      BY DEF TypeInv, FilasOK
    <3>2. sesiones'[i] = IF i = k THEN f ELSE sesiones[i]  BY <2>3 DEF TypeInv, TypeOK
    <3>3. sesiones[i] \in Fila => sesiones[i].jti \in Nat  BY DEF Fila
    <3> QED BY <1>0, <2>1, <2>2, <2>3, <3>1, <3>2, <3>3
  <2>6. LocalesOK'  BY <1>1, <2>3 DEF WorkersOK, LocalesOK, At, Titular
  <2> QED BY <2>4, <2>5, <2>6 DEF TypeInv
<1> QED BY <1>2, <1>3

LEMMA TypeWrites ==
    ASSUME TypeInv, NEW m \in Workers,
           \/ AnulaLegado(m) \/ MigraLegado(m) \/ Responde(m)
           \/ EscribeCuenta(m) \/ BorraLegado(m)
    PROVE  TypeInv'
<1>0. /\ worker[m] \in Worker /\ worker[m].paso # "idle" /\ Titular(m) \in Suscriptores
      /\ worker[m].token \in Token
  BY DEF AnulaLegado, MigraLegado, Responde, EscribeCuenta, BorraLegado, At, TypeInv, TypeOK,
         LocalesOK, Worker
<1>1. WorkersOK
  BY <1>0, WorkerEnds, WorkerSteps
     DEF AnulaLegado, MigraLegado, Responde, EscribeCuenta, BorraLegado, Termina, Pasos
<1>2. CASE Responde(m)  BY <1>0, <1>2, <1>1, TypeQuiet DEF Responde, Termina, TypeInv, TypeOK
<1>3. CASE ~Responde(m)
  <2>1. /\ legado' \in [Suscriptores -> Dispositivos \cup {NoDispositivo}]
        /\ eliminado' \in [Suscriptores -> BOOLEAN] /\ pide' \in [Dispositivos -> BOOLEAN]
    BY <1>0, <1>3 DEF AnulaLegado, MigraLegado, EscribeCuenta, BorraLegado, VaciaLegado, Termina,
                      Es, TypeInv, TypeOK
  <2> QED BY <1>1, <1>3, <2>1, TypeAccount DEF AnulaLegado, MigraLegado, EscribeCuenta, BorraLegado
<1> QED BY <1>2, <1>3

LEMMA TypeRevoke == ASSUME TypeInv, NEW m \in Workers, RevocaTodas(m) PROVE TypeInv'
<1>1. Titular(m) \in Suscriptores /\ worker[m].paso # "idle"
  BY DEF RevocaTodas, At, TypeInv, LocalesOK
<1>2. WorkersOK  BY <1>1, WorkerEnds, WorkerSteps DEF RevocaTodas, Step, Pasos
<1>3. \A i \in SesionesDe(Titular(m)) : i \in Ids /\ sesiones[i] \in Fila
  BY <1>1, Constantes DEF SesionesDe, TypeInv, FilasOK, NoFila
<1>4. \A i \in SesionesDe(Titular(m)) :
          /\ [sesiones[i] EXCEPT !.revocada = TRUE] \in Fila
          /\ [sesiones[i] EXCEPT !.revocada = TRUE].jti = sesiones[i].jti
  BY <1>3 DEF Fila
<1>5. TypeOK'  BY <1>2, <1>3, <1>4 DEF RevocaTodas, TypeInv, TypeOK, WorkersOK
<1>6. FilasOK'
  <2> SUFFICES ASSUME NEW i \in Ids
               PROVE  IF i < siguienteId' THEN sesiones'[i] \in Fila /\ sesiones'[i].jti <= jti'
                      ELSE sesiones'[i] = NoFila
    BY DEF FilasOK
  <2>1. IF i < siguienteId THEN sesiones[i] \in Fila /\ sesiones[i].jti <= jti
        ELSE sesiones[i] = NoFila
    BY DEF TypeInv, FilasOK
  <2>2. CASE i \in SesionesDe(Titular(m))
    <3>1. sesiones[i] # NoFila  BY <1>1, <2>2, Constantes DEF SesionesDe, NoFila
    <3>2. sesiones'[i] = [sesiones[i] EXCEPT !.revocada = TRUE]  BY <2>2 DEF RevocaTodas
    <3> QED BY <1>4, <2>1, <2>2, <3>1, <3>2 DEF RevocaTodas
  <2>3. CASE i \notin SesionesDe(Titular(m))  BY <2>1, <2>3 DEF RevocaTodas
  <2> QED BY <2>2, <2>3
<1>7. LocalesOK'  BY <1>2 DEF RevocaTodas, WorkersOK, LocalesOK, At, Titular
<1> QED BY <1>5, <1>6, <1>7 DEF TypeInv

LEMMA TypeTrouble ==
    ASSUME TypeInv, Crash \/ \E m \in Workers : Falla(m) \/ Desiste(m)
    PROVE  TypeInv'
<1>1. CASE Crash
  <2>1. WorkersOK  BY <1>1, IdleOK DEF Crash, WorkersOK
  <2> QED BY <1>1, <2>1, TypeQuiet DEF Crash, TypeInv, TypeOK
<1>2. ASSUME NEW m \in Workers, Falla(m) PROVE TypeInv'
  BY <1>2, WorkerEnds, TypeQuiet DEF Falla, Termina, TypeInv, TypeOK
<1>3. ASSUME NEW m \in Workers, Desiste(m) PROVE TypeInv'
  <2> DEFINE w == [worker[m] EXCEPT !.oye = FALSE]
  <2>1. worker[m] \in Worker  BY DEF TypeInv, TypeOK
  <2>2. /\ w \in Worker /\ w.paso = worker[m].paso /\ w.suscriptor = worker[m].suscriptor
        /\ w.id = worker[m].id
    BY <2>1 DEF Worker
  <2>3. Goes(m, w)  BY <1>3 DEF Desiste
  <2> HIDE DEF w
  <2>4. WorkersOK  BY <2>2, <2>3, WorkerStep DEF TypeInv, LocalesOK, At, Titular
  <2>5. pide' \in [Dispositivos -> BOOLEAN] /\ perdio' \in [Dispositivos -> BOOLEAN]
    BY <1>3 DEF Desiste, Oye, TypeInv, TypeOK
  <2>6. /\ perdidas' \in 0 .. MaxPerdidas /\ cierres' \in 0 .. MaxCierres
        /\ faults' \in 0 .. MaxFaults
    BY <1>3 DEF Desiste, TypeInv, TypeOK
  <2>7. UNCHANGED tablas /\ tiene' \in [Dispositivos -> Token]  BY <1>3 DEF Desiste, TypeInv, TypeOK
  <2> QED BY <2>4, <2>5, <2>6, <2>7, TypeQuiet
<1> QED BY <1>1, <1>2, <1>3

LEMMA TypeNext == TypeInv /\ [Next]_vars => TypeInv'
<1> SUFFICES ASSUME TypeInv, [Next]_vars PROVE TypeInv'  OBVIOUS
<1>1. CASE Next
  BY <1>1, TypeRequests, TypeReads, TypeSign, TypeWrites, TypeRevoke, TypeTrouble DEF Next, Atiende
<1>2. CASE UNCHANGED vars
  <2>1. WorkersOK  BY <1>2, WorkerSame DEF vars
  <2> QED BY <1>2, <2>1, TypeQuiet DEF vars, TypeInv, TypeOK
<1> QED BY <1>1, <1>2

LEMMA TypeAlways == Spec => []TypeInv
<1> QED BY TypeInit, TypeNext, PTL DEF Spec

(* Every reachable state of the sessions has the declared shape.           *)
THEOREM TypeCorrect == Spec => []TypeOK
<1>1. TypeInv => TypeOK  BY DEF TypeInv
<1> QED BY <1>1, TypeAlways, PTL

--------------------
(* The sessions as SesionDispositivo sees them.                            *)

LEMMA EstadoDeFila ==
    ASSUME NEW f \in Fila
    PROVE  Estado(f) = IF f.revocada THEN Promesa!Cerrada(f.suscriptor)
                       ELSE Promesa!Abierta(f.suscriptor, f.jti)
  BY Constantes DEF Estado, Fila, Promesa!Cerrada, Promesa!Abierta

LEMMA EstadosDistintos ==
    ASSUME NEW s, NEW t, NEW u, NEW v
    PROVE  /\ Promesa!Abierta(s, t) # Promesa!Nueva /\ Promesa!Abierta(s, t) # Promesa!Cerrada(u)
           /\ Promesa!Abierta(s, t) = Promesa!Abierta(u, v) => s = u /\ t = v
<1>1. /\ Promesa!Abierta(s, t).es = "abierta" /\ Promesa!Nueva.es = "nueva"
      /\ Promesa!Cerrada(u).es = "cerrada"
      /\ Promesa!Abierta(s, t).titular = s /\ Promesa!Abierta(u, v).titular = u
      /\ Promesa!Abierta(s, t).token = t /\ Promesa!Abierta(u, v).token = v
  BY DEF Promesa!Abierta, Promesa!Nueva, Promesa!Cerrada
<1> QED BY <1>1

LEMMA AbreStep ==
    ASSUME TypeInv, NEW m \in Workers, IssueRefreshSession(m)
    PROVE  Promesa!Abre(siguienteId, Titular(m), jti + 1)
<1> DEFINE f == [suscriptor |-> Titular(m), jti |-> jti + 1, revocada |-> FALSE]
<1>1. /\ siguienteId \in Ids /\ Titular(m) \in Suscriptores /\ jti' = jti + 1 /\ jti \in 0 .. MaxJti
      /\ jti + 1 \in Jtis /\ sesiones' = [sesiones EXCEPT ![siguienteId] = f]
  BY DEF IssueRefreshSession, NuevaSesion, Firma, At, TypeInv, TypeOK, LocalesOK
<1>2. sesiones[siguienteId] = NoFila  BY <1>1 DEF TypeInv, FilasOK
<1>3. Estado(NoFila) = Promesa!Nueva  BY DEF Estado, NoFila, Promesa!Nueva
<1>4. f \in Fila /\ f.suscriptor = Titular(m) /\ f.jti = jti + 1 /\ ~f.revocada  BY <1>1 DEF Fila
<1> HIDE DEF f
<1>5. Estado(f) = Promesa!Abierta(Titular(m), jti + 1)  BY <1>4, EstadoDeFila
<1>6. [i \in Ids |-> Estado(sesiones'[i])] =
          [[i \in Ids |-> Estado(sesiones[i])] EXCEPT ![siguienteId] = Promesa!Abierta(Titular(m), jti + 1)]
  BY <1>1, <1>5 DEF TypeInv, TypeOK
<1>7. Promesa!Gasta(jti + 1)  BY <1>1 DEF Promesa!Gasta
<1> QED BY <1>1, <1>2, <1>3, <1>6, <1>7 DEF Promesa!Abre

LEMMA RotaStep ==
    ASSUME TypeInv, NEW m \in Workers, Rota(m)
    PROVE  Promesa!SesionNext
<1> DEFINE k == worker[m].id
           f == [sesiones[k] EXCEPT !.jti = jti + 1]
<1>1. /\ k \in Ids /\ sesiones[k] \in Fila /\ jti' = jti + 1 /\ jti \in 0 .. MaxJti
      /\ jti + 1 \in Jtis /\ sesiones' = [sesiones EXCEPT ![k] = f]
  BY DEF Rota, Rotada, Firma, TypeInv, TypeOK, LocalesOK, FilasOK
<1>2. /\ f \in Fila /\ f.suscriptor = sesiones[k].suscriptor /\ f.jti = jti + 1
      /\ f.revocada = sesiones[k].revocada
      /\ sesiones[k].suscriptor \in Suscriptores /\ sesiones[k].jti \in Jtis
  BY <1>1 DEF Fila
<1>3. Promesa!Gasta(jti + 1)  BY <1>1 DEF Promesa!Gasta
<1> HIDE DEF f, k
<1>4. [i \in Ids |-> Estado(sesiones'[i])] =
          [[i \in Ids |-> Estado(sesiones[i])] EXCEPT ![k] = Estado(f)]
  BY <1>1 DEF TypeInv, TypeOK
<1>5. CASE sesiones[k].revocada
  <2>1. Estado(f) = Estado(sesiones[k])  BY <1>1, <1>2, <1>5, EstadoDeFila
  <2>2. UNCHANGED [i \in Ids |-> Estado(sesiones[i])]  BY <1>1, <1>4, <2>1
  <2> QED BY <1>1, <1>3, <2>2 DEF Promesa!Pierde, Promesa!SesionNext
<1>6. CASE ~sesiones[k].revocada
  <2>1. /\ Estado(f) = Promesa!Abierta(sesiones[k].suscriptor, jti + 1)
        /\ Estado(sesiones[k]) = Promesa!Abierta(sesiones[k].suscriptor, sesiones[k].jti)
    BY <1>1, <1>2, <1>6, EstadoDeFila
  <2>2. Promesa!Renueva(k, sesiones[k].suscriptor, sesiones[k].jti, jti + 1)
    BY <1>1, <1>3, <1>4, <2>1 DEF Promesa!Renueva
  <2> QED BY <1>1, <1>2, <2>2 DEF Promesa!SesionNext
<1> QED BY <1>5, <1>6

LEMMA CierraStep ==
    ASSUME TypeInv, NEW m \in Workers, RevocaTodas(m)
    PROVE  Titular(m) \in Suscriptores /\ Promesa!Cierra(Titular(m))
<1> DEFINE s == Titular(m)
<1>1. s \in Suscriptores  BY DEF RevocaTodas, At, TypeInv, LocalesOK
<1>2. ASSUME NEW i \in Ids
      PROVE  Estado(sesiones'[i]) =
                 IF \E t \in Jtis : Estado(sesiones[i]) = Promesa!Abierta(s, t)
                 THEN Promesa!Cerrada(s) ELSE Estado(sesiones[i])
  <2>1. CASE i \notin SesionesDe(s)
    <3>1. sesiones'[i] = sesiones[i] /\ sesiones[i].suscriptor # s
      BY <2>1 DEF RevocaTodas, SesionesDe
    <3>2. sesiones[i] \in Fila \/ Estado(sesiones[i]) = Promesa!Nueva
      BY DEF TypeInv, FilasOK, Estado, NoFila, Promesa!Nueva
    <3>3. \A t \in Jtis : Estado(sesiones[i]) # Promesa!Abierta(s, t)
      BY <3>1, <3>2, EstadoDeFila, EstadosDistintos
    <3> QED BY <3>1, <3>3
  <2>2. CASE i \in SesionesDe(s)
    <3> DEFINE f == [sesiones[i] EXCEPT !.revocada = TRUE]
    <3>1. sesiones[i] \in Fila /\ sesiones[i].suscriptor = s /\ sesiones[i].jti \in Jtis
      BY <1>1, <2>2, Constantes DEF SesionesDe, TypeInv, FilasOK, NoFila, Fila
    <3>2. f \in Fila /\ f.revocada /\ f.suscriptor = s  BY <3>1 DEF Fila
    <3>3. sesiones'[i] = f  BY <2>2 DEF RevocaTodas
    <3> HIDE DEF f
    <3>4. Estado(sesiones'[i]) = Promesa!Cerrada(s)  BY <3>2, <3>3, EstadoDeFila
    <3>5. Estado(sesiones[i]) = IF sesiones[i].revocada THEN Promesa!Cerrada(s)
                                ELSE Promesa!Abierta(s, sesiones[i].jti)
      BY <3>1, EstadoDeFila
    <3> QED BY <3>1, <3>4, <3>5, EstadosDistintos
  <2> QED BY <2>1, <2>2
<1>3. jti' = jti  BY DEF RevocaTodas
<1> QED BY <1>1, <1>2, <1>3 DEF Promesa!Cierra

LEMMA PromesaStep ==
    TypeInv /\ [Next]_vars =>
        [Promesa!SesionNext]_<<[i \in Ids |-> Estado(sesiones[i])], 1 .. jti>>
<1> SUFFICES ASSUME TypeInv, [Next]_vars
             PROVE  Promesa!SesionNext \/ (sesiones' = sesiones /\ jti' = jti)
  OBVIOUS
<1>1. ASSUME NEW m \in Workers, IssueRefreshSession(m) PROVE Promesa!SesionNext
  <2>1. siguienteId \in Ids /\ Titular(m) \in Suscriptores /\ jti + 1 \in Jtis
    BY <1>1 DEF IssueRefreshSession, Firma, At, TypeInv, TypeOK, LocalesOK
  <2> QED BY <1>1, <2>1, AbreStep DEF Promesa!SesionNext
<1>2. ASSUME NEW m \in Workers, RevocaTodas(m) PROVE Promesa!SesionNext
  BY <1>2, CierraStep DEF Promesa!SesionNext
<1>3. ASSUME NEW m \in Workers, Atiende(m)
      PROVE  Promesa!SesionNext \/ (sesiones' = sesiones /\ jti' = jti)
  BY <1>1, <1>2, <1>3, RotaStep
     DEF Atiende, LeeLogin, UltimoLogin, LeeSesion, LeeLegado, AnulaLegado, MigraLegado,
         Responde, LeeCuenta, EscribeCuenta, BorraLegado, Rechaza
<1>4. CASE ~ \E m \in Workers : Atiende(m)
  BY <1>4 DEF Next, vars, LoginEmail, VerifyOtp, Refresh, Pide, Logout, CambiarContrasena,
              EliminarCuenta, PideCierre, Falla, Desiste, Crash
<1> QED BY <1>3, <1>4

(* The refresh sessions implement SesionDispositivo: whatever overlaps, is *)
(* retried or fails, a renewal hands out a token nobody had and touches    *)
(* one session, a closing ends all of a subscriber's at once, and a closed *)
(* session never renews again.                                             *)
THEOREM SesionesImplementaPromesa == Spec => SesionPromise
<1>1. Init => Promesa!SesionInit
  <2> SUFFICES ASSUME Init PROVE Promesa!SesionInit  OBVIOUS
  <2>1. 1 .. jti = {}  BY DEF Init
  <2>2. Estado(NoFila) = Promesa!Nueva  BY DEF Estado, NoFila, Promesa!Nueva
  <2> QED BY <2>1, <2>2 DEF Init, Promesa!SesionInit
<1> QED BY <1>1, PromesaStep, TypeAlways, PTL DEF Spec, SesionPromise, Promesa!SesionSpec

--------------------
(* Nobody is logged out on its own: what the request of a device and the   *)
(* rows of its subscriber say of the token it holds.                       *)

\* The steps of a renewal, those after a token was signed for the request, and
\* all those of a request that a device made.
Leyendo       == {"lee", "rota"}
Firmado       == {"ultimoLogin", "migra", "responde"}
DeDispositivo == {"cuenta", "leeLegado", "emite", "anula"} \cup Leyendo \cup Firmado

\* The tokens a device holds, or has in a request.
Sabe(d, t) == tiene[d] = t \/ \E m \in Workers : worker[m].dispositivo = d /\ worker[m].token = t

\* Where a request stands says whose it is and what token it has.
PeticionOK(m) ==
    /\ worker[m].dispositivo \in Dispositivos => worker[m].suscriptor = De[worker[m].dispositivo]
    /\ worker[m].oye => worker[m].dispositivo \in Dispositivos /\ pide[worker[m].dispositivo]
    /\ worker[m].oye => worker[m].paso \in DeDispositivo
    /\ worker[m].paso \in DeDispositivo => worker[m].dispositivo \in Dispositivos
    /\ worker[m].paso \in Firmado \cup Leyendo <=> worker[m].token \in Jtis
    /\ worker[m].paso \in Leyendo => worker[m].op = "refresh"
    /\ worker[m].paso = "rota" => sesiones[worker[m].id].suscriptor = worker[m].suscriptor
Peticiones == \A m \in Workers : PeticionOK(m)

\* A device waits for one request.
UnaALaVez == \A m, n \in Workers :
    worker[m].oye /\ worker[n].oye /\ worker[m].dispositivo = worker[n].dispositivo => m = n

\* Every row has a jti of its own.
JtiUnico == \A i, j \in Ids :
    i < siguienteId /\ j < siguienteId /\ sesiones[i].jti = sesiones[j].jti => i = j

\* A token was signed, and is known to one device.
Propio == /\ \A d \in Dispositivos, t \in Jtis : Sabe(d, t) => t <= jti
          /\ \A d, e \in Dispositivos, t \in Jtis : Sabe(d, t) /\ Sabe(e, t) => d = e

\* A row that a renewal is about to rotate is of that device and of no other.
Dueno == \A m \in Workers : At(m, "rota") =>
    /\ \A d \in Dispositivos : Sabe(d, sesiones[worker[m].id].jti) => worker[m].dispositivo = d
    /\ \A n \in Workers : At(n, "rota") /\ worker[n].id = worker[m].id =>
           worker[m].dispositivo = worker[n].dispositivo

\* A signed token that was not delivered is known to its request only.
Reciente == \A m \in Workers : worker[m].paso \in Firmado =>
    /\ \A n \in Workers : worker[n].token = worker[m].token => n = m
    /\ \A d \in Dispositivos : tiene[d] # worker[m].token

\* While a device that lost nothing holds a token, the one request that could
\* rotate its session is the one it waits for.
SesionAtendida == \A n \in Workers, d \in Dispositivos :
    worker[n].dispositivo = d /\ ~perdio[d] /\ tiene[d] \in Jtis =>
        /\ At(n, "lee") /\ worker[n].token = tiene[d] => worker[n].oye
        /\ At(n, "rota") /\ sesiones[worker[n].id].jti = tiene[d] => worker[n].oye

\* The renewal a device waits for uses the token it holds.
Renovando == \A m \in Workers, d \in Dispositivos :
    worker[m].oye /\ worker[m].dispositivo = d /\ worker[m].paso \in Leyendo =>
        /\ worker[m].token = tiene[d]
        /\ At(m, "rota") /\ ~perdio[d] => sesiones[worker[m].id].jti = tiene[d]

\* Row i is the session of device d with token t.
Vale(i, d, t) == i < siguienteId /\ sesiones[i].jti = t /\ sesiones[i].suscriptor = De[d]

\* The answer a device waits for will be good: nobody is rotating its session.
Entrega == \A m \in Workers, d \in Dispositivos :
    /\ worker[m].oye /\ worker[m].dispositivo = d /\ worker[m].paso \in Firmado
    /\ perdio[d] => ~Es(m, "refresh")
    => \E i \in Ids : /\ Vale(i, d, worker[m].token)
                      /\ \A n \in Workers : At(n, "rota") => worker[n].id # i

\* A token in the hands of a device is good until its renewal is answered.
Renovada(m, d) == worker[m].oye /\ worker[m].dispositivo = d /\ At(m, "responde") /\ Es(m, "refresh")
Vigente == \A d \in Dispositivos :
    ~perdio[d] /\ tiene[d] \in Jtis /\ (\A m \in Workers : ~Renovada(m, d)) =>
        \E i \in Ids : Vale(i, d, tiene[d])

\* Sessions are revoked only by the three operations that close them.
Cerradas == \A i \in Ids : sesiones[i].revocada => i \in cerradas

VInv == /\ Peticiones /\ UnaALaVez /\ JtiUnico /\ Propio /\ Dueno
        /\ Reciente /\ SesionAtendida /\ Renovando /\ Entrega /\ Vigente
SesionesInv == TypeInv /\ VInv /\ Cerradas

--------------------
\* Steps that change no row but for revoking it, and sign nothing.
MismasFilas ==
    /\ siguienteId' = siguienteId /\ jti' = jti
    /\ \A i \in Ids : sesiones'[i].jti = sesiones[i].jti /\ sesiones'[i].suscriptor = sesiones[i].suscriptor

LEMMA Conocido ==
    ASSUME TypeInv, VInv, NEW n \in Workers, worker[n].token \in Jtis
    PROVE  /\ worker[n].dispositivo \in Dispositivos
           /\ Sabe(worker[n].dispositivo, worker[n].token) /\ worker[n].token <= jti
<1>1. worker[n].dispositivo \in Dispositivos  BY DEF VInv, Peticiones, PeticionOK, DeDispositivo
<1>2. Sabe(worker[n].dispositivo, worker[n].token)  BY DEF Sabe
<1> QED BY <1>1, <1>2 DEF VInv, Propio

\* The row of a request that is about to rotate it.
LEMMA FilaARotar ==
    ASSUME TypeInv, NEW m \in Workers, At(m, "rota")
    PROVE  /\ worker[m].id \in Ids /\ worker[m].id < siguienteId
           /\ sesiones[worker[m].id] \in Fila /\ sesiones[worker[m].id].jti \in Jtis
           /\ sesiones[worker[m].id].jti <= jti
  BY DEF TypeInv, LocalesOK, FilasOK, Fila

\* A request that another one's step does not touch.
LEMMA OtraPeticion ==
    ASSUME TypeInv, VInv, NEW n \in Workers, worker'[n] = worker[n],
           worker[n].oye => pide'[worker[n].dispositivo],
           \A i \in Ids : i < siguienteId => sesiones'[i].suscriptor = sesiones[i].suscriptor
    PROVE  PeticionOK(n)'
<1>1. PeticionOK(n)  BY DEF VInv, Peticiones
<1>2. worker[n].paso = "rota" => sesiones'[worker[n].id].suscriptor = worker[n].suscriptor
  BY <1>1, FilaARotar DEF PeticionOK, At
<1> QED BY <1>1, <1>2 DEF PeticionOK

LEMMA VInit == Init => VInv
<1> SUFFICES ASSUME Init PROVE VInv  OBVIOUS
<1>1. /\ \A m \in Workers : worker[m] = Idle
      /\ \A d \in Dispositivos : tiene[d] \notin Jtis
      /\ siguienteId = 1
  BY DEF Init
<1>2. /\ Idle.dispositivo \notin Dispositivos /\ ~Idle.oye /\ Idle.token = 0 /\ Idle.paso = "idle"
  BY Constantes DEF Idle
<1> QED BY <1>1, <1>2 DEF VInv, Peticiones, PeticionOK, UnaALaVez, JtiUnico, Propio, Dueno, Reciente, SesionAtendida,
           Renovando, Entrega, Vigente, Sabe, At, Es, Firmado, Leyendo, DeDispositivo

--------------------
(* A request goes on, or ends, without renewing anything.                  *)
LEMMA SigueSesion ==
    ASSUME TypeInv, VInv, NEW m \in Workers, NEW w \in Worker, Goes(m, w), MismasFilas,
           UNCHANGED <<tiene, perdio>>,
           worker[m].paso # "responde", w.paso \notin Leyendo,
           w.paso \in Firmado => /\ worker[m].paso \in Firmado /\ w.token = worker[m].token
                                 /\ w.op = worker[m].op,
           w.paso \notin Firmado => w.token \notin Jtis,
           w.paso \in DeDispositivo =>
               w.dispositivo = worker[m].dispositivo /\ w.dispositivo \in Dispositivos,
           w.dispositivo \in Dispositivos => w.suscriptor = De[w.dispositivo],
           w.oye => /\ worker[m].oye /\ w.dispositivo = worker[m].dispositivo
                    /\ w.paso \in DeDispositivo,
           \A e \in Dispositivos : pide'[e] = (pide[e] /\ (Oye(m, e) => w.oye))
    PROVE  VInv'
<1>0. \A n \in Workers : worker'[n] = IF n = m THEN w ELSE worker[n]  BY DEF TypeInv, TypeOK, Goes
<1>1. \A d \in Dispositivos, t \in Jtis : Sabe(d, t)' => Sabe(d, t)  BY <1>0 DEF Sabe, DeDispositivo
<1>2. \A n \in Workers : At(n, "rota")' => /\ At(n, "rota") /\ n # m /\ worker[n].id \in Ids
                                          /\ sesiones'[worker[n].id].jti = sesiones[worker[n].id].jti
                                          /\ sesiones[worker[n].id].jti \in Jtis
  BY <1>0, FilaARotar DEF At, Leyendo, MismasFilas
<1>3. \A i \in Ids, d \in Dispositivos : \A t : Vale(i, d, t)' <=> Vale(i, d, t)
  BY DEF Vale, MismasFilas
<1>4. Peticiones'
  <2> SUFFICES ASSUME NEW n \in Workers PROVE PeticionOK(n)'  BY DEF Peticiones
  <2>1. CASE n = m
    <3>1. worker'[n] = w  BY <1>0, <2>1
    <3>2. w.oye => w.dispositivo \in Dispositivos /\ pide'[w.dispositivo]
      BY DEF VInv, Peticiones, PeticionOK
    <3>3. w.paso \in DeDispositivo => w.dispositivo \in Dispositivos  OBVIOUS
    <3>4. w.paso \in Firmado \cup Leyendo <=> w.token \in Jtis  BY DEF VInv, Peticiones, PeticionOK
    <3> QED BY <3>1, <3>2, <3>3, <3>4 DEF Leyendo, PeticionOK
  <2>2. CASE n # m
    <3>1. worker'[n] = worker[n]  BY <1>0, <2>2
    <3>2. worker[n].oye => ~Oye(m, worker[n].dispositivo)  BY <2>2 DEF VInv, UnaALaVez, Oye
    <3>3. worker[n].oye => pide'[worker[n].dispositivo]  BY <3>2 DEF VInv, Peticiones, PeticionOK
    <3> QED BY <3>1, <3>3, OtraPeticion DEF MismasFilas
  <2> QED BY <2>1, <2>2
<1>5. UnaALaVez'  BY <1>0 DEF VInv, UnaALaVez
<1>6. JtiUnico'  BY DEF VInv, JtiUnico, MismasFilas
<1>7. Propio'  BY <1>1 DEF VInv, Propio, MismasFilas
<1>8. Dueno'  BY <1>0, <1>1, <1>2 DEF VInv, Dueno
<1>9. Reciente'  BY <1>0 DEF VInv, Reciente, Peticiones, PeticionOK, DeDispositivo
<1>10. SesionAtendida'  BY <1>0, <1>2 DEF VInv, SesionAtendida, At, Leyendo
<1>11. Renovando'  BY <1>0, <1>2 DEF VInv, Renovando, At, Leyendo
<1>12. Entrega'  BY <1>0, <1>2, <1>3 DEF VInv, Entrega, At, Es, Leyendo
<1>13. Vigente'  BY <1>0, <1>3 DEF VInv, Vigente, Renovada, At, Es
<1> QED BY <1>4, <1>5, <1>6, <1>7, <1>8, <1>9, <1>10, <1>11, <1>12, <1>13 DEF VInv
--------------------
(* A device asks for something.                                            *)
LEMMA Pregunta ==
    ASSUME TypeInv, VInv, NEW m \in Workers, NEW d \in Dispositivos,
           NEW op \in Ops, NEW x \in {"cuenta", "leeLegado", "lee"}, NEW t \in Token,
           Pide(m, d, op, x, t),
           IF x = "lee" THEN op = "refresh" /\ t = tiene[d] /\ t \in Jtis ELSE t \notin Jtis
    PROVE  VInv'
<1>1. /\ Pide(m, d, op, x, t)
      /\ IF x = "lee" THEN op = "refresh" /\ t = tiene[d] /\ t \in Jtis ELSE t \notin Jtis
  OBVIOUS
<1> DEFINE w == [Idle EXCEPT !.op = op, !.paso = x, !.suscriptor = De[d],
                             !.dispositivo = d, !.oye = TRUE, !.token = t]
<1>2. /\ w.op = op /\ w.paso = x /\ w.suscriptor = De[d] /\ w.dispositivo = d /\ w.oye /\ w.token = t
  BY DEF Idle
<1>3. /\ At(m, "idle") /\ ~pide[d] /\ pide' = [pide EXCEPT ![d] = TRUE]
      /\ Goes(m, w) /\ UNCHANGED <<tablas, tiene, perdio, cuentas>>
  BY <1>1 DEF Pide
<1> HIDE DEF w
<1>4. \A n \in Workers : worker'[n] = IF n = m THEN w ELSE worker[n]
  BY <1>3 DEF TypeInv, TypeOK, Goes
<1>5. \A e \in Dispositivos : pide'[e] = (pide[e] \/ e = d)  BY <1>3 DEF TypeInv, TypeOK
<1>6. \A n \in Workers : worker[n].oye => worker[n].dispositivo # d /\ pide'[worker[n].dispositivo]
  BY <1>3, <1>5 DEF VInv, Peticiones, PeticionOK
<1>7. \A e \in Dispositivos, u \in Jtis : Sabe(e, u)' => Sabe(e, u)
  BY <1>1, <1>2, <1>3, <1>4 DEF Sabe
<1>8. \A n \in Workers : At(n, "rota")' => At(n, "rota") /\ n # m /\ worker'[n] = worker[n]
  BY <1>1, <1>2, <1>4 DEF At
<1>9. Peticiones'
  <2> SUFFICES ASSUME NEW n \in Workers PROVE PeticionOK(n)'  BY DEF Peticiones
  <2>1. CASE n = m  BY <1>1, <1>2, <1>4, <1>5, <2>1 DEF PeticionOK, Firmado, Leyendo, DeDispositivo
  <2>2. CASE n # m  BY <1>3, <1>4, <1>6, <2>2, OtraPeticion
  <2> QED BY <2>1, <2>2
<1>10. UnaALaVez'  BY <1>2, <1>4, <1>6 DEF VInv, UnaALaVez
<1>11. JtiUnico'  BY <1>3 DEF VInv, JtiUnico
<1>12. Propio'  BY <1>3, <1>7 DEF VInv, Propio
<1>13. Dueno'  BY <1>3, <1>7, <1>8, FilaARotar DEF VInv, Dueno
<1>14. Reciente'  BY <1>1, <1>2, <1>3, <1>4 DEF VInv, Reciente, Peticiones, PeticionOK, Firmado
<1>15. SesionAtendida'  BY <1>2, <1>3, <1>4 DEF VInv, SesionAtendida, At
<1>16. Renovando'  BY <1>1, <1>2, <1>3, <1>4 DEF VInv, Renovando, At, Leyendo
<1>17. Entrega'  BY <1>1, <1>2, <1>3, <1>4, <1>8 DEF VInv, Entrega, Vale, Es, At, Firmado
<1>18. Vigente'  BY <1>2, <1>3, <1>4 DEF VInv, Vigente, Vale, Renovada, At, Es
<1> QED BY <1>9, <1>10, <1>11, <1>12, <1>13, <1>14, <1>15, <1>16, <1>17, <1>18 DEF VInv

--------------------
(* A renewal finds its session.                                            *)
LEMMA Encuentra ==
    ASSUME TypeInv, VInv, NEW m \in Workers, At(m, "lee"), NEW i \in Ids, i < siguienteId,
           sesiones[i].jti = worker[m].token, sesiones[i].suscriptor = Titular(m),
           Goes(m, [worker[m] EXCEPT !.paso = "rota", !.id = i]),
           UNCHANGED <<tablas, tiene, pide, perdio>>
    PROVE  VInv'
<1> DEFINE w == [worker[m] EXCEPT !.paso = "rota", !.id = i]
<1>1. /\ w.op = worker[m].op /\ w.paso = "rota" /\ w.suscriptor = worker[m].suscriptor /\ w.id = i
      /\ w.dispositivo = worker[m].dispositivo /\ w.oye = worker[m].oye /\ w.token = worker[m].token
  BY DEF TypeInv, TypeOK, Worker
<1>2. Goes(m, w)  OBVIOUS
<1> HIDE DEF w
<1>3. \A n \in Workers : worker'[n] = IF n = m THEN w ELSE worker[n]
  BY <1>2 DEF TypeInv, TypeOK, Goes
<1>4. /\ worker[m].token \in Jtis /\ worker[m].dispositivo \in Dispositivos
      /\ Sabe(worker[m].dispositivo, worker[m].token)
  BY Conocido DEF VInv, Peticiones, PeticionOK, At, Leyendo
<1>5. \A e \in Dispositivos, u \in Jtis : Sabe(e, u)' <=> Sabe(e, u)  BY <1>1, <1>3 DEF Sabe
<1>6. Peticiones'
  <2> SUFFICES ASSUME NEW n \in Workers PROVE PeticionOK(n)'  BY DEF Peticiones
  <2>1. CASE n = m
    BY <1>1, <1>3, <2>1 DEF VInv, Peticiones, PeticionOK, Firmado, Leyendo, DeDispositivo, At, Titular
  <2>2. CASE n # m
    <3>1. PeticionOK(n)  BY DEF VInv, Peticiones
    <3> QED BY <1>3, <2>2, <3>1, OtraPeticion DEF PeticionOK
  <2> QED BY <2>1, <2>2
<1>7. UnaALaVez'  BY <1>1, <1>3 DEF VInv, UnaALaVez
<1>8. JtiUnico' /\ Propio'  BY <1>5 DEF VInv, JtiUnico, Propio
<1>9. Dueno'
  <2> SUFFICES ASSUME NEW n \in Workers, At(n, "rota")'
               PROVE  /\ \A d \in Dispositivos : Sabe(d, sesiones[worker'[n].id].jti) => worker'[n].dispositivo = d
                      /\ \A k \in Workers : At(k, "rota")' /\ worker'[k].id = worker'[n].id =>
                             worker'[n].dispositivo = worker'[k].dispositivo
    BY <1>1, <1>3, <1>4, FilaARotar, <1>5 DEF At, Dueno
  <2>1. \A d \in Dispositivos : Sabe(d, sesiones[i].jti) => worker[m].dispositivo = d
    BY <1>4 DEF VInv, Propio
  <2>2. \A k \in Workers : At(k, "rota") /\ worker[k].id = i => worker[k].dispositivo = worker[m].dispositivo
    BY <1>4 DEF VInv, Dueno
  <2> QED BY <1>1, <1>3, <2>1, <2>2 DEF VInv, Dueno, At
<1>10. Reciente'  BY <1>1, <1>3 DEF VInv, Reciente, Firmado
<1>11. SesionAtendida'  BY <1>1, <1>3 DEF VInv, SesionAtendida, At
<1>12. Renovando'  BY <1>1, <1>3 DEF VInv, Renovando, At, Leyendo
<1>13. Entrega'
  <2> SUFFICES ASSUME NEW n \in Workers, NEW d \in Dispositivos,
                      worker'[n].oye /\ worker'[n].dispositivo = d /\ worker'[n].paso \in Firmado,
                      perdio[d] => worker'[n].op # "refresh"
               PROVE  \E j \in Ids : /\ Vale(j, d, worker'[n].token)
                                     /\ \A k \in Workers : At(k, "rota")' => worker'[k].id # j
    BY DEF Entrega, Vale, Es
  <2>1. n # m /\ worker'[n] = worker[n]  BY <1>1, <1>3 DEF Firmado
  <2>2. PICK j \in Ids : Vale(j, d, worker[n].token) /\ \A k \in Workers : At(k, "rota") => worker[k].id # j
    BY <2>1 DEF VInv, Entrega, Es
  <2>3. j # i  BY <2>1, <2>2 DEF VInv, Reciente, Vale
  <2> QED BY <1>1, <1>3, <2>1, <2>2, <2>3 DEF At
<1>14. Vigente'  BY <1>1, <1>3 DEF VInv, Vigente, Vale, Renovada, At, Es
<1> QED BY <1>6, <1>7, <1>8, <1>9, <1>10, <1>11, <1>12, <1>13, <1>14 DEF VInv
\* The same of a state and the one after it.
ValeTras(i, d, t) == i < siguienteId' /\ sesiones'[i].jti = t /\ sesiones'[i].suscriptor = De[d]

--------------------
(* A token is signed.                                                      *)

\* A new token is nobody's: what is known of the others stays.
LEMMA FirmaNueva ==
    ASSUME TypeInv, VInv, NEW m \in Workers, NEW w \in Worker, Goes(m, w), UNCHANGED tiene,
           worker[m].dispositivo \in Dispositivos, w.dispositivo = worker[m].dispositivo,
           w.token = jti + 1, jti' = jti + 1, jti' \in Jtis
    PROVE  /\ \A n \in Workers : worker[n].token # jti + 1
           /\ \A d \in Dispositivos : tiene[d] # jti + 1
           /\ \A d \in Dispositivos, t \in Jtis :
                 Sabe(d, t)' => Sabe(d, t) \/ (t = jti + 1 /\ d = worker[m].dispositivo)
           /\ Propio'
<1>0. \A n \in Workers : worker'[n] = IF n = m THEN w ELSE worker[n]  BY DEF TypeInv, TypeOK, Goes
<1>j. jti \in Nat  BY DEF TypeInv, TypeOK
<1>1. \A n \in Workers : worker[n].token # jti + 1
  <2> SUFFICES ASSUME NEW n \in Workers, worker[n].token = jti + 1 PROVE FALSE  OBVIOUS
  <2>1. worker[n].token <= jti  BY Conocido
  <2> QED BY <1>j, <2>1
<1>2. \A d \in Dispositivos, t \in Jtis : Sabe(d, t) => t <= jti  BY DEF VInv, Propio
<1>3. \A d \in Dispositivos : tiene[d] # jti + 1  BY <1>2 DEF Sabe, TypeInv, TypeOK
<1>4. \A d \in Dispositivos, t \in Jtis :
          Sabe(d, t)' => Sabe(d, t) \/ (t = jti + 1 /\ d = worker[m].dispositivo)
  BY <1>0 DEF Sabe
<1>5. Propio'
  <2>1. \A d \in Dispositivos, t \in Jtis : Sabe(d, t)' => t <= jti'  BY <1>j, <1>2, <1>4
  <2>2. \A d, e \in Dispositivos, t \in Jtis : Sabe(d, t)' /\ Sabe(e, t)' => d = e
    BY <1>j, <1>2, <1>4 DEF VInv, Propio
  <2> QED BY <2>1, <2>2 DEF Propio
<1> QED BY <1>1, <1>3, <1>4, <1>5

LEMMA Emite == ASSUME TypeInv, VInv, NEW m \in Workers, IssueRefreshSession(m) PROVE VInv'
<1> DEFINE x == CASE Es(m, "email") -> "ultimoLogin" [] Es(m, "otp") -> "responde"
                  [] OTHER -> "migra"
           w == [worker[m] EXCEPT !.token = jti', !.paso = x]
           f == [suscriptor |-> Titular(m), jti |-> jti', revocada |-> FALSE]
<1>1. x \in Firmado /\ (x = "responde" => worker[m].op = "otp")  BY DEF Firmado, Es
<1>2. /\ At(m, "emite") /\ siguienteId \in Ids /\ jti' = jti + 1 /\ jti' \in Jtis /\ jti \in Nat
      /\ sesiones' = [sesiones EXCEPT ![siguienteId] = f]
      /\ siguienteId' = siguienteId + 1 /\ UNCHANGED <<tiene, pide, perdio>>
  BY DEF IssueRefreshSession, NuevaSesion, Firma, TypeInv, TypeOK
<1>3. f.jti = jti + 1 /\ f.suscriptor = worker[m].suscriptor  BY <1>2 DEF Titular
<1>4. Goes(m, w)  BY DEF IssueRefreshSession
<1>5. worker[m] \in Worker /\ x \in Pasos /\ jti' \in Token
  BY <1>1, <1>2 DEF TypeInv, TypeOK, Firmado, Pasos
<1>6. /\ w \in Worker /\ w.op = worker[m].op /\ w.paso = x /\ w.suscriptor = worker[m].suscriptor
      /\ w.dispositivo = worker[m].dispositivo /\ w.oye = worker[m].oye /\ w.token = jti + 1
  BY <1>2, <1>5 DEF Worker
<1> HIDE DEF w, x, f
<1>7. \A n \in Workers : worker'[n] = IF n = m THEN w ELSE worker[n]
  BY <1>4 DEF TypeInv, TypeOK, Goes
<1>8. \A i \in Ids : sesiones'[i] = IF i = siguienteId THEN f ELSE sesiones[i]
  BY <1>2 DEF TypeInv, TypeOK
<1>9. worker[m].dispositivo \in Dispositivos /\ worker[m].suscriptor = De[worker[m].dispositivo]
  BY <1>2 DEF VInv, Peticiones, PeticionOK, At, DeDispositivo
<1>10. /\ \A n \in Workers : worker[n].token # jti + 1
       /\ \A d \in Dispositivos : tiene[d] # jti + 1
       /\ \A d \in Dispositivos, t \in Jtis :
             Sabe(d, t)' => Sabe(d, t) \/ (t = jti + 1 /\ d = worker[m].dispositivo)
       /\ Propio'
  BY <1>2, <1>4, <1>6, <1>9, FirmaNueva
<1>11. \A i \in Ids : i < siguienteId => sesiones'[i] = sesiones[i] /\ sesiones[i].jti \in Jtis /\ sesiones[i].jti <= jti
  BY <1>2, <1>8 DEF TypeInv, FilasOK, Fila
<1>12. \A n \in Workers : At(n, "rota")' =>
          /\ At(n, "rota") /\ n # m /\ worker'[n] = worker[n] /\ worker[n].id \in Ids
          /\ worker[n].id < siguienteId
  BY <1>1, <1>6, <1>7, FilaARotar DEF At, Firmado
<1>13. \A i \in Ids : \A d, t : Vale(i, d, t) => ValeTras(i, d, t)
  BY <1>2, <1>11 DEF Vale, ValeTras, TypeInv, TypeOK
<1>14. Peticiones'
  <2> SUFFICES ASSUME NEW n \in Workers PROVE PeticionOK(n)'  BY DEF Peticiones
  <2>1. PeticionOK(n)  BY DEF VInv, Peticiones
  <2>2. CASE n = m
    BY <1>1, <1>2, <1>6, <1>7, <1>9, <2>1, <2>2 DEF PeticionOK, Firmado, Leyendo, DeDispositivo
  <2>3. CASE n # m  BY <1>2, <1>7, <1>11, <2>1, <2>3, OtraPeticion DEF PeticionOK
  <2> QED BY <2>2, <2>3
<1>15. UnaALaVez'  BY <1>6, <1>7 DEF VInv, UnaALaVez
<1>16. JtiUnico'  BY <1>2, <1>3, <1>8, <1>11 DEF VInv, JtiUnico
<1>17. Dueno'  BY <1>2, <1>10, <1>11, <1>12 DEF VInv, Dueno
<1>18. Reciente'  BY <1>2, <1>6, <1>7, <1>10 DEF VInv, Reciente
<1>19. SesionAtendida'
  BY <1>1, <1>2, <1>6, <1>7, <1>11, <1>12 DEF VInv, SesionAtendida, At, Firmado
<1>20. Renovando'  BY <1>1, <1>2, <1>6, <1>7, <1>11, <1>12 DEF VInv, Renovando, At, Leyendo, Firmado
<1>21. Entrega'
  <2> SUFFICES ASSUME NEW n \in Workers, NEW d \in Dispositivos,
                      worker'[n].oye /\ worker'[n].dispositivo = d /\ worker'[n].paso \in Firmado,
                      perdio[d] => worker'[n].op # "refresh"
               PROVE  \E j \in Ids : /\ ValeTras(j, d, worker'[n].token)
                                     /\ \A k \in Workers : At(k, "rota")' => worker'[k].id # j
    BY <1>2 DEF Entrega, Vale, ValeTras, Es
  <2>1. CASE n = m  BY <1>2, <1>3, <1>6, <1>7, <1>8, <1>9, <2>1, <1>12 DEF Vale, ValeTras
  <2>2. CASE n # m
    <3>1. worker'[n] = worker[n]  BY <1>7, <2>2
    <3>2. PICK j \in Ids : Vale(j, d, worker[n].token) /\ \A k \in Workers : At(k, "rota") => worker[k].id # j
      BY <3>1 DEF VInv, Entrega, Es
    <3> QED BY <1>12, <1>13, <3>1, <3>2 DEF Vale, ValeTras
  <2> QED BY <2>1, <2>2
<1>22. Vigente'  BY <1>2, <1>7, <1>13 DEF Renovada, At, Es, VInv, Vigente, Vale, ValeTras
<1> QED BY <1>10, <1>14, <1>15, <1>16, <1>17, <1>18, <1>19, <1>20, <1>21, <1>22 DEF VInv

LEMMA Renueva == ASSUME TypeInv, VInv, NEW m \in Workers, Rota(m) PROVE VInv'
<1> DEFINE w == [worker[m] EXCEPT !.token = jti', !.paso = "responde"]
           k == worker[m].id
           f == [sesiones[k] EXCEPT !.jti = jti']
<1>1. /\ At(m, "rota") /\ jti' = jti + 1 /\ jti' \in Jtis /\ jti \in Nat
      /\ sesiones' = [sesiones EXCEPT ![k] = f]
      /\ siguienteId' = siguienteId /\ UNCHANGED <<tiene, pide, perdio>>
  BY DEF Rota, Rotada, Firma, TypeInv, TypeOK
<1>2. /\ k \in Ids /\ k < siguienteId /\ sesiones[k] \in Fila
      /\ sesiones[k].jti \in Jtis /\ sesiones[k].jti <= jti
  BY <1>1, FilaARotar
<1>3. f.jti = jti + 1 /\ f.suscriptor = sesiones[k].suscriptor  BY <1>1, <1>2 DEF Fila
<1>4. Goes(m, w)  BY DEF Rota
<1>5. worker[m] \in Worker /\ "responde" \in Pasos /\ jti' \in Token
  BY <1>1 DEF TypeInv, TypeOK, Pasos
<1>6. /\ w \in Worker /\ w.op = worker[m].op /\ w.paso = "responde" /\ w.suscriptor = worker[m].suscriptor
      /\ w.dispositivo = worker[m].dispositivo /\ w.oye = worker[m].oye /\ w.token = jti + 1
  BY <1>1, <1>5 DEF Worker
<1> HIDE DEF w, f
<1>7. \A n \in Workers : worker'[n] = IF n = m THEN w ELSE worker[n]
  BY <1>4 DEF TypeInv, TypeOK, Goes
<1>8. \A i \in Ids : sesiones'[i] = IF i = k THEN f ELSE sesiones[i]
  BY <1>1, <1>2 DEF TypeInv, TypeOK
<1> HIDE DEF k
<1>9. /\ worker[m].dispositivo \in Dispositivos /\ worker[m].suscriptor = De[worker[m].dispositivo]
      /\ worker[m].op = "refresh" /\ sesiones[k].suscriptor = worker[m].suscriptor
  BY <1>1 DEF VInv, Peticiones, PeticionOK, At, DeDispositivo, Leyendo, k
<1>10. /\ \A n \in Workers : worker[n].token # jti + 1
       /\ \A d \in Dispositivos : tiene[d] # jti + 1
       /\ \A d \in Dispositivos, t \in Jtis :
             Sabe(d, t)' => Sabe(d, t) \/ (t = jti + 1 /\ d = worker[m].dispositivo)
       /\ Propio'
  BY <1>1, <1>4, <1>6, <1>9, FirmaNueva
<1>11. \A i \in Ids : i < siguienteId => sesiones[i].jti \in Jtis /\ sesiones[i].jti <= jti
  BY DEF TypeInv, FilasOK, Fila
<1>12. \A n \in Workers : At(n, "rota")' =>
          /\ At(n, "rota") /\ n # m /\ worker'[n] = worker[n] /\ worker[n].id \in Ids
          /\ worker[n].id < siguienteId
  BY <1>6, <1>7, FilaARotar DEF At
<1>13. \A d \in Dispositivos : Sabe(d, sesiones[k].jti) => d = worker[m].dispositivo
  BY <1>1 DEF VInv, Dueno, k
<1>14. \A n \in Workers : At(n, "rota") /\ worker[n].id = k => worker[n].dispositivo = worker[m].dispositivo
  BY <1>1 DEF VInv, Dueno, k
\* The device that holds the token of this row waits for this request.
<1>15. \A d \in Dispositivos : ~perdio[d] /\ tiene[d] = sesiones[k].jti =>
          worker[m].dispositivo = d /\ \A n \in Workers : At(n, "rota") /\ worker[n].id = k => n = m /\ worker[n].oye
  <2> SUFFICES ASSUME NEW d \in Dispositivos, ~perdio[d], tiene[d] = sesiones[k].jti
               PROVE  worker[m].dispositivo = d /\ \A n \in Workers : At(n, "rota") /\ worker[n].id = k => n = m /\ worker[n].oye
    OBVIOUS
  <2>1. worker[m].dispositivo = d  BY <1>13 DEF Sabe
  <2>2. \A n \in Workers : At(n, "rota") /\ worker[n].id = k => worker[n].oye /\ worker[n].dispositivo = d
    BY <1>2, <1>14, <2>1 DEF VInv, SesionAtendida
  <2>3. worker[m].oye  BY <1>1, <2>2 DEF k
  <2> QED BY <2>1, <2>2, <2>3 DEF VInv, UnaALaVez
<1>16. \A i \in Ids : \A d, t : Vale(i, d, t) /\ i # k => ValeTras(i, d, t)
  BY <1>1, <1>8 DEF Vale, ValeTras
<1>17. Peticiones'
  <2> SUFFICES ASSUME NEW n \in Workers PROVE PeticionOK(n)'  BY DEF Peticiones
  <2>1. PeticionOK(n)  BY DEF VInv, Peticiones
  <2>2. CASE n = m
    BY <1>1, <1>6, <1>7, <1>9, <2>1, <2>2 DEF PeticionOK, Firmado, Leyendo, DeDispositivo
  <2>3. CASE n # m  BY <1>1, <1>3, <1>7, <1>8, <2>1, <2>3, OtraPeticion DEF PeticionOK
  <2> QED BY <2>2, <2>3
<1>18. UnaALaVez'  BY <1>6, <1>7 DEF VInv, UnaALaVez
<1>19. JtiUnico'  BY <1>1, <1>3, <1>8, <1>11 DEF VInv, JtiUnico
<1>20. Dueno'
  <2> SUFFICES ASSUME NEW n \in Workers, At(n, "rota"), worker'[n] = worker[n], n # m
               PROVE  /\ \A d \in Dispositivos : Sabe(d, sesiones[worker[n].id].jti)' => worker[n].dispositivo = d
                      /\ \A l \in Workers : At(l, "rota") /\ worker[l].id = worker[n].id =>
                             worker[n].dispositivo = worker[l].dispositivo
    BY <1>12 DEF Dueno
  <2>1. worker[n].id \in Ids /\ worker[n].id < siguienteId  BY FilaARotar
  <2>2. CASE worker[n].id = k
    <3>1. sesiones'[worker'[n].id].jti = jti + 1  BY <1>3, <1>8, <2>1, <2>2
    <3>2. \A d \in Dispositivos, t \in Jtis : t = jti + 1 /\ Sabe(d, t)' => worker[m].dispositivo = d
      BY <1>1, <1>10 DEF VInv, Propio
    <3>3. \A d \in Dispositivos : Sabe(d, sesiones[worker[n].id].jti)' => worker[n].dispositivo = d
      BY <1>1, <1>14, <2>2, <3>1, <3>2
    <3>4. \A l \in Workers : At(l, "rota") /\ worker[l].id = worker[n].id =>
                             worker[n].dispositivo = worker[l].dispositivo
      BY <1>14, <2>2
    <3> QED BY <3>3, <3>4
  <2>3. CASE worker[n].id # k  BY <1>8, <2>1, <2>3, <1>1, <1>10, <1>11 DEF VInv, Dueno
  <2> QED BY <2>2, <2>3
<1>21. Reciente'  BY <1>1, <1>6, <1>7, <1>10 DEF VInv, Reciente
<1>22. SesionAtendida'  BY <1>3, <1>8, <1>12, <1>1, <1>6, <1>7, <1>10 DEF VInv, SesionAtendida, At
<1>23. Renovando'
  <2> SUFFICES ASSUME NEW n \in Workers, NEW d \in Dispositivos, n # m, worker'[n] = worker[n],
                      worker[n].oye /\ worker[n].dispositivo = d /\ worker[n].paso \in Leyendo
               PROVE  /\ worker[n].token = tiene[d]
                      /\ At(n, "rota") /\ ~perdio[d] => sesiones'[worker[n].id].jti = tiene[d]
    BY <1>1, <1>6, <1>7 DEF Renovando, At, Leyendo
  <2>1. worker[n].token = tiene[d]  BY DEF VInv, Renovando
  <2>2. ASSUME At(n, "rota"), ~perdio[d] PROVE sesiones'[worker[n].id].jti = tiene[d]
    BY <2>2, <1>15, <1>8, FilaARotar DEF VInv, Renovando
  <2> QED BY <2>1, <2>2
<1>24. Entrega'
  <2> SUFFICES ASSUME NEW n \in Workers, NEW d \in Dispositivos,
                      worker'[n].oye /\ worker'[n].dispositivo = d /\ worker'[n].paso \in Firmado,
                      perdio[d] => worker'[n].op # "refresh"
               PROVE  \E j \in Ids : /\ ValeTras(j, d, worker'[n].token)
                                     /\ \A l \in Workers : At(l, "rota")' => worker'[l].id # j
    BY <1>1 DEF Entrega, Vale, ValeTras, Es
  <2>1. CASE n = m
    <3>1. worker[m].oye /\ worker[m].dispositivo = d /\ ~perdio[d]  BY <1>6, <1>7, <1>9, <2>1
    <3>2. tiene[d] = sesiones[k].jti  BY <1>1, <3>1 DEF VInv, Renovando, At, Leyendo, k
    <3>3. ValeTras(k, d, worker'[n].token)
      BY <1>1, <1>2, <1>3, <1>6, <1>7, <1>8, <1>9, <2>1, <3>1 DEF Vale, ValeTras
    <3> QED BY <1>2, <1>12, <1>15, <3>1, <3>2, <3>3
  <2>2. CASE n # m
    <3>1. worker'[n] = worker[n]  BY <1>7, <2>2
    <3>2. PICK j \in Ids : Vale(j, d, worker[n].token) /\ \A l \in Workers : At(l, "rota") => worker[l].id # j
      BY <3>1 DEF VInv, Entrega, Es
    <3>3. j # k  BY <1>1, <3>2 DEF k
    <3> QED BY <1>12, <1>16, <3>1, <3>2, <3>3 DEF Vale, ValeTras
  <2> QED BY <2>1, <2>2
<1>25. Vigente'
  <2> SUFFICES ASSUME NEW d \in Dispositivos, ~perdio[d], tiene[d] \in Jtis,
                      \A n \in Workers : ~Renovada(n, d)'
               PROVE  \E i \in Ids : ValeTras(i, d, tiene[d])
    BY <1>1 DEF Vigente, Vale, ValeTras
  <2>1. \A n \in Workers : ~Renovada(n, d)  BY <1>1, <1>7 DEF Renovada, At, Es
  <2>2. PICK i \in Ids : Vale(i, d, tiene[d])  BY <2>1 DEF VInv, Vigente
  <2>3. i # k  BY <1>6, <1>7, <1>9, <1>1, <1>15, <2>2 DEF Renovada, At, Es, Vale, ValeTras, k
  <2> QED BY <1>16, <2>2, <2>3
<1> QED BY <1>10, <1>17, <1>18, <1>19, <1>20, <1>21, <1>22, <1>23, <1>24, <1>25 DEF VInv
--------------------
(* An answer arrives.                                                      *)
LEMMA ContestaSesion == ASSUME TypeInv, VInv, NEW m \in Workers, Responde(m) PROVE VInv'
<1>1. /\ At(m, "responde") /\ Goes(m, Idle) /\ UNCHANGED <<sesiones, siguienteId, jti>>
      /\ \A d \in Dispositivos : /\ (pide'[d] <=> pide[d] /\ ~Oye(m, d))
                                 /\ tiene'[d] = IF Oye(m, d) THEN worker[m].token ELSE tiene[d]
                                 /\ (perdio'[d] <=> perdio[d] /\ ~(Oye(m, d) /\ ~Es(m, "refresh")))
  BY DEF Responde, Termina
<1>2. \A n \in Workers : worker'[n] = IF n = m THEN Idle ELSE worker[n]
  BY <1>1 DEF TypeInv, TypeOK, Goes
<1>3. Idle.dispositivo \notin Dispositivos /\ ~Idle.oye /\ Idle.token \notin Jtis /\ Idle.paso = "idle"
  BY Constantes DEF Idle
<1>4. /\ worker[m].dispositivo \in Dispositivos /\ worker[m].token \in Jtis
      /\ \A n \in Workers : worker[n].token = worker[m].token => n = m
      /\ \A d \in Dispositivos : tiene[d] # worker[m].token
  BY <1>1 DEF VInv, Peticiones, PeticionOK, Reciente, At, Firmado, DeDispositivo
<1>5. \A d \in Dispositivos, t \in Jtis : Sabe(d, t)' => Sabe(d, t)
  BY <1>1, <1>2, <1>3 DEF Sabe, Oye
<1>6. \A n \in Workers : At(n, "rota")' => At(n, "rota") /\ n # m /\ worker'[n] = worker[n]
  BY <1>1, <1>2, <1>3 DEF At
\* A device that hears this answer waits for no other one.
<1>7. \A n \in Workers, d \in Dispositivos : n # m /\ worker[n].oye /\ worker[n].dispositivo = d =>
          ~Oye(m, d) /\ pide'[d] /\ tiene'[d] = tiene[d] /\ (perdio'[d] <=> perdio[d])
  BY <1>1 DEF VInv, UnaALaVez, Oye, Peticiones, PeticionOK
<1>8. Peticiones'
  <2> SUFFICES ASSUME NEW n \in Workers PROVE PeticionOK(n)'  BY DEF Peticiones
  <2>1. PeticionOK(n)  BY DEF VInv, Peticiones
  <2>2. CASE n = m  BY <1>2, <1>3, <2>2 DEF PeticionOK, Firmado, Leyendo, DeDispositivo
  <2>3. CASE n # m  BY <1>1, <1>2, <1>7, <2>1, <2>3, OtraPeticion DEF PeticionOK
  <2> QED BY <2>2, <2>3
<1>9. UnaALaVez'  BY <1>2, <1>3 DEF VInv, UnaALaVez
<1>10. JtiUnico' /\ Propio'  BY <1>1, <1>5 DEF VInv, JtiUnico, Propio
<1>11. Dueno'  BY <1>1, <1>5, <1>6, FilaARotar DEF VInv, Dueno
<1>12. Reciente'
  <2> SUFFICES ASSUME NEW n \in Workers, n # m, worker'[n] = worker[n], worker[n].paso \in Firmado
               PROVE  /\ \A k \in Workers : worker'[k].token = worker[n].token => k = n
                      /\ \A d \in Dispositivos : tiene'[d] # worker[n].token
    BY <1>2, <1>3 DEF Reciente, Firmado
  <2>1. worker[n].token \in Jtis  BY DEF VInv, Peticiones, PeticionOK
  <2>2. /\ \A k \in Workers : worker[k].token = worker[n].token => k = n
        /\ \A d \in Dispositivos : tiene[d] # worker[n].token
    BY DEF VInv, Reciente
  <2> QED BY <1>1, <1>2, <1>3, <1>4, <2>1, <2>2
\* The session of the token that is delivered: nobody is rotating it.
<1>13. \A d \in Dispositivos : Oye(m, d) /\ ~perdio'[d] =>
           \E i \in Ids : Vale(i, d, worker[m].token) /\ \A n \in Workers : At(n, "rota") => worker[n].id # i
  BY <1>1 DEF VInv, Entrega, Oye, At, Firmado
<1>14. SesionAtendida'
  <2> SUFFICES ASSUME NEW n \in Workers, NEW d \in Dispositivos, n # m, worker'[n] = worker[n],
                      worker[n].dispositivo = d, ~perdio'[d], tiene'[d] \in Jtis
               PROVE  /\ At(n, "lee") /\ worker[n].token = tiene'[d] => worker[n].oye
                      /\ At(n, "rota") /\ sesiones[worker[n].id].jti = tiene'[d] => worker[n].oye
    BY <1>1, <1>2, <1>3 DEF SesionAtendida, At
  <2>1. CASE Oye(m, d)
    <3>1. tiene'[d] = worker[m].token  BY <1>1, <2>1
    <3>2. PICK i \in Ids : Vale(i, d, worker[m].token) /\ \A k \in Workers : At(k, "rota") => worker[k].id # i
      BY <1>13, <2>1
    <3>3. At(n, "rota") => sesiones[worker[n].id].jti # worker[m].token
      BY <3>2, FilaARotar DEF VInv, JtiUnico, Vale
    <3> QED BY <1>4, <3>1, <3>3
  <2>2. CASE ~Oye(m, d)  BY <1>1, <2>2 DEF VInv, SesionAtendida
  <2> QED BY <2>1, <2>2
<1>15. Renovando'  BY <1>1, <1>2, <1>3, <1>7 DEF VInv, Renovando, At, Leyendo
<1>16. Entrega'  BY <1>1, <1>2, <1>3, <1>6, <1>7 DEF VInv, Entrega, Vale, At, Es
<1>17. Vigente'
  <2> SUFFICES ASSUME NEW d \in Dispositivos, ~perdio'[d], tiene'[d] \in Jtis, \A n \in Workers : ~Renovada(n, d)'
               PROVE  \E i \in Ids : Vale(i, d, tiene'[d])
    BY <1>1 DEF Vigente, Vale
  <2>1. CASE Oye(m, d)  BY <1>1, <1>13, <2>1
  <2>2. CASE ~Oye(m, d)  BY <1>2, <2>2, <1>1 DEF Renovada, Oye, At, Es, VInv, Vigente
  <2> QED BY <2>1, <2>2
<1> QED BY <1>8, <1>9, <1>10, <1>11, <1>12, <1>14, <1>15, <1>16, <1>17 DEF VInv

--------------------
(* A device gives up.                                                      *)
LEMMA AbandonaSesion == ASSUME TypeInv, VInv, NEW m \in Workers, Desiste(m) PROVE VInv'
<1> DEFINE w == [worker[m] EXCEPT !.oye = FALSE]
<1>1. /\ worker[m].oye /\ Goes(m, w) /\ UNCHANGED <<sesiones, siguienteId, jti, tiene>>
      /\ \A d \in Dispositivos : /\ (pide'[d] <=> pide[d] /\ ~Oye(m, d))
                                 /\ (perdio'[d] <=> perdio[d] \/ Oye(m, d))
  BY DEF Desiste
<1>2. /\ w.op = worker[m].op /\ w.paso = worker[m].paso /\ w.suscriptor = worker[m].suscriptor
      /\ w.id = worker[m].id /\ w.dispositivo = worker[m].dispositivo /\ ~w.oye /\ w.token = worker[m].token
  BY DEF TypeInv, TypeOK, Worker
<1> HIDE DEF w
<1>3. \A n \in Workers : worker'[n] = IF n = m THEN w ELSE worker[n]
  BY <1>1 DEF TypeInv, TypeOK, Goes
<1>4. \A d \in Dispositivos : \A t : Sabe(d, t)' <=> Sabe(d, t)  BY <1>1, <1>2, <1>3 DEF Sabe
<1>5. \A n \in Workers : /\ worker'[n].paso = worker[n].paso /\ worker'[n].token = worker[n].token
                         /\ worker'[n].op = worker[n].op /\ worker'[n].id = worker[n].id
                         /\ worker'[n].dispositivo = worker[n].dispositivo
                         /\ worker'[n].oye <=> (worker[n].oye /\ n # m)
  BY <1>2, <1>3
<1>6. \A n \in Workers : worker[n].oye /\ n # m => ~Oye(m, worker[n].dispositivo)
  BY DEF VInv, UnaALaVez, Oye
<1>7. Peticiones'
  <2> SUFFICES ASSUME NEW n \in Workers PROVE PeticionOK(n)'  BY DEF Peticiones
  <2>1. PeticionOK(n)  BY DEF VInv, Peticiones
  <2>2. CASE n = m  BY <1>1, <1>2, <1>3, <2>1, <2>2 DEF PeticionOK
  <2>3. CASE n # m  BY <1>1, <1>3, <1>6, <2>1, <2>3, OtraPeticion DEF PeticionOK
  <2> QED BY <2>2, <2>3
<1>8. UnaALaVez'  BY <1>5 DEF VInv, UnaALaVez
<1>9. JtiUnico' /\ Propio'  BY <1>1, <1>4 DEF VInv, JtiUnico, Propio
<1>10. Dueno'  BY <1>1, <1>4, <1>5 DEF VInv, Dueno, At
<1>11. Reciente'  BY <1>1, <1>5 DEF VInv, Reciente
<1>12. SesionAtendida'
  <2> SUFFICES ASSUME NEW n \in Workers, NEW d \in Dispositivos,
                      worker[n].dispositivo = d, ~perdio'[d], tiene[d] \in Jtis
               PROVE  /\ At(n, "lee") /\ worker[n].token = tiene[d] => worker'[n].oye
                      /\ At(n, "rota") /\ sesiones[worker[n].id].jti = tiene[d] => worker'[n].oye
    BY <1>1, <1>5 DEF SesionAtendida, At
  <2>1. n # m /\ ~perdio[d]  BY <1>1 DEF Oye
  <2> QED BY <1>5, <2>1 DEF VInv, SesionAtendida
<1>13. Renovando'
  <2> SUFFICES ASSUME NEW n \in Workers, NEW d \in Dispositivos,
                      worker[n].oye, worker[n].dispositivo = d, worker[n].paso \in Leyendo
               PROVE  /\ worker[n].token = tiene[d]
                      /\ worker[n].paso = "rota" /\ ~perdio'[d] => sesiones[worker[n].id].jti = tiene[d]
    BY <1>1, <1>5 DEF Renovando, At
  <2> QED BY <1>1 DEF VInv, Renovando, At
<1>14. Entrega'
  <2> SUFFICES ASSUME NEW n \in Workers, NEW d \in Dispositivos,
                      worker[n].oye, worker[n].dispositivo = d, worker[n].paso \in Firmado,
                      perdio'[d] => worker[n].op # "refresh"
               PROVE  \E i \in Ids : /\ Vale(i, d, worker[n].token)
                                     /\ \A k \in Workers : worker[k].paso = "rota" => worker[k].id # i
    BY <1>1, <1>5 DEF Entrega, Vale, At, Es
  <2> QED BY <1>1 DEF VInv, Entrega, At, Es
<1>15. Vigente'
  <2> SUFFICES ASSUME NEW d \in Dispositivos, ~perdio'[d], tiene[d] \in Jtis, \A n \in Workers : ~Renovada(n, d)'
               PROVE  \E i \in Ids : Vale(i, d, tiene[d])
    BY <1>1 DEF Vigente, Vale
  <2>1. ~Oye(m, d) /\ ~perdio[d]  BY <1>1
  <2>2. \A n \in Workers : ~Renovada(n, d)  BY <1>5, <2>1 DEF Renovada, Oye, At, Es
  <2> QED BY <2>1, <2>2 DEF VInv, Vigente
<1> QED BY <1>7, <1>8, <1>9, <1>10, <1>11, <1>12, <1>13, <1>14, <1>15 DEF VInv

(* The process restarts.                                                   *)
LEMMA Reinicia == ASSUME TypeInv, VInv, Crash PROVE VInv'
<1>1. /\ \A m \in Workers : worker'[m] = Idle
      /\ UNCHANGED <<sesiones, siguienteId, jti, tiene>>
      /\ \A d \in Dispositivos : perdio'[d] <=> (perdio[d] \/ pide[d])
  BY DEF Crash
<1>2. Idle.dispositivo \notin Dispositivos /\ ~Idle.oye /\ Idle.token \notin Jtis /\ Idle.paso = "idle"
  BY Constantes DEF Idle
<1>3. Peticiones' /\ UnaALaVez' /\ Dueno' /\ Reciente' /\ SesionAtendida' /\ Renovando' /\ Entrega'
  BY <1>1, <1>2 DEF Peticiones, PeticionOK, UnaALaVez, Dueno, Reciente, SesionAtendida, Renovando, Entrega,
                    At, Firmado, Leyendo, DeDispositivo
<1>4. \A d \in Dispositivos, t \in Jtis : Sabe(d, t)' => Sabe(d, t)  BY <1>1, <1>2 DEF Sabe
<1>5. JtiUnico' /\ Propio'  BY <1>1, <1>4 DEF VInv, JtiUnico, Propio
<1>6. Vigente'  BY <1>1 DEF VInv, Peticiones, PeticionOK, Renovada, Vigente, Vale
<1> QED BY <1>3, <1>5, <1>6 DEF VInv
--------------------
(* Every step of the sessions is one of those.                             *)

\* The request ends, or its next step is another one that renews nothing.
LEMMA Acaba ==
    ASSUME TypeInv, VInv, NEW m \in Workers, Termina(m), worker[m].paso # "responde", MismasFilas,
           UNCHANGED <<tiene, perdio>>
    PROVE  VInv'
<1>1. /\ Idle \in Worker /\ Idle.dispositivo \notin Dispositivos /\ ~Idle.oye
      /\ Idle.token \notin Jtis /\ Idle.paso = "idle"
  BY IdleOK, Constantes DEF Idle
<1>2. \A e \in Dispositivos : pide'[e] = (pide[e] /\ (Oye(m, e) => Idle.oye))  BY <1>1 DEF Termina
<1> QED BY <1>1, <1>2, SigueSesion DEF Termina, Firmado, Leyendo, DeDispositivo

LEMMA Avanza ==
    ASSUME TypeInv, VInv, NEW m \in Workers, NEW x \in Pasos, Step(m, x), MismasFilas,
           UNCHANGED <<tiene, pide, perdio>>,
           worker[m].paso # "responde", x \notin Leyendo,
           x \in Firmado <=> worker[m].paso \in Firmado,
           worker[m].paso \notin Leyendo,
           x \in DeDispositivo <=> worker[m].paso \in DeDispositivo
    PROVE  VInv'
<1> DEFINE w == [worker[m] EXCEPT !.paso = x]
<1>1. worker[m] \in Worker /\ PeticionOK(m)  BY DEF TypeInv, TypeOK, VInv, Peticiones
<1>2. /\ w \in Worker /\ w.op = worker[m].op /\ w.paso = x /\ w.suscriptor = worker[m].suscriptor
      /\ w.dispositivo = worker[m].dispositivo /\ w.oye = worker[m].oye /\ w.token = worker[m].token
  BY <1>1 DEF Worker
<1>3. Goes(m, w)  BY DEF Step
<1> HIDE DEF w
<1>4. \A e \in Dispositivos : pide'[e] = (pide[e] /\ (Oye(m, e) => w.oye))
  BY <1>2 DEF TypeInv, TypeOK, Oye
<1> QED BY <1>1, <1>2, <1>3, <1>4, SigueSesion DEF PeticionOK

\* A request that closes sessions has no device that listens.
LEMMA NadieOye ==
    ASSUME VInv, NEW m \in Workers, worker[m].paso \notin DeDispositivo
    PROVE  \A e \in Dispositivos : ~Oye(m, e)
  BY DEF VInv, Peticiones, PeticionOK, Oye

LEMMA AcabaCierre ==
    ASSUME TypeInv, VInv, NEW m \in Workers, Goes(m, Idle), worker[m].paso \notin DeDispositivo,
           MismasFilas, UNCHANGED <<tiene, pide, perdio>>
    PROVE  VInv'
<1>1. /\ Idle \in Worker /\ Idle.dispositivo \notin Dispositivos /\ ~Idle.oye
      /\ Idle.token \notin Jtis /\ Idle.paso = "idle"
  BY IdleOK, Constantes DEF Idle
<1>2. \A e \in Dispositivos : pide'[e] = (pide[e] /\ (Oye(m, e) => Idle.oye))
  BY NadieOye DEF TypeInv, TypeOK
<1>3. worker[m].paso # "responde"  BY DEF DeDispositivo, Firmado
<1> QED BY <1>1, <1>2, <1>3, SigueSesion DEF Firmado, Leyendo, DeDispositivo

LEMMA VDispositivo ==
    ASSUME TypeInv, VInv, NEW m \in Workers, NEW d \in Dispositivos,
           LoginEmail(m, d) \/ VerifyOtp(m, d) \/ Refresh(m, d)
    PROVE  VInv'
<1>0. /\ Nada \in Token /\ Nada \notin Jtis /\ Viejo \in Token /\ Viejo \notin Jtis
      /\ "email" \in Ops /\ "otp" \in Ops /\ "refresh" \in Ops
  BY DEF Ops
<1>1. CASE LoginEmail(m, d) \/ VerifyOtp(m, d)
  <2>1. CASE Pide(m, d, "email", "cuenta", Nada)  BY <1>0, <2>1, Pregunta
  <2>2. CASE Pide(m, d, "otp", "cuenta", Nada)  BY <1>0, <2>2, Pregunta
  <2> QED BY <1>1, <2>1, <2>2 DEF LoginEmail, VerifyOtp
<1>2. CASE Refresh(m, d) /\ tiene[d] = Viejo  BY <1>2, <1>0, Pregunta DEF Refresh
<1>3. CASE Refresh(m, d) /\ tiene[d] # Viejo  BY <1>3, <1>0, Pregunta DEF Refresh, TypeInv, TypeOK
<1> QED BY <1>1, <1>2, <1>3

LEMMA VPideCierre ==
    ASSUME TypeInv, VInv, NEW m \in Workers, NEW s \in Suscriptores,
           NEW op \in Ops, NEW x \in {"revoca", "leeCuenta"}, PideCierre(m, s, op, x)
    PROVE  VInv'
<1> DEFINE w == [Idle EXCEPT !.op = op, !.paso = x, !.suscriptor = s]
<1>1. x \in Pasos  BY DEF Pasos
<1>2. w \in Worker  BY <1>1, IdleOK DEF Idle, Worker
<1>3. w.paso = x /\ w.dispositivo \notin Dispositivos /\ ~w.oye /\ w.token \notin Jtis
  BY Constantes DEF Idle
<1>4. Goes(m, w) /\ UNCHANGED <<tablas, tiene, pide, perdio>> /\ worker[m].paso = "idle"
  BY DEF PideCierre, At
<1> HIDE DEF w
<1>5. worker[m].paso \notin DeDispositivo  BY <1>4 DEF DeDispositivo, Leyendo, Firmado
<1>6. w.paso \notin DeDispositivo  BY <1>3 DEF DeDispositivo, Leyendo, Firmado
<1>7. w.paso \notin Leyendo /\ w.paso \notin Firmado /\ worker[m].paso # "responde"
  BY <1>4, <1>6 DEF DeDispositivo
<1>8. MismasFilas  BY <1>4 DEF MismasFilas
<1>9. \A e \in Dispositivos : pide'[e] = (pide[e] /\ (Oye(m, e) => w.oye))
  BY <1>4, <1>5, NadieOye DEF TypeInv, TypeOK
<1> QED BY <1>2, <1>3, <1>4, <1>6, <1>7, <1>8, <1>9, SigueSesion

LEMMA VCierre ==
    ASSUME TypeInv, VInv, NEW m \in Workers, NEW s \in Suscriptores,
           Logout(m, s) \/ CambiarContrasena(m, s) \/ EliminarCuenta(m, s)
    PROVE  VInv'
<1>1. "logout" \in Ops /\ "contrasena" \in Ops /\ "cuenta" \in Ops  BY DEF Ops
<1> QED BY <1>1, VPideCierre DEF Logout, CambiarContrasena, EliminarCuenta

LEMMA VRechaza ==
    ASSUME TypeInv, VInv, NEW m \in Workers, Rechaza(m), worker[m].paso # "responde"
    PROVE  VInv'
  BY Acaba DEF Rechaza, MismasFilas

LEMMA VLecturas ==
    ASSUME TypeInv, VInv, NEW m \in Workers, LeeLogin(m) \/ LeeSesion(m) \/ LeeLegado(m) \/ LeeCuenta(m)
    PROVE  VInv'
<1>1. worker[m].paso # "responde"  BY DEF LeeLogin, LeeSesion, LeeLegado, LeeCuenta, At
<1>2. CASE Rechaza(m)  BY <1>1, <1>2, VRechaza
<1>3. ASSUME NEW x \in {"emite", "anula", "escribe"}, Step(m, x),
             worker[m].paso \in IF x = "escribe" THEN {"leeCuenta"} ELSE {"cuenta", "leeLegado"},
             UNCHANGED <<tablas, tiene, pide, perdio, cuentas>>
      PROVE  VInv'
  BY <1>3, <1>1, Avanza DEF Leyendo, Firmado, DeDispositivo, MismasFilas, Pasos
<1>4. CASE LeeLogin(m) /\ ~Rechaza(m)  BY <1>3, <1>4 DEF LeeLogin, At
<1>5. CASE LeeLegado(m) /\ ~Rechaza(m)  BY <1>3, <1>5 DEF LeeLegado, At
<1>6. CASE LeeCuenta(m) /\ ~Rechaza(m)  BY <1>3, <1>6 DEF LeeCuenta, At
<1>7. CASE LeeSesion(m) /\ ~Rechaza(m)
  <2> DEFINE I == {i \in Ids : sesiones[i].jti = worker[m].token /\ sesiones[i].suscriptor = Titular(m)}
  <2>1. At(m, "lee") /\ ~ \A i \in I : sesiones[i].revocada  BY <1>7 DEF LeeSesion
  <2>2. PICK i \in I : i = CHOOSE j \in I : TRUE  BY <2>1
  <2>3. /\ Goes(m, [worker[m] EXCEPT !.paso = "rota", !.id = i])
        /\ UNCHANGED <<tablas, tiene, pide, perdio>>
    BY <1>7, <2>1, <2>2 DEF LeeSesion
  <2>4. Titular(m) \in Suscriptores  BY <2>1 DEF At, TypeInv, LocalesOK
  <2>5. i < siguienteId  BY <2>2, <2>4, Constantes DEF TypeInv, FilasOK, NoFila
  <2> QED BY <2>1, <2>2, <2>3, <2>5, Encuentra
<1> QED BY <1>2, <1>4, <1>5, <1>6, <1>7

LEMMA VEscrituras ==
    ASSUME TypeInv, VInv, NEW m \in Workers,
           UltimoLogin(m) \/ AnulaLegado(m) \/ MigraLegado(m) \/ EscribeCuenta(m) \/ BorraLegado(m)
    PROVE  VInv'
<1>1. MismasFilas /\ UNCHANGED <<tiene, perdio>> /\ worker[m].paso # "responde"
  BY DEF MismasFilas, UltimoLogin, AnulaLegado, MigraLegado, EscribeCuenta, BorraLegado, At
<1>2. CASE AnulaLegado(m)  BY <1>1, <1>2, Acaba DEF AnulaLegado
<1>3. CASE BorraLegado(m)
  BY <1>1, <1>3, AcabaCierre DEF BorraLegado, At, DeDispositivo, Leyendo, Firmado
<1>4. CASE UltimoLogin(m) \/ MigraLegado(m)
  BY <1>4, <1>1, Avanza DEF UltimoLogin, MigraLegado, At, Pasos, Leyendo, Firmado, DeDispositivo
<1>5. CASE EscribeCuenta(m)
  BY <1>5, <1>1, Avanza DEF EscribeCuenta, At, Pasos, Leyendo, Firmado, DeDispositivo
<1> QED BY <1>2, <1>3, <1>4, <1>5

LEMMA VRevoca == ASSUME TypeInv, VInv, NEW m \in Workers, RevocaTodas(m) PROVE VInv'
<1>1. /\ siguienteId' = siguienteId /\ jti' = jti /\ UNCHANGED <<tiene, pide, perdio>>
      /\ worker[m].paso = "revoca"
  BY DEF RevocaTodas, At
<1>2. MismasFilas
  <2> SUFFICES ASSUME NEW i \in Ids
               PROVE  sesiones'[i].jti = sesiones[i].jti /\ sesiones'[i].suscriptor = sesiones[i].suscriptor
    BY <1>1 DEF MismasFilas
  <2>1. sesiones[i] \in Fila \/ sesiones[i] = NoFila  BY DEF TypeInv, TypeOK
  <2>2. sesiones'[i] = sesiones[i] \/ sesiones'[i] = [sesiones[i] EXCEPT !.revocada = TRUE]
    BY DEF RevocaTodas
  <2> QED BY <2>1, <2>2 DEF Fila, NoFila
<1>3. worker[m].paso \notin DeDispositivo  BY <1>1 DEF DeDispositivo, Leyendo, Firmado
<1>4. CASE Es(m, "logout")
  BY <1>4, <1>1, <1>2, Avanza DEF RevocaTodas, Step, Pasos, Leyendo, Firmado, DeDispositivo
<1>5. CASE ~Es(m, "logout")  BY <1>1, <1>2, <1>3, <1>5, AcabaCierre DEF RevocaTodas
<1> QED BY <1>4, <1>5

LEMMA VNext == TypeInv /\ VInv /\ [Next]_vars => VInv'
<1> SUFFICES ASSUME TypeInv, VInv, [Next]_vars PROVE VInv'  OBVIOUS
<1>1. ASSUME NEW m \in Workers, Atiende(m) PROVE VInv'
  BY <1>1, VLecturas, VEscrituras, VRevoca, Emite, Renueva, ContestaSesion DEF Atiende
<1>2. ASSUME NEW m \in Workers, Falla(m) PROVE VInv'  BY <1>2, Acaba DEF Falla, MismasFilas
<1>3. CASE UNCHANGED vars
  BY <1>3 DEF vars, VInv, Peticiones, PeticionOK, UnaALaVez, JtiUnico, Propio, Dueno, Reciente, SesionAtendida,
              Renovando, Entrega, Vigente, Sabe, Vale, Renovada, At, Es
<1> QED BY <1>1, <1>2, <1>3, VDispositivo, VCierre, AbandonaSesion, Reinicia DEF Next

LEMMA CerradasNext == TypeInv /\ Cerradas /\ [Next]_vars => Cerradas'
<1> SUFFICES ASSUME TypeInv, Cerradas, [Next]_vars PROVE Cerradas'  OBVIOUS
<1>1. ASSUME NEW m \in Workers, IssueRefreshSession(m) PROVE Cerradas'
  <2> DEFINE f == [suscriptor |-> Titular(m), jti |-> jti', revocada |-> FALSE]
  <2>1. sesiones' = [sesiones EXCEPT ![siguienteId] = f] /\ ~f.revocada /\ cerradas' = cerradas
    BY <1>1 DEF IssueRefreshSession, NuevaSesion
  <2> HIDE DEF f
  <2> QED BY <2>1 DEF Cerradas, TypeInv, TypeOK
<1>2. ASSUME NEW m \in Workers, Rota(m) PROVE Cerradas'
  <2> DEFINE k == worker[m].id
             f == [sesiones[k] EXCEPT !.jti = jti']
  <2>1. /\ sesiones' = [sesiones EXCEPT ![k] = f] /\ cerradas' = cerradas /\ k \in Ids
        /\ sesiones[k] \in Fila
    BY <1>2, FilaARotar DEF Rota, Rotada
  <2>2. f.revocada = sesiones[k].revocada  BY <2>1 DEF Fila
  <2> HIDE DEF f, k
  <2> QED BY <2>1, <2>2 DEF Cerradas, TypeInv, TypeOK
<1>3. ASSUME NEW m \in Workers, RevocaTodas(m) PROVE Cerradas'  BY <1>3 DEF RevocaTodas, Cerradas
<1>4. ASSUME NEW m \in Workers, Atiende(m) PROVE Cerradas'
  BY <1>1, <1>2, <1>3, <1>4
     DEF Atiende, LeeLogin, UltimoLogin, LeeSesion, LeeLegado, AnulaLegado, MigraLegado,
         Responde, LeeCuenta, EscribeCuenta, BorraLegado, Rechaza, Cerradas
<1>5. CASE ~ \E m \in Workers : Atiende(m)
  BY <1>5 DEF Next, vars, LoginEmail, VerifyOtp, Refresh, Pide, Logout, CambiarContrasena,
              EliminarCuenta, PideCierre, Falla, Desiste, Crash, Cerradas
<1> QED BY <1>4, <1>5

LEMMA InvAlways == Spec => []SesionesInv
<1>1. Init => SesionesInv
  <2>1. Init => Cerradas  BY DEF Init, Cerradas, NoFila
  <2> QED BY <2>1, TypeInit, VInit DEF SesionesInv
<1>2. SesionesInv /\ [Next]_vars => SesionesInv'  BY TypeNext, VNext, CerradasNext DEF SesionesInv
<1> QED BY <1>1, <1>2, PTL DEF Spec

(* No device is logged out on its own, or by what another device does: one *)
(* that waits for nothing and lost no answer since its last login holds    *)
(* the token that a row of its subscriber has, and that row is open unless *)
(* logout, a new password or the deletion of the account closed it.        *)
THEOREM NadieSaleSoloSiempre == Spec => []NadieSaleSolo
<1>1. SesionesInv => NadieSaleSolo
  <2> SUFFICES ASSUME SesionesInv, NEW d \in Dispositivos, ~pide[d], ~perdio[d], tiene[d] \in Jtis
               PROVE  \E i \in Ids : /\ sesiones[i].jti = tiene[d] /\ sesiones[i].suscriptor = De[d]
                                     /\ sesiones[i].revocada => i \in cerradas
    BY DEF NadieSaleSolo
  <2>1. \A m \in Workers : ~Renovada(m, d)
    BY DEF SesionesInv, VInv, Peticiones, PeticionOK, Renovada
  <2>2. PICK i \in Ids : Vale(i, d, tiene[d])  BY <2>1 DEF SesionesInv, VInv, Vigente
  <2> QED BY <2>2 DEF SesionesInv, Cerradas, Vale
<1> QED BY <1>1, InvAlways, PTL

HIDE Cotas DEF Ids, Jtis, Token, Nada, Viejo, tablas, cuentas
=============================================================================
