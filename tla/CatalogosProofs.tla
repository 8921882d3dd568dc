----------------------------- MODULE CatalogosProofs -----------------------------
(***************************************************************************)
(* Components of MCServicios, for any number of calls at work at once.     *)
(* The catalogues, for any rows to start from, names and giros: no address *)
(* is there twice, and the tree of giros is as it was told.  The limiter,  *)
(* for any window and limit: a user sends fewer than two limits in a       *)
(* window.  Each has an inductive invariant of its own; the composition    *)
(* adds nothing to them, nor to those of VisitantesProofs.                 *)
(***************************************************************************)
EXTENDS VisitantesProofs, MCServicios, SequenceTheorems, TLAPS

(* Domicilios: no address twice, while no two calls were on top of another. *)

USE DomiciliosAssumption DEF DomiciliosAssumption

\* A call at work has the row it read, or inserts one, of the table of what it saves.
Capturada == [paso : {"busca", "guarda"}, fila : Nat, quita : BOOLEAN, queda : FilaDom,
              clave : TablasDom \X Nat \X Nat]
FormaDom ==
    /\ domicilio \in Seq(FilaDom)
    /\ captura \in [Capturistas -> {SinCaptura} \cup Capturada]
    /\ \A w \in Capturistas : captura[w] # SinCaptura => captura[w].fila \in 0 .. Len(domicilio)
    /\ \A w \in Capturistas : captura[w] # SinCaptura /\ captura[w].fila # 0 =>
          domicilio[captura[w].fila].tabla = captura[w].queda.tabla

\* In a table where no save was on top of another, a removal keeps the key of its row, and no
\* other row has the key of what a call is about to save under the key it looked for.
SinPar(c) ==
    c.queda.tabla \notin encimadas \cup mudadas =>
        /\ c.quita => c.fila # 0 /\ ClaveDom(domicilio[c.fila]) = ClaveDom(c.queda)
        /\ c.paso = "guarda" /\ c.clave = ClaveDom(c.queda) => ~Existe(ClaveDom(c.queda), c.fila)
DomInv == FormaDom /\ ClavesUnicas /\ \A w \in Capturistas : captura[w] # SinCaptura => SinPar(captura[w])

LEMMA SinCapturaNo == SinCaptura \notin Capturada /\ \A c \in Capturada : c # SinCaptura
  BY DEF SinCaptura, Capturada

LEMMA DomInvInit == DomiciliosInit => DomInv
<1> SUFFICES ASSUME DomiciliosInit PROVE DomInv  OBVIOUS
<1>1. domicilio \in DomiciliosIniciales /\ captura = [w \in Capturistas |-> SinCaptura]
  BY DEF DomiciliosInit
<1>2. FormaDom  BY <1>1 DEF FormaDom
<1>3. ClavesUnicas  BY <1>1 DEF ClavesUnicas, ClaveDom
<1> QED BY <1>1, <1>2, <1>3 DEF DomInv

\* A call begins, or goes on.
LEMMA DomCaptura ==
    ASSUME DomInv, NEW w \in Capturistas, NEW c \in Capturada, captura' = [captura EXCEPT ![w] = c],
           c.fila \in 0 .. Len(domicilio),
           c.fila # 0 => domicilio[c.fila].tabla = c.queda.tabla, SinPar(c),
           UNCHANGED <<domicilio, encimadas, mudadas>>
    PROVE  DomInv'
<1>1. FormaDom  BY DEF DomInv
<1>2. /\ captura' \in [Capturistas -> {SinCaptura} \cup Capturada] /\ captura'[w] = c
      /\ \A v \in Capturistas : v # w => captura'[v] = captura[v]
  BY <1>1 DEF FormaDom
<1>3. FormaDom'  BY <1>1, <1>2 DEF FormaDom
<1>4. ClavesUnicas'  BY DEF DomInv, ClavesUnicas, ClaveDom
<1>5. ASSUME NEW v \in Capturistas, captura'[v] # SinCaptura PROVE SinPar(captura[v])'
  <2>1. PICK d : d = captura'[v]  OBVIOUS
  <2>2. SinPar(d)  BY <1>2, <1>5, <2>1 DEF DomInv
  <2>3. SinPar(d)'  BY <2>2 DEF SinPar, Existe, ClaveDom
  <2> QED BY <2>1, <2>3 DEF SinPar, Existe, ClaveDom
<1> QED BY <1>3, <1>4, <1>5 DEF DomInv

LEMMA DomSuelta ==
    ASSUME DomInv, NEW w \in Capturistas, captura' = [captura EXCEPT ![w] = SinCaptura],
           UNCHANGED <<domicilio, encimadas, mudadas>>
    PROVE  DomInv'
<1>1. FormaDom  BY DEF DomInv
<1>2. /\ captura' \in [Capturistas -> {SinCaptura} \cup Capturada] /\ captura'[w] = SinCaptura
      /\ \A v \in Capturistas : v # w => captura'[v] = captura[v]
  BY <1>1 DEF FormaDom
<1>3. FormaDom'  BY <1>1, <1>2 DEF FormaDom
<1>4. ClavesUnicas'  BY DEF DomInv, ClavesUnicas, ClaveDom
<1>5. ASSUME NEW v \in Capturistas, captura'[v] # SinCaptura PROVE SinPar(captura[v])'
  <2>1. PICK d : d = captura'[v]  OBVIOUS
  <2>2. SinPar(d)  BY <1>2, <1>5, <2>1 DEF DomInv
  <2>3. SinPar(d)'  BY <2>2 DEF SinPar, Existe, ClaveDom
  <2> QED BY <2>1, <2>3 DEF SinPar, Existe, ClaveDom
<1> QED BY <1>3, <1>4, <1>5 DEF DomInv

LEMMA PadresNat ==
    ASSUME FormaDom, NEW t \in TablasDom PROVE Padres(t) \subseteq Nat /\ Nombres(t) \subseteq Nat
<1>1. \A k \in TablasDom : DeTabla(k) \subseteq Nat  BY DEF DeTabla, FormaDom
<1>2. "codigos" \in TablasDom /\ "colonias" \in TablasDom /\ "calles" \in TablasDom
  BY DEF TablasDom
<1> QED BY <1>1, <1>2 DEF Padres, Nombres, Ciudades, TablasDom

LEMMA DomCrear ==
    ASSUME DomInv, NEW w \in Capturistas, CrearDom(w) PROVE DomInv'
<1>1. PICK t \in TablasDom, activo \in BOOLEAN : \E p \in Padres(t), n \in Nombres(t) :
         LET f == [tabla |-> t, padre |-> p, nombre |-> n, activo |-> activo]
         IN /\ ~Existe(ClaveDom(f), 0)
            /\ Comienza(w, [paso |-> "guarda", fila |-> 0, quita |-> FALSE, queda |-> f,
                            clave |-> ClaveDom(f)])
  BY DEF CrearDom
<1>2. PICK p \in Padres(t), n \in Nombres(t) :
         LET f == [tabla |-> t, padre |-> p, nombre |-> n, activo |-> activo]
         IN /\ ~Existe(ClaveDom(f), 0)
            /\ Comienza(w, [paso |-> "guarda", fila |-> 0, quita |-> FALSE, queda |-> f,
                            clave |-> ClaveDom(f)])
  BY <1>1
<1> DEFINE f == [tabla |-> t, padre |-> p, nombre |-> n, activo |-> activo]
           c == [paso |-> "guarda", fila |-> 0, quita |-> FALSE, queda |-> f, clave |-> ClaveDom(f)]
<1>3. FormaDom /\ p \in Nat /\ n \in Nat  BY PadresNat DEF DomInv
<1>4. f \in FilaDom /\ ClaveDom(f) \in TablasDom \X Nat \X Nat  BY <1>3 DEF FilaDom, ClaveDom
<1>5. ~Existe(ClaveDom(f), 0) /\ Comienza(w, c)  BY <1>2
<1> HIDE DEF f
<1>6. c \in Capturada /\ c.fila = 0 /\ c.quita = FALSE /\ c.queda = f  BY <1>4 DEF Capturada
<1>7. SinPar(c)  BY <1>5, <1>6 DEF SinPar
<1>8. captura' = [captura EXCEPT ![w] = c] /\ UNCHANGED <<domicilio, encimadas, mudadas>>
  BY <1>5 DEF Comienza
<1>9. c.fila \in 0 .. Len(domicilio)  BY <1>3, <1>6 DEF FormaDom
<1> HIDE DEF c
<1> QED BY <1>6, <1>7, <1>8, <1>9, DomCaptura

LEMMA DomActualizar ==
    ASSUME DomInv, NEW w \in Capturistas, ActualizarDom(w) PROVE DomInv'
<1>0. FormaDom  BY DEF DomInv
<1>1. PICK i \in DOMAIN domicilio, activo \in BOOLEAN :
      \E p \in Padres(domicilio[i].tabla), n \in Nombres(domicilio[i].tabla) :
       LET f == domicilio[i]
           cambia == IF f.tabla = "callesColonias" THEN f ELSE [f EXCEPT !.nombre = n]
           c == [paso |-> "busca", fila |-> i, quita |-> FALSE,
                 queda |-> [cambia EXCEPT !.activo = activo], clave |-> <<f.tabla, p, n>>]
       IN \/ Comienza(w, c)
          \/ /\ f.tabla = "codigos" /\ c.clave = ClaveDom(f)
             /\ Comienza(w, [c EXCEPT !.paso = "guarda"])
  BY DEF ActualizarDom
<1>2. PICK f : f = domicilio[i]  OBVIOUS
<1>3. f \in FilaDom /\ i \in 1 .. Len(domicilio)  BY <1>0, <1>2 DEF FormaDom
<1>4. PICK p \in Padres(f.tabla), n \in Nombres(f.tabla) :
       LET cambia == IF f.tabla = "callesColonias" THEN f ELSE [f EXCEPT !.nombre = n]
           c == [paso |-> "busca", fila |-> i, quita |-> FALSE,
                 queda |-> [cambia EXCEPT !.activo = activo], clave |-> <<f.tabla, p, n>>]
       IN \/ Comienza(w, c)
          \/ /\ f.tabla = "codigos" /\ c.clave = ClaveDom(f)
             /\ Comienza(w, [c EXCEPT !.paso = "guarda"])
  BY <1>1, <1>2
<1>5. f.tabla \in TablasDom /\ p \in Nat /\ n \in Nat  BY <1>0, <1>3, PadresNat DEF FilaDom
<1>6. PICK g : g = [(IF f.tabla = "callesColonias" THEN f ELSE [f EXCEPT !.nombre = n])
                      EXCEPT !.activo = activo]
  OBVIOUS
<1>7. g \in FilaDom /\ g.tabla = f.tabla /\ g.padre = f.padre
      /\ g.nombre \in {f.nombre, n} /\ (g.nombre = n \/ f.tabla = "callesColonias")
  BY <1>3, <1>5, <1>6 DEF FilaDom
<1>8. PICK k : k = <<f.tabla, p, n>>  OBVIOUS
<1>9. k \in TablasDom \X Nat \X Nat  BY <1>5, <1>8
<1> DEFINE c == [paso |-> "busca", fila |-> i, quita |-> FALSE, queda |-> g, clave |-> k]
           d == [paso |-> "guarda", fila |-> i, quita |-> FALSE, queda |-> g, clave |-> k]
<1>10. c \in Capturada /\ d \in Capturada  BY <1>3, <1>7, <1>9 DEF Capturada
<1>11. \/ Comienza(w, c)
       \/ f.tabla = "codigos" /\ k = ClaveDom(f) /\ Comienza(w, d)
  <2>1. \/ Comienza(w, c)
        \/ f.tabla = "codigos" /\ k = ClaveDom(f) /\ Comienza(w, [c EXCEPT !.paso = "guarda"])
    BY ONLY <1>4, <1>6, <1>8, Zenon
  <2>2. [c EXCEPT !.paso = "guarda"] = d
    <3>1. \A x \in Capturada : [x EXCEPT !.paso = "guarda"] =
             [paso |-> "guarda", fila |-> x.fila, quita |-> x.quita, queda |-> x.queda,
              clave |-> x.clave]
      BY DEF Capturada
    <3>2. c.fila = i /\ c.quita = FALSE /\ c.queda = g /\ c.clave = k  OBVIOUS
    <3>3. c \in Capturada  BY <1>10
    <3> HIDE DEF c
    <3> QED BY <3>1, <3>2, <3>3
  <2> QED BY ONLY <2>1, <2>2, Zenon
<1>12. CASE Comienza(w, c)
  <2>1. captura' = [captura EXCEPT ![w] = c] /\ UNCHANGED <<domicilio, encimadas, mudadas>>
    BY <1>12 DEF Comienza
  <2>2. /\ c.fila \in 0 .. Len(domicilio) /\ domicilio[c.fila].tabla = c.queda.tabla
        /\ SinPar(c)
    BY <1>2, <1>3, <1>7 DEF SinPar
  <2> HIDE DEF c
  <2> QED BY <1>10, <2>1, <2>2, DomCaptura
<1>13. CASE f.tabla = "codigos" /\ k = ClaveDom(f) /\ Comienza(w, d)
  <2>1. captura' = [captura EXCEPT ![w] = d] /\ UNCHANGED <<domicilio, encimadas, mudadas>>
    BY <1>13 DEF Comienza
  <2>2. d.fila \in 0 .. Len(domicilio) /\ domicilio[d.fila].tabla = d.queda.tabla
    BY <1>2, <1>3, <1>7
  <2>3. n = f.nombre /\ p = f.padre  BY <1>8, <1>13 DEF ClaveDom
  <2>4. ClaveDom(g) = ClaveDom(f)  BY <1>7, <2>3 DEF ClaveDom
  <2>5. f.tabla \notin encimadas \cup mudadas => ~Existe(ClaveDom(f), i)
    BY <1>2 DEF DomInv, ClavesUnicas, Existe
  <2>6. SinPar(d)  BY <1>7, <2>4, <2>5 DEF SinPar
  <2> HIDE DEF d
  <2> QED BY <1>10, <2>1, <2>2, <2>6, DomCaptura
<1> QED BY <1>11, <1>12, <1>13

LEMMA DomEliminar ==
    ASSUME DomInv, NEW w \in Capturistas, EliminarDom(w) PROVE DomInv'
<1>0. FormaDom  BY DEF DomInv
<1>1. PICK i \in DOMAIN domicilio :
       Comienza(w, [paso |-> "guarda", fila |-> i, quita |-> TRUE,
                       queda |-> [domicilio[i] EXCEPT !.activo = FALSE],
                       clave |-> ClaveDom(domicilio[i])])
  BY DEF EliminarDom
<1>2. PICK f, g : f = domicilio[i] /\ g = [f EXCEPT !.activo = FALSE]  OBVIOUS
<1>3. f \in FilaDom /\ i \in 1 .. Len(domicilio)  BY <1>0, <1>2 DEF FormaDom
<1>4. g \in FilaDom /\ ClaveDom(g) = ClaveDom(f) /\ g.tabla = f.tabla
  BY <1>2, <1>3 DEF FilaDom, ClaveDom
<1>5. ClaveDom(f) \in TablasDom \X Nat \X Nat  BY <1>3 DEF FilaDom, ClaveDom
<1> DEFINE c == [paso |-> "guarda", fila |-> i, quita |-> TRUE, queda |-> g, clave |-> ClaveDom(f)]
<1>6. Comienza(w, c)  BY <1>1, <1>2
<1>7. c \in Capturada  BY <1>3, <1>4, <1>5 DEF Capturada
<1>8. captura' = [captura EXCEPT ![w] = c] /\ UNCHANGED <<domicilio, encimadas, mudadas>>
  BY <1>6 DEF Comienza
<1>12. c.fila = i /\ c.queda = g /\ c.paso = "guarda" /\ c.quita  OBVIOUS
<1> HIDE DEF c
<1>9. c.fila \in 0 .. Len(domicilio) /\ domicilio[c.fila].tabla = c.queda.tabla
  BY <1>2, <1>3, <1>4, <1>12
<1>10. f.tabla \notin encimadas \cup mudadas => ~Existe(ClaveDom(f), i)
  BY <1>2 DEF DomInv, ClavesUnicas, Existe
<1>11. SinPar(c)  BY <1>2, <1>3, <1>4, <1>10, <1>12 DEF SinPar
<1> QED BY <1>7, <1>8, <1>9, <1>11, DomCaptura

LEMMA DomBusca ==
    ASSUME DomInv, NEW w \in Capturistas, BuscaDuplicado(w) PROVE DomInv'
<1>0. FormaDom  BY DEF DomInv
<1>1. PICK c : c = captura[w]  OBVIOUS
<1>2. c.paso = "busca" /\ SigueDom(w, IF Existe(c.clave, c.fila) THEN "idle" ELSE "guarda")
  BY <1>1 DEF BuscaDuplicado
<1>3. c \in Capturada /\ SinPar(c) /\ c.fila \in 0 .. Len(domicilio)
      /\ (c.fila # 0 => domicilio[c.fila].tabla = c.queda.tabla)
  <2>1. c # SinCaptura  BY <1>2 DEF SinCaptura
  <2> QED BY <1>0, <1>1, <2>1 DEF FormaDom, DomInv
<1>4. CASE Existe(c.clave, c.fila)  BY <1>2, <1>4, DomSuelta DEF SigueDom
<1>5. CASE ~Existe(c.clave, c.fila)
  <2> DEFINE d == [c EXCEPT !.paso = "guarda"]
  <2>1. captura' = [captura EXCEPT ![w] = d] /\ UNCHANGED <<domicilio, encimadas, mudadas>>
    BY <1>1, <1>2, <1>5 DEF SigueDom
  <2>2. d \in Capturada /\ d.fila = c.fila /\ d.queda = c.queda /\ d.quita = c.quita /\ d.clave = c.clave
    BY <1>3 DEF Capturada
  <2> HIDE DEF d
  <2>3. SinPar(d)  BY <1>3, <1>5, <2>2 DEF SinPar
  <2> QED BY <1>3, <2>1, <2>2, <2>3, DomCaptura
<1> QED BY <1>4, <1>5

\* The rows after a save: only the one that is saved may be new.
LEMMA DomGuardadas ==
    ASSUME FormaDom, NEW c \in Capturada, c.fila \in 0 .. Len(domicilio),
           c.fila # 0 => domicilio[c.fila].tabla = c.queda.tabla,
           domicilio' = IF c.fila = 0 THEN Append(domicilio, c.queda)
                        ELSE [domicilio EXCEPT ![c.fila] = c.queda]
    PROVE  /\ domicilio' \in Seq(FilaDom) /\ Len(domicilio) <= Len(domicilio')
           /\ \E k \in 1 .. Len(domicilio') :
                /\ domicilio'[k] = c.queda /\ (c.fila # 0 => k = c.fila)
                /\ (c.fila = 0 => k \notin 1 .. Len(domicilio))
                /\ \A i \in 1 .. Len(domicilio') : i # k =>
                      i \in 1 .. Len(domicilio) /\ domicilio'[i] = domicilio[i]
           /\ \A i \in 1 .. Len(domicilio) : domicilio'[i].tabla = domicilio[i].tabla
<1>1. domicilio \in Seq(FilaDom) /\ c.queda \in FilaDom  BY DEF FormaDom, Capturada
<1>2. CASE c.fila = 0
  <2>1. domicilio' = Append(domicilio, c.queda)  BY <1>2
  <2>2. PICK q : q = c.queda  OBVIOUS
  <2>3. /\ domicilio' \in Seq(FilaDom) /\ Len(domicilio') = Len(domicilio) + 1
        /\ domicilio'[Len(domicilio) + 1] = q /\ Len(domicilio) \in Nat
        /\ \A i \in 1 .. Len(domicilio) : domicilio'[i] = domicilio[i]
    BY <1>1, <2>1, <2>2
  <2>4. \A i \in 1 .. Len(domicilio') : i # Len(domicilio) + 1 => i \in 1 .. Len(domicilio)  BY <2>3
  <2>5. Len(domicilio) + 1 \in 1 .. Len(domicilio') /\ Len(domicilio) + 1 \notin 1 .. Len(domicilio)
        /\ Len(domicilio) <= Len(domicilio')
    BY <2>3
  <2> QED BY <1>2, <2>2, <2>3, <2>4, <2>5
<1>3. CASE c.fila # 0
  <2>1. PICK k, q : k = c.fila /\ q = c.queda  OBVIOUS
  <2>2. domicilio' = [domicilio EXCEPT ![k] = q] /\ k \in 1 .. Len(domicilio)  BY <1>3, <2>1
  <2>3. /\ domicilio' \in Seq(FilaDom) /\ Len(domicilio') = Len(domicilio) /\ domicilio'[k] = q
        /\ \A i \in 1 .. Len(domicilio) : i # k => domicilio'[i] = domicilio[i]
    BY <1>1, <2>1, <2>2
  <2>4. domicilio[k].tabla = q.tabla  BY <1>3, <2>1
  <2> QED BY <1>1, <1>3, <2>1, <2>2, <2>3, <2>4
<1> QED BY <1>2, <1>3

LEMMA DomGuarda ==
    ASSUME DomInv, NEW w \in Capturistas, GuardaDom(w) PROVE DomInv'
<1>0. FormaDom  BY DEF DomInv
<1>1. PICK c : c = captura[w]  OBVIOUS
<1>2. /\ c.paso = "guarda"
      /\ domicilio' = IF c.fila = 0 THEN Append(domicilio, c.queda)
                      ELSE [domicilio EXCEPT ![c.fila] = c.queda]
      /\ captura' = [captura EXCEPT ![w] = SinCaptura]
      /\ encimadas' = IF Encima(w) THEN encimadas \cup {c.queda.tabla} ELSE encimadas
      /\ mudadas' = IF c.clave # ClaveDom(c.queda) THEN mudadas \cup {c.queda.tabla} ELSE mudadas
  BY <1>1 DEF GuardaDom
<1>3. c \in Capturada /\ SinPar(c) /\ c.fila \in 0 .. Len(domicilio)
      /\ (c.fila # 0 => domicilio[c.fila].tabla = c.queda.tabla)
  <2>1. c # SinCaptura  BY <1>2 DEF SinCaptura
  <2> QED BY <1>0, <1>1, <2>1 DEF FormaDom, DomInv
<1>4. PICK k \in 1 .. Len(domicilio') :
        /\ domicilio'[k] = c.queda /\ (c.fila # 0 => k = c.fila)
        /\ (c.fila = 0 => k \notin 1 .. Len(domicilio))
        /\ \A i \in 1 .. Len(domicilio') : i # k =>
              i \in 1 .. Len(domicilio) /\ domicilio'[i] = domicilio[i]
  BY <1>0, <1>2, <1>3, DomGuardadas
<1>5. /\ domicilio' \in Seq(FilaDom) /\ Len(domicilio) <= Len(domicilio')
      /\ \A i \in 1 .. Len(domicilio) : domicilio'[i].tabla = domicilio[i].tabla
  BY <1>0, <1>2, <1>3, DomGuardadas
<1>6. /\ captura' \in [Capturistas -> {SinCaptura} \cup Capturada] /\ captura'[w] = SinCaptura
      /\ \A v \in Capturistas : v # w => captura'[v] = captura[v]
  BY <1>0, <1>2 DEF FormaDom
<1>7. FormaDom'
  <2>1. ASSUME NEW v \in Capturistas, captura'[v] # SinCaptura
        PROVE  /\ captura'[v].fila \in 0 .. Len(domicilio')
               /\ captura'[v].fila # 0 => domicilio'[captura'[v].fila].tabla = captura'[v].queda.tabla
    <3>1. captura'[v] = captura[v] /\ captura[v] # SinCaptura  BY <1>6, <2>1
    <3>2. PICK j, t : j = captura[v].fila /\ t = captura[v].queda.tabla  OBVIOUS
    <3>3. j \in 0 .. Len(domicilio) /\ (j # 0 => domicilio[j].tabla = t)
      BY <1>0, <3>1, <3>2 DEF FormaDom
    <3>4. Len(domicilio) \in Nat /\ Len(domicilio') \in Nat  BY <1>0, <1>5 DEF FormaDom
    <3>5. j \in 0 .. Len(domicilio') /\ (j # 0 => domicilio'[j].tabla = t)  BY <1>5, <3>3, <3>4
    <3> QED BY <3>1, <3>2, <3>5
  <2> QED BY <1>5, <1>6, <2>1 DEF FormaDom
<1>8. PICK t : t = c.queda.tabla  OBVIOUS
<1>9. t \notin encimadas' \cup mudadas' =>
         /\ t \notin encimadas \cup mudadas /\ ~Encima(w) /\ c.clave = ClaveDom(c.queda)
         /\ ~Existe(ClaveDom(c.queda), c.fila)
  BY <1>2, <1>3, <1>8 DEF SinPar
<1>10. encimadas \subseteq encimadas' /\ mudadas \subseteq mudadas'  BY <1>2
<1>11. DOMAIN domicilio = 1 .. Len(domicilio) /\ DOMAIN domicilio' = 1 .. Len(domicilio')
  BY <1>0, <1>5 DEF FormaDom
<1>12. t \notin encimadas' \cup mudadas' =>
          \A i \in 1 .. Len(domicilio') : i # k => ClaveDom(domicilio'[i]) # ClaveDom(c.queda)
  <2> SUFFICES ASSUME t \notin encimadas' \cup mudadas', NEW i \in 1 .. Len(domicilio'), i # k
               PROVE  ClaveDom(domicilio'[i]) # ClaveDom(c.queda)
    OBVIOUS
  <2>1. i \in 1 .. Len(domicilio) /\ domicilio'[i] = domicilio[i]  BY <1>4
  <2>2. i # c.fila  BY <1>4, <2>1
  <2> QED BY <1>9, <1>11, <2>1, <2>2 DEF Existe
<1>13. \A f, g : ClaveDom(f) = ClaveDom(g) => f.tabla = g.tabla  BY DEF ClaveDom
<1>14. ClavesUnicas'
  <2> SUFFICES ASSUME NEW i \in 1 .. Len(domicilio'), NEW j \in 1 .. Len(domicilio'), i # j,
                      ClaveDom(domicilio'[i]) = ClaveDom(domicilio'[j])
               PROVE  domicilio'[i].tabla \in encimadas' \cup mudadas'
    BY <1>11 DEF ClavesUnicas, ClaveDom
  <2>1. domicilio'[i].tabla = domicilio'[j].tabla  BY <1>13
  <2>2. CASE i = k \/ j = k  BY <1>4, <1>8, <1>12, <2>1, <2>2
  <2>3. CASE i # k /\ j # k  BY <1>4, <1>11, <2>3, <1>10 DEF DomInv, ClavesUnicas
  <2> QED BY <2>2, <2>3
<1>15. ASSUME NEW v \in Capturistas, captura'[v] # SinCaptura PROVE SinPar(captura[v])'
  <2>1. captura'[v] = captura[v] /\ captura[v] # SinCaptura /\ v # w  BY <1>6, <1>15
  <2>2. PICK d : d = captura[v]  OBVIOUS
  <2>3. d \in Capturada /\ SinPar(d) /\ d.fila \in 0 .. Len(domicilio)
        /\ (d.fila # 0 => domicilio[d.fila].tabla = d.queda.tabla)
    BY <1>0, <2>1, <2>2 DEF FormaDom, DomInv
  <2> SUFFICES ASSUME d.queda.tabla \notin encimadas' \cup mudadas'
               PROVE  /\ d.quita => d.fila # 0 /\ ClaveDom(domicilio'[d.fila]) = ClaveDom(d.queda)
                      /\ d.paso = "guarda" /\ d.clave = ClaveDom(d.queda) =>
                           \A i \in DOMAIN domicilio' \ {d.fila} :
                              ClaveDom(domicilio'[i]) # ClaveDom(d.queda)
    BY <2>1, <2>2 DEF SinPar, Existe, ClaveDom
  <2>4. /\ d.quita => d.fila # 0 /\ ClaveDom(domicilio[d.fila]) = ClaveDom(d.queda)
        /\ d.paso = "guarda" /\ d.clave = ClaveDom(d.queda) =>
              \A i \in DOMAIN domicilio \ {d.fila} : ClaveDom(domicilio[i]) # ClaveDom(d.queda)
    BY <1>10, <2>3 DEF SinPar, Existe
  <2>5. d.queda.tabla = t =>
          /\ d.fila # 0 => d.fila # c.fila
          /\ d.paso = "guarda" /\ ~d.quita => ClaveDom(d.queda) # ClaveDom(c.queda)
    BY <1>1, <1>9, <2>1, <2>2 DEF Encima
  <2>6. d.fila # 0 => domicilio'[d.fila] = domicilio[d.fila]
    <3> SUFFICES ASSUME d.fila # 0 PROVE domicilio'[d.fila] = domicilio[d.fila]  OBVIOUS
    <3>1. PICK j : j = d.fila  OBVIOUS
    <3>2. j \in 1 .. Len(domicilio) /\ j \in 1 .. Len(domicilio')
      BY <1>0, <1>5, <2>3, <3>1 DEF FormaDom
    <3>3. j # k
      <4>1. CASE d.queda.tabla = t  BY <1>4, <2>5, <3>1, <3>2, <4>1
      <4>2. CASE d.queda.tabla # t  BY <1>3, <1>4, <1>8, <2>3, <3>1, <3>2, <4>2
      <4> QED BY <4>1, <4>2
    <3> QED BY <1>4, <3>1, <3>2, <3>3
  <2>7. d.quita => d.fila # 0 /\ ClaveDom(domicilio'[d.fila]) = ClaveDom(d.queda)  BY <2>4, <2>6
  <2>8. ASSUME d.paso = "guarda", d.clave = ClaveDom(d.queda), NEW i \in DOMAIN domicilio' \ {d.fila}
        PROVE  ClaveDom(domicilio'[i]) # ClaveDom(d.queda)
    <3>1. CASE i # k  BY <1>4, <1>11, <2>8, <3>1, <2>4
    <3>2. CASE i = k /\ d.queda.tabla # t  BY <1>4, <3>2, <1>8, <1>13
    <3>3. CASE i = k /\ d.queda.tabla = t /\ ~d.quita  BY <1>4, <2>5, <2>8, <3>3
    <3>4. CASE i = k /\ d.queda.tabla = t /\ d.quita
      <4>1. d.fila # 0 /\ ClaveDom(domicilio[d.fila]) = ClaveDom(d.queda) /\ d.fila # c.fila
        BY <2>4, <2>5, <3>4
      <4>2. ~Existe(ClaveDom(c.queda), c.fila)  BY <1>9, <3>4
      <4>3. d.fila \in DOMAIN domicilio  BY <1>11, <2>3, <4>1
      <4>4. ClaveDom(domicilio[d.fila]) # ClaveDom(c.queda)  BY <4>1, <4>2, <4>3 DEF Existe
      <4> QED BY <1>4, <3>4, <4>1, <4>4
    <3> QED BY <3>1, <3>2, <3>3, <3>4
  <2> QED BY <2>7, <2>8
<1> QED BY <1>7, <1>14, <1>15 DEF DomInv

LEMMA DomInvNext ==
    ASSUME DomInv, [DomiciliosNext]_domiciliosVars PROVE DomInv'
<1>1. CASE UNCHANGED domiciliosVars
  BY <1>1 DEF domiciliosVars, DomInv, FormaDom, ClavesUnicas, SinPar, Existe, ClaveDom
<1>2. ASSUME NEW w \in Capturistas,
             CrearDom(w) \/ ActualizarDom(w) \/ BuscaDuplicado(w) \/ EliminarDom(w) \/ GuardaDom(w)
      PROVE  DomInv'
  BY <1>2, DomCrear, DomActualizar, DomBusca, DomEliminar, DomGuarda
<1> QED BY <1>1, <1>2 DEF DomiciliosNext

LEMMA DomInvSiempre == DomiciliosInit /\ [][DomiciliosNext]_domiciliosVars => []DomInv
<1>1. DomInv /\ [DomiciliosNext]_domiciliosVars => DomInv'  BY DomInvNext
<1> QED BY <1>1, DomInvInit, PTL

HIDE DomiciliosAssumption DEF DomiciliosAssumption

--------------------
(* Taxonomia: the tree, and the subcategorias a call holds as it read them. *)

USE TaxonomiaAssumption DEF TaxonomiaAssumption

Curada == [paso : {"guarda", "borra"}, x : Ramas, queda : FilaRama, hijas : SUBSET Subcategorias]
FormaTax ==
    /\ DOMAIN rama \subseteq Ramas /\ rama \in [DOMAIN rama -> FilaRama]
    /\ DOMAIN dicha = DOMAIN rama
    /\ \A x \in DOMAIN rama : DeSuClase(x, rama[x].padre)
    /\ curador \in [Curadores -> {SinCurador} \cup Curada]

\* A call at work saves a row of its kind that is there; of the subcategorias it read,
\* those no other call touched are where they were.
BienTomada(c) ==
    /\ DeSuClase(c.x, c.queda.padre)
    /\ c.paso = "guarda" => c.queda.estado # "borrada"
    /\ c.x \notin Categorias => c.hijas = {}
    /\ \A y \in c.hijas \ ramasEncimadas : y \in Vivas /\ rama[y].padre = c.x
TaxInv == FormaTax /\ ArbolComoSeDijo /\ \A w \in Curadores : curador[w] # SinCurador => BienTomada(curador[w])

LEMMA SinCuradorNo == SinCurador \notin Curada /\ \A c \in Curada : c # SinCurador
  BY DEF SinCurador, Curada

LEMMA TaxInit == TaxonomiaInit => TaxInv
<1> SUFFICES ASSUME TaxonomiaInit PROVE TaxInv  OBVIOUS
<1>1. rama \in RamasIniciales /\ dicha = rama /\ curador = [w \in Curadores |-> SinCurador]
  BY DEF TaxonomiaInit
<1>2. FormaTax  BY <1>1 DEF FormaTax
<1>3. ArbolComoSeDijo  BY <1>1 DEF ArbolComoSeDijo, Vivas
<1> QED BY <1>1, <1>2, <1>3 DEF TaxInv

\* What hangs from a categoria is a subcategoria; from one of these, an especialidad.
LEMMA CuelgaDeSuClase ==
    ASSUME FormaTax, NEW x \in Ramas, NEW y \in CuelgaDe(x)
    PROVE  y \in Ramas /\ (x \in Categorias <=> y \in Subcategorias)
           /\ (x \in Subcategorias <=> y \in Especialidades) /\ y \notin Categorias
<1>1. y \in DOMAIN rama /\ rama[y].padre = x /\ y \in Ramas  BY DEF CuelgaDe, Vivas, FormaTax
<1>2. DeSuClase(y, x)  BY <1>1 DEF FormaTax
<1> QED BY <1>1, <1>2 DEF DeSuClase, Ramas

\* A call begins.
LEMMA TaxComienza ==
    ASSUME TaxInv, NEW w \in Curadores, NEW paso \in {"guarda", "borra"}, NEW x \in Ramas,
           NEW queda \in FilaRama, ComienzaRama(w, paso, x, queda),
           DeSuClase(x, queda.padre), paso = "guarda" => queda.estado # "borrada"
    PROVE  TaxInv'
<1> DEFINE c == [paso |-> paso, x |-> x, queda |-> queda,
                 hijas |-> IF x \in Categorias THEN CuelgaDe(x) ELSE {}]
<1>1. FormaTax /\ UNCHANGED <<rama, dicha, ramasEncimadas>> /\ curador' = [curador EXCEPT ![w] = c]
  BY DEF TaxInv, ComienzaRama
<1>2. PICK h : h = IF x \in Categorias THEN CuelgaDe(x) ELSE {}  OBVIOUS
<1>3. PICK d : d = [paso |-> paso, x |-> x, queda |-> queda, hijas |-> h]  OBVIOUS
<1>4. h \in SUBSET Subcategorias /\ \A y \in h : y \in Vivas /\ rama[y].padre = x
  BY <1>1, <1>2, CuelgaDeSuClase DEF CuelgaDe
<1>5. d \in Curada /\ BienTomada(d)  BY <1>2, <1>3, <1>4 DEF Curada, BienTomada
<1>6. curador' = [curador EXCEPT ![w] = d]  BY <1>1, <1>2, <1>3
<1>7. /\ curador' \in [Curadores -> {SinCurador} \cup Curada] /\ curador'[w] = d
      /\ \A v \in Curadores : v # w => curador'[v] = curador[v]
  <2>1. curador \in [Curadores -> {SinCurador} \cup Curada] /\ d \in {SinCurador} \cup Curada
    BY <1>1, <1>5 DEF FormaTax
  <2> QED BY ONLY <1>6, <2>1, w \in Curadores
<1>8. FormaTax'  BY <1>1, <1>7 DEF FormaTax
<1>9. ArbolComoSeDijo'  BY <1>1 DEF TaxInv, ArbolComoSeDijo, Vivas
<1>10. ASSUME NEW v \in Curadores, curador'[v] # SinCurador PROVE BienTomada(curador[v])'
  <2>1. PICK e : e = curador'[v]  OBVIOUS
  <2>2. BienTomada(e)  BY <1>5, <1>7, <1>10, <2>1 DEF TaxInv
  <2> QED BY <1>1, <2>1, <2>2 DEF BienTomada, Vivas
<1> QED BY <1>8, <1>9, <1>10 DEF TaxInv

\* A call ends and leaves the rows as they should be: those it changed while another call
\* held them are marked.
LEMMA TaxTermina ==
    ASSUME TaxInv, NEW w \in Curadores, NEW filas, NEW dichas2, TerminaRama(w, filas, dichas2),
           DOMAIN rama \subseteq DOMAIN filas, DOMAIN filas \subseteq Ramas,
           filas \in [DOMAIN filas -> FilaRama], DOMAIN dichas2 = DOMAIN filas,
           \A x \in DOMAIN filas : DeSuClase(x, filas[x].padre),
           \A x \in DOMAIN filas \ ramasEncimadas : filas[x] = dichas2[x],
           \A x \in DOMAIN filas : x \notin Categorias /\ filas[x].estado # "borrada" =>
              filas[x].padre \in DOMAIN filas /\ filas[filas[x].padre].estado # "borrada"
    PROVE  TaxInv'
<1>1. /\ rama' = filas /\ dicha' = dichas2 /\ curador' = [curador EXCEPT ![w] = SinCurador]
      /\ ramasEncimadas' = ramasEncimadas \cup
            {y \in DOMAIN rama : filas[y] # rama[y] /\ \E v \in Curadores \ {w} : LaTiene(v, y)}
      /\ FormaTax
  BY DEF TerminaRama, TaxInv
<1>2. /\ curador' \in [Curadores -> {SinCurador} \cup Curada] /\ curador'[w] = SinCurador
      /\ \A v \in Curadores : v # w => curador'[v] = curador[v]
  BY <1>1 DEF FormaTax
<1>3. FormaTax'  BY <1>1, <1>2 DEF FormaTax
<1>4. ArbolComoSeDijo'  BY <1>1 DEF ArbolComoSeDijo, Vivas
<1>5. ASSUME NEW v \in Curadores, curador'[v] # SinCurador PROVE BienTomada(curador[v])'
  <2>1. PICK e : e = curador[v]  OBVIOUS
  <2>2. v # w /\ curador'[v] = e /\ e # SinCurador  BY <1>2, <1>5, <2>1
  <2>3. BienTomada(e)  BY <2>1, <2>2 DEF TaxInv
  <2>4. ASSUME NEW y \in e.hijas \ ramasEncimadas' PROVE y \in Vivas' /\ rama'[y].padre = e.x
    BY <1>1, <2>3, <2>4, <2>1, <2>2 DEF BienTomada, Vivas, LaTiene
  <2> QED BY <2>2, <2>3, <2>4 DEF BienTomada
<1> QED BY <1>3, <1>4, <1>5 DEF TaxInv

LEMMA TaxEmpieza ==
    ASSUME TaxInv, NEW w \in Curadores,
           CrearRama(w) \/ ActualizarRama(w) \/ ApagarRama(w) \/ BorrarRama(w)
    PROVE  TaxInv'
<1>1. /\ FormaTax /\ RaizTaxonomia \notin Ramas
      /\ \A x \in Vivas : x \in Ramas /\ rama[x] \in FilaRama /\ rama[x].estado # "borrada"
                          /\ DeSuClase(x, rama[x].padre)
  BY DEF TaxInv, FormaTax, Vivas
<1>2. \A x \in Ramas : x \notin Categorias => \A p \in Arriba(x) :
         DeSuClase(x, p) /\ p \in Categorias \cup Subcategorias
  BY DEF Arriba, DeSuClase, Ramas
<1>3. \A e \in {"activa", "inactiva"}, p \in Categorias \cup Subcategorias \cup {RaizTaxonomia} :
         /\ [estado |-> e, padre |-> p] \in FilaRama
         /\ [estado |-> e, padre |-> p].padre = p /\ [estado |-> e, padre |-> p].estado # "borrada"
  BY DEF FilaRama
<1>4. \A f \in FilaRama, e \in {"inactiva", "borrada"} :
         /\ [f EXCEPT !.estado = e] \in FilaRama
         /\ [f EXCEPT !.estado = e].padre = f.padre /\ [f EXCEPT !.estado = e].estado = e
  BY DEF FilaRama
<1>5. CASE CrearRama(w)
  <2>1. PICK x \in Ramas, e \in {"activa", "inactiva"} :
           \/ /\ x \in Categorias
              /\ ComienzaRama(w, "guarda", x, [estado |-> e, padre |-> RaizTaxonomia])
           \/ /\ x \notin Categorias
              /\ \E p \in Arriba(x) : ComienzaRama(w, "guarda", x, [estado |-> e, padre |-> p])
    BY <1>5 DEF CrearRama
  <2>2. CASE x \in Categorias /\ ComienzaRama(w, "guarda", x, [estado |-> e, padre |-> RaizTaxonomia])
    <3>1. PICK q : q = [estado |-> e, padre |-> RaizTaxonomia]  OBVIOUS
    <3>2. q \in FilaRama /\ q.padre = RaizTaxonomia /\ q.estado # "borrada"  BY <1>3, <3>1
    <3>3. DeSuClase(x, q.padre)  BY <2>2, <3>2 DEF DeSuClase
    <3>4. ComienzaRama(w, "guarda", x, q)  BY <2>2, <3>1
    <3> QED BY <3>2, <3>3, <3>4, TaxComienza
  <2>3. CASE x \notin Categorias /\ \E p \in Arriba(x) :
                ComienzaRama(w, "guarda", x, [estado |-> e, padre |-> p])
    <3>0. PICK p \in Arriba(x) : ComienzaRama(w, "guarda", x, [estado |-> e, padre |-> p])  BY <2>3
    <3>1. PICK q : q = [estado |-> e, padre |-> p]  OBVIOUS
    <3>2. q \in FilaRama /\ q.padre = p /\ q.estado # "borrada" /\ DeSuClase(x, p)
      BY <1>2, <1>3, <2>3, <3>1
    <3>4. ComienzaRama(w, "guarda", x, q)  BY <3>0, <3>1
    <3> QED BY <3>2, <3>4, TaxComienza
  <2> QED BY <2>1, <2>2, <2>3
<1>6. CASE ActualizarRama(w)
  <2>1. PICK x \in Vivas, e \in {"activa", "inactiva"} :
          \E p \in {rama[x].padre} \cup (IF x \in Categorias THEN {} ELSE Arriba(x)) :
             ComienzaRama(w, "guarda", x, [estado |-> e, padre |-> p])
    BY <1>6 DEF ActualizarRama
  <2>2. PICK p \in {rama[x].padre} \cup (IF x \in Categorias THEN {} ELSE Arriba(x)) :
             ComienzaRama(w, "guarda", x, [estado |-> e, padre |-> p])
    BY <2>1
  <2>3. x \in Ramas /\ DeSuClase(x, p) /\ p \in Categorias \cup Subcategorias \cup {RaizTaxonomia}
    BY <1>1, <1>2, <2>2 DEF FilaRama
  <2>4. PICK q : q = [estado |-> e, padre |-> p]  OBVIOUS
  <2>5. q \in FilaRama /\ q.padre = p /\ q.estado # "borrada"  BY <1>3, <2>3, <2>4
  <2>6. ComienzaRama(w, "guarda", x, q)  BY <2>2, <2>4
  <2> QED BY <2>3, <2>5, <2>6, TaxComienza
<1>7. CASE ApagarRama(w) \/ BorrarRama(w)
  <2>1. PICK x \in Vivas, e \in {"inactiva", "borrada"}, paso \in {"guarda", "borra"} :
           /\ ComienzaRama(w, paso, x, [rama[x] EXCEPT !.estado = e])
           /\ paso = "guarda" => e # "borrada"
    BY <1>7 DEF ApagarRama, BorrarRama
  <2>2. PICK q : q = [rama[x] EXCEPT !.estado = e]  OBVIOUS
  <2>3. x \in Ramas /\ q \in FilaRama /\ DeSuClase(x, q.padre) /\ q.estado = e
    <3>1. PICK f : f = rama[x]  OBVIOUS
    <3>2. x \in Ramas /\ f \in FilaRama /\ DeSuClase(x, f.padre) /\ q = [f EXCEPT !.estado = e]
      BY <1>1, <2>2, <3>1
    <3>3. q \in FilaRama /\ q.padre = f.padre /\ q.estado = e  BY <1>4, <2>1, <3>2
    <3> QED BY <3>2, <3>3
  <2>4. ComienzaRama(w, paso, x, q)  BY <2>1, <2>2
  <2> QED BY <2>1, <2>3, <2>4, TaxComienza
<1> QED BY <1>5, <1>6, <1>7

LEMMA TaxGuarda ==
    ASSUME TaxInv, NEW w \in Curadores, GuardaRama(w) PROVE TaxInv'
<1>1. PICK c : c = curador[w]  OBVIOUS
<1> DEFINE colgaban == IF c.x \in Categorias THEN CuelgaDe(c.x) ELSE {}
           vuelven == c.hijas \cap Vivas
           sueltas == colgaban \ c.hijas
           puede == /\ c.queda.padre \in {RaizTaxonomia} \cup Vivas
                    /\ sueltas # {} => CategoriaNula
           Con(f, y) == IF y = c.x THEN c.queda
                        ELSE IF y \in vuelven THEN [f[y] EXCEPT !.padre = c.x]
                        ELSE IF y \in sueltas THEN [f[y] EXCEPT !.padre = RaizTaxonomia]
                        ELSE f[y]
<1>2. /\ c.paso = "guarda"
      /\ \/ /\ puede
            /\ TerminaRama(w, [y \in DOMAIN rama \cup {c.x} |-> Con(rama, y)],
                   [y \in DOMAIN dicha \cup {c.x} |-> IF y = c.x THEN c.queda ELSE dicha[y]])
         \/ ~puede /\ TerminaRama(w, rama, dicha)
  BY <1>1 DEF GuardaRama
<1>3. FormaTax /\ c \in Curada /\ BienTomada(c)
  <2>1. c # SinCurador  BY <1>2 DEF SinCurador
  <2> QED BY <1>1, <2>1 DEF TaxInv, FormaTax
<1>4. /\ DOMAIN rama \subseteq Ramas /\ rama \in [DOMAIN rama -> FilaRama] /\ DOMAIN dicha = DOMAIN rama
      /\ \A y \in DOMAIN rama : DeSuClase(y, rama[y].padre)
      /\ \A y \in DOMAIN rama \ ramasEncimadas : rama[y] = dicha[y]
      /\ \A y \in DOMAIN rama : y \notin Categorias /\ rama[y].estado # "borrada" =>
            rama[y].padre \in DOMAIN rama /\ rama[rama[y].padre].estado # "borrada"
  BY <1>3 DEF TaxInv, FormaTax, ArbolComoSeDijo, Vivas
<1>5. CASE TerminaRama(w, rama, dicha)  BY <1>4, <1>5, TaxTermina
<1>6. CASE puede /\ TerminaRama(w, [y \in DOMAIN rama \cup {c.x} |-> Con(rama, y)],
                   [y \in DOMAIN dicha \cup {c.x} |-> IF y = c.x THEN c.queda ELSE dicha[y]])
  <2>1. PICK x, q, h, S : /\ x = c.x /\ q = c.queda /\ h = vuelven
                          /\ S = DOMAIN rama \cup {x}
    OBVIOUS
  <2>2. /\ x \in Ramas /\ q \in FilaRama /\ h \subseteq Subcategorias /\ h \subseteq Vivas
        /\ DeSuClase(x, q.padre) /\ q.estado # "borrada" /\ (x \notin Categorias => h = {})
        /\ \A y \in h \ ramasEncimadas : rama[y].padre = x
    BY <1>2, <1>3, <2>1 DEF Curada, BienTomada
  <2>3. sueltas = {} /\ q.padre \in {RaizTaxonomia} \cup Vivas  BY <1>6, <2>1 DEF CategoriaNula
  <2>4. PICK F, D :
           /\ F = [y \in S |-> IF y = x THEN q
                               ELSE IF y \in h THEN [rama[y] EXCEPT !.padre = x] ELSE rama[y]]
           /\ D = [y \in S |-> IF y = x THEN q ELSE dicha[y]]
    OBVIOUS
  <2>5. TerminaRama(w, F, D)  BY <2>1, <2>3, <2>4, <1>4, <1>6
  <2>6. \A f \in FilaRama, p \in Categorias :
           /\ [f EXCEPT !.padre = p] \in FilaRama /\ [f EXCEPT !.padre = p].padre = p
           /\ [f EXCEPT !.padre = p].estado = f.estado
           /\ f.padre = p => [f EXCEPT !.padre = p] = f
    BY DEF FilaRama
  <2>7. DOMAIN rama \subseteq S /\ S \subseteq Ramas /\ DOMAIN F = S /\ DOMAIN D = S
    BY <1>4, <2>1, <2>2, <2>4
  <2>8. /\ F[x] = q /\ x \in S
        /\ \A y \in S : y # x => y \in DOMAIN rama /\ rama[y] \in FilaRama
        /\ \A y \in S : y # x /\ y \in h => F[y] = [rama[y] EXCEPT !.padre = x]
        /\ \A y \in S : y # x /\ y \notin h => F[y] = rama[y]
    BY <1>4, <2>1, <2>4
  <2>9. \A y \in S : y # x /\ y \in h =>
           /\ x \in Categorias /\ F[y] \in FilaRama /\ F[y].padre = x /\ F[y].estado = rama[y].estado
           /\ y \notin ramasEncimadas => F[y] = rama[y]
    <3> SUFFICES ASSUME NEW y \in S, y # x, y \in h
                 PROVE  /\ x \in Categorias /\ F[y] \in FilaRama /\ F[y].padre = x
                        /\ F[y].estado = rama[y].estado
                        /\ y \notin ramasEncimadas => F[y] = rama[y]
      OBVIOUS
    <3>1. PICK f, g : f = rama[y] /\ g = F[y]  OBVIOUS
    <3>2. x \in Categorias /\ f \in FilaRama /\ g = [f EXCEPT !.padre = x]  BY <2>2, <2>8, <3>1
    <3>3. y \notin ramasEncimadas => f.padre = x  BY <2>2, <3>1
    <3>4. g \in FilaRama /\ g.padre = x /\ g.estado = f.estado /\ (f.padre = x => g = f)
      BY <2>6, <3>2
    <3> QED BY <3>1, <3>2, <3>3, <3>4
  <2>10. F \in [S -> FilaRama]  BY <2>2, <2>8, <2>9, <2>4
  <2>11. \A y \in S : DeSuClase(y, F[y].padre)  BY <2>2, <2>9, <1>4, <2>8 DEF DeSuClase
  <2>12. \A y \in S \ ramasEncimadas : F[y] = D[y]  BY <1>4, <2>4, <2>8, <2>9
  <2>13. \A y \in Vivas : y \in S /\ F[y].estado # "borrada"
    BY <1>4, <2>2, <2>7, <2>8, <2>9 DEF Vivas
  <2>14. ASSUME NEW y \in S, y \notin Categorias, F[y].estado # "borrada"
         PROVE  F[y].padre \in S /\ F[F[y].padre].estado # "borrada"
    <3>1. CASE y = x  BY <2>2, <2>14, <3>1, <2>3, <2>8, <2>13 DEF DeSuClase, Ramas
    <3>2. CASE y # x /\ y \in h  BY <2>2, <2>8, <2>9, <3>2
    <3>3. CASE y # x /\ y \notin h  BY <1>4, <2>8, <2>14, <3>3, <2>13 DEF Vivas
    <3> QED BY <3>1, <3>2, <3>3
  <2> HIDE DEF colgaban, vuelven, sueltas, puede, Con
  <2> QED BY <2>5, <2>7, <2>10, <2>11, <2>12, <2>14, TaxTermina
<1> QED BY <1>2, <1>5, <1>6

LEMMA TaxBorra ==
    ASSUME TaxInv, NEW w \in Curadores, BorraRama(w) PROVE TaxInv'
<1>1. PICK c : c = curador[w]  OBVIOUS
<1>2. PICK x, K : x = c.x /\ K = IF x \in Vivas THEN Caen(x) ELSE {}  OBVIOUS
<1> DEFINE Borradas(f) == [y \in DOMAIN f |-> IF y \in K THEN [f[y] EXCEPT !.estado = "borrada"] ELSE f[y]]
<1>3. c.paso = "borra" /\ TerminaRama(w, Borradas(rama), Borradas(dicha))
  BY <1>1, <1>2 DEF BorraRama
<1>4. FormaTax /\ c \in Curada
  <2>1. c # SinCurador  BY <1>3 DEF SinCurador
  <2> QED BY <1>1, <2>1 DEF TaxInv, FormaTax
<1>5. /\ DOMAIN rama \subseteq Ramas /\ rama \in [DOMAIN rama -> FilaRama] /\ DOMAIN dicha = DOMAIN rama
      /\ \A y \in DOMAIN rama : DeSuClase(y, rama[y].padre)
      /\ \A y \in DOMAIN rama \ ramasEncimadas : rama[y] = dicha[y]
      /\ \A y \in DOMAIN rama : y \notin Categorias /\ rama[y].estado # "borrada" =>
            rama[y].padre \in DOMAIN rama /\ rama[rama[y].padre].estado # "borrada"
  BY <1>4 DEF TaxInv, FormaTax, ArbolComoSeDijo, Vivas
<1>6. PICK F, D : F = Borradas(rama) /\ D = Borradas(dicha)  OBVIOUS
<1>7. /\ DOMAIN F = DOMAIN rama /\ DOMAIN D = DOMAIN rama
      /\ \A y \in DOMAIN rama : y \in K =>
            /\ F[y] = [rama[y] EXCEPT !.estado = "borrada"]
            /\ D[y] = [dicha[y] EXCEPT !.estado = "borrada"]
      /\ \A y \in DOMAIN rama : y \notin K => F[y] = rama[y] /\ D[y] = dicha[y]
  BY <1>5, <1>6
<1>8. \A f \in FilaRama :
         /\ [f EXCEPT !.estado = "borrada"] \in FilaRama
         /\ [f EXCEPT !.estado = "borrada"].padre = f.padre
         /\ [f EXCEPT !.estado = "borrada"].estado = "borrada"
  BY DEF FilaRama
<1>9. \A y \in DOMAIN rama :
         /\ rama[y] \in FilaRama /\ F[y] \in FilaRama /\ F[y].padre = rama[y].padre
         /\ F[y].estado # "borrada" => y \notin K /\ rama[y].estado # "borrada"
  <2> SUFFICES ASSUME NEW y \in DOMAIN rama
               PROVE  /\ rama[y] \in FilaRama /\ F[y] \in FilaRama /\ F[y].padre = rama[y].padre
                      /\ F[y].estado # "borrada" => y \notin K /\ rama[y].estado # "borrada"
    OBVIOUS
  <2>1. PICK f, g : f = rama[y] /\ g = F[y]  OBVIOUS
  <2>2. f \in FilaRama  BY <1>5, <2>1
  <2>3. /\ y \in K => g = [f EXCEPT !.estado = "borrada"]
        /\ y \notin K => g = f
    BY <1>7, <2>1
  <2>4. g \in FilaRama /\ g.padre = f.padre /\ (g.estado # "borrada" => y \notin K /\ f.estado # "borrada")
    <3>1. CASE y \in K
      <4>1. PICK k : k = [f EXCEPT !.estado = "borrada"]  OBVIOUS
      <4>2. k \in FilaRama /\ k.padre = f.padre /\ k.estado = "borrada" /\ g = k
        BY <1>8, <2>2, <2>3, <3>1, <4>1
      <4> QED BY <3>1, <4>2
    <3>2. CASE y \notin K  BY <2>2, <2>3, <3>2
    <3> QED BY <3>1, <3>2
  <2> QED BY <2>1, <2>2, <2>4
<1>10. F \in [DOMAIN F -> FilaRama]  BY <1>6, <1>7, <1>9
<1>11. \A y \in DOMAIN F \ ramasEncimadas : F[y] = D[y]  BY <1>5, <1>7
<1>12. ASSUME NEW y \in DOMAIN F, y \notin Categorias, F[y].estado # "borrada"
       PROVE  F[y].padre \in DOMAIN F /\ F[F[y].padre].estado # "borrada"
  <2>1. PICK p : p = rama[y].padre  OBVIOUS
  <2>2. /\ y \in Vivas /\ y \notin K /\ p \in Vivas /\ y \in CuelgaDe(p) /\ p \in DOMAIN rama
        /\ F[y].padre = p
    BY <1>5, <1>7, <1>9, <1>12, <2>1 DEF Vivas, CuelgaDe
  <2>3. p \notin K
    <3> SUFFICES ASSUME p \in K PROVE FALSE  OBVIOUS
    <3>1. x \in Vivas /\ K = Caen(x) /\ x \in Ramas  BY <1>2, <1>5 DEF Vivas
    <3>2. p # x  BY <2>2, <3>1 DEF Caen
    <3>3. p \notin CuelgaDe(x)  BY <2>2, <3>1 DEF Caen
    <3>4. PICK z \in CuelgaDe(x) : p \in CuelgaDe(z)  BY <3>1, <3>2, <3>3 DEF Caen
    <3>5. z \in Ramas /\ z \notin Categorias /\ p \in Ramas  BY <1>4, <3>1, <3>4, CuelgaDeSuClase
    <3>6. p \in Especialidades  BY <1>4, <3>4, <3>5, CuelgaDeSuClase DEF Ramas
    <3>7. y \notin Subcategorias /\ y \notin Especialidades /\ y \in Ramas
      BY <1>4, <2>2, <3>5, <3>6, CuelgaDeSuClase
    <3> QED BY <1>12, <3>7 DEF Ramas
  <2> QED BY <1>7, <2>2, <2>3 DEF Vivas
<1>13. \A y \in DOMAIN F : DeSuClase(y, F[y].padre)  BY <1>5, <1>7, <1>9
<1>14. TerminaRama(w, F, D)  BY <1>3, <1>6
<1> HIDE DEF Borradas
<1> QED BY <1>5, <1>7, <1>10, <1>11, <1>12, <1>13, <1>14, TaxTermina

LEMMA TaxInvNext ==
    ASSUME TaxInv, [TaxonomiaNext]_taxonomiaVars PROVE TaxInv'
<1>1. CASE UNCHANGED taxonomiaVars
  BY <1>1 DEF taxonomiaVars, TaxInv, FormaTax, ArbolComoSeDijo, Vivas, BienTomada
<1>2. ASSUME NEW w \in Curadores,
             \/ CrearRama(w) \/ ActualizarRama(w) \/ ApagarRama(w)
             \/ BorrarRama(w) \/ GuardaRama(w) \/ BorraRama(w)
      PROVE  TaxInv'
  BY <1>2, TaxEmpieza, TaxGuarda, TaxBorra
<1> QED BY <1>1, <1>2 DEF TaxonomiaNext

LEMMA TaxInvSiempre == TaxonomiaInit /\ [][TaxonomiaNext]_taxonomiaVars => []TaxInv
<1>1. TaxInv /\ [TaxonomiaNext]_taxonomiaVars => TaxInv'  BY TaxInvNext
<1> QED BY <1>1, TaxInit, PTL

HIDE TaxonomiaAssumption DEF TaxonomiaAssumption

--------------------
(* Limitador.  The windows that were opened for a user do not overlap, a   *)
(* message counted is in one of them, and none has more than the limit.    *)
USE LimitadorAssumption DEF LimitadorAssumption

LEMMA MensajesSuma == ASSUME NEW f, NEW S PROVE Mensajes(f, S) = Sumatoria(f, S)
  BY DEF Mensajes, Sumatoria

LEMMA TramoFinito == ASSUME NEW t, NEW s PROVE IsFiniteSet(Tramo(t, s))
                                /\ Tramo(t, s) \subseteq Instantes
<1>1. IsFiniteSet(0 .. MaxAhora)  BY FS_Interval
<1> QED BY <1>1, FS_Subset DEF Tramo, Instantes

LimitadorTipos ==
    /\ ahora \in Instantes
    /\ entradas \in [Usuarios -> RateEntry \cup {NoEntry}]
    /\ aceptados \in [Usuarios -> [Instantes -> 0 .. MaxLlamadas]]

LEMMA TiposLimitador == LimitadorTipos <=> LimitadorTypeOK
  BY DEF LimitadorTipos, LimitadorTypeOK

\* A window that was opened at o is over Window ticks later; a tick may belong to it.
Ventanas(Ap, a, e, t) ==
    /\ Ap \subseteq Instantes
    /\ \A o \in Ap, p \in Ap : o < p => o + Window < p
    /\ \A i \in Instantes : a[i] # 0 => i <= t /\ \E o \in Ap : o <= i /\ i <= o + Window
    /\ \A o \in Ap : /\ o <= t /\ 1 <= a[o]
                    /\ Mensajes(a, Tramo(o, o + Window)) <= MaxPerMinute
    /\ e = NoEntry => \A o \in Ap : o + Window < t
    /\ e # NoEntry => /\ e.resetAt - Window \in Ap
                      /\ \A o \in Ap : o <= e.resetAt - Window
                      /\ Mensajes(a, Tramo(e.resetAt - Window, e.resetAt)) = e.count

VentanasEnRegla == \A u \in Usuarios : \E Ap : Ventanas(Ap, aceptados[u], entradas[u], ahora)

LInv == LimitadorTipos /\ VentanasEnRegla

LEMMA Sencillo ==
    ASSUME NEW a \in [Instantes -> 0 .. MaxLlamadas], NEW t, NEW s
    PROVE  /\ \A i \in Tramo(t, s) : a[i] \in Nat /\ a[i] \in Int
           /\ Mensajes(a, Tramo(t, s)) \in Nat
<1>1. \A i \in Tramo(t, s) : a[i] \in Nat /\ a[i] \in Int  BY TramoFinito
<1>2. Sumatoria(a, Tramo(t, s)) \in Nat  BY <1>1, TramoFinito, SumaNat
<1> QED BY <1>1, <1>2, MensajesSuma

\* At most one window was opened in the Window ticks before t, and one in it.
LEMMA DosVentanas ==
    ASSUME NEW Ap, NEW a \in [Instantes -> 0 .. MaxLlamadas], NEW e, NEW n \in Instantes,
           Ventanas(Ap, a, e, n), NEW t \in Nat
    PROVE  Mensajes(a, Tramo(t, t + Window)) < 2 * MaxPerMinute
<1>1. \A o \in Ap : o \in Nat  BY DEF Ventanas, Instantes
<1>2. PICK A : A = {i \in Tramo(t, t + Window) : \E o \in Ap : o < t /\ o <= i /\ i <= o + Window}
  OBVIOUS
<1>3. PICK B : B = {i \in Tramo(t, t + Window) : \E o \in Ap : t <= o /\ o <= i /\ i <= o + Window}
  OBVIOUS
<1>4. PICK R : R = A \cup B  OBVIOUS
<1>5. /\ IsFiniteSet(A) /\ IsFiniteSet(B) /\ R \subseteq Tramo(t, t + Window)
      /\ A \subseteq Instantes /\ B \subseteq Instantes
  BY <1>2, <1>3, <1>4, TramoFinito, FS_Subset
<1>6. A \cap B = {}
  <2> SUFFICES ASSUME NEW i \in A, i \in B PROVE FALSE  OBVIOUS
  <2>1. PICK o \in Ap : o < t /\ o <= i /\ i <= o + Window  BY <1>2
  <2>2. PICK p \in Ap : t <= p /\ p <= i /\ i <= p + Window  BY <1>3
  <2>3. i \in Nat /\ o \in Nat /\ p \in Nat  BY <1>1, <1>5 DEF Instantes
  <2>4. o < p  BY <2>1, <2>2, <2>3
  <2>5. o + Window < p  BY <2>4 DEF Ventanas
  <2> QED BY <2>1, <2>2, <2>3, <2>5
<1>7. \A i \in R : a[i] \in Nat /\ a[i] \in Int  BY <1>5, Sencillo
<1>8. Sumatoria(a, R) = Sumatoria(a, A) + Sumatoria(a, B)  BY <1>4, <1>5, <1>6, <1>7, SumaDisjunta
<1>9. Sumatoria(a, R) = Sumatoria(a, Tramo(t, t + Window))
  <2>1. \A i \in Tramo(t, t + Window) \ R : a[i] = 0
    <3> SUFFICES ASSUME NEW i \in Tramo(t, t + Window), i \notin R, a[i] # 0 PROVE FALSE  OBVIOUS
    <3>1. i \in Instantes  BY TramoFinito
    <3>2. PICK o \in Ap : o <= i /\ i <= o + Window  BY <3>1 DEF Ventanas
    <3>3. o < t \/ t <= o  BY <1>1
    <3> QED BY <1>2, <1>3, <1>4, <3>2, <3>3
  <2>2. \A i \in Tramo(t, t + Window) : a[i] \in Nat  BY Sencillo
  <2>3. IsFiniteSet(Tramo(t, t + Window))  BY TramoFinito
  <2> QED BY ONLY <1>5, <2>1, <2>2, <2>3, SumaParte
<1>10. Sumatoria(a, A) \in Nat /\ Sumatoria(a, B) \in Nat  BY <1>4, <1>7, <1>5, SumaNat
<1>11. Sumatoria(a, B) <= MaxPerMinute
  <2>1. CASE B = {}  BY <2>1, SumaVacia
  <2>2. CASE B # {}
    <3>1. PICK b \in B, o \in Ap : t <= o /\ o <= b /\ b <= o + Window  BY <1>3, <2>2
    <3>2. B \subseteq Tramo(o, o + Window)
      <4> SUFFICES ASSUME NEW i \in B PROVE i \in Tramo(o, o + Window)  OBVIOUS
      <4>1. PICK p \in Ap : t <= p /\ p <= i /\ i <= p + Window  BY <1>3
      <4>2. i <= t + Window /\ b <= t + Window  BY <1>3 DEF Tramo
      <4>3. o = p
        <5>1. o \in Nat /\ p \in Nat /\ i \in Nat /\ b \in Nat  BY <1>1, <1>5 DEF Instantes
        <5>2. ~(o < p) /\ ~(p < o)  BY <3>1, <4>1, <4>2, <5>1 DEF Ventanas
        <5> QED BY <5>1, <5>2
      <4> QED BY <1>5, <4>1, <4>3 DEF Tramo
    <3>3. \A i \in Tramo(o, o + Window) : a[i] \in Nat  BY Sencillo
    <3>4. IsFiniteSet(Tramo(o, o + Window))  BY TramoFinito
    <3>5. Sumatoria(a, B) <= Sumatoria(a, Tramo(o, o + Window))  BY ONLY <3>2, <3>3, <3>4, SumaParte
    <3>6. Sumatoria(a, Tramo(o, o + Window)) <= MaxPerMinute  BY MensajesSuma DEF Ventanas
    <3>7. Sumatoria(a, Tramo(o, o + Window)) \in Nat  BY <3>3, <3>4, SumaNat
    <3> QED BY <1>10, <3>5, <3>6, <3>7
  <2> QED BY <2>1, <2>2
<1>12. Sumatoria(a, A) < MaxPerMinute
  <2>1. CASE A = {}  BY <2>1, SumaVacia
  <2>2. CASE A # {}
    <3>1. PICK b \in A, o \in Ap : o < t /\ o <= b /\ b <= o + Window  BY <1>2, <2>2
    <3>2. A \subseteq Tramo(o, o + Window)
      <4> SUFFICES ASSUME NEW i \in A PROVE i \in Tramo(o, o + Window)  OBVIOUS
      <4>1. PICK p \in Ap : p < t /\ p <= i /\ i <= p + Window  BY <1>2
      <4>2. t <= i /\ t <= b  BY <1>2 DEF Tramo
      <4>3. o = p
        <5>1. o \in Nat /\ p \in Nat /\ i \in Nat /\ b \in Nat  BY <1>1, <1>5 DEF Instantes
        <5>2. ~(o < p) /\ ~(p < o)  BY <3>1, <4>1, <4>2, <5>1 DEF Ventanas
        <5> QED BY <5>1, <5>2
      <4> QED BY <1>5, <4>1, <4>3 DEF Tramo
    <3>3. \A i \in Tramo(o, o + Window) : a[i] \in Nat /\ a[i] \in Int  BY Sencillo
    <3>4. IsFiniteSet(Tramo(o, o + Window))  BY TramoFinito
    <3>5. PICK C : C = Tramo(o, o + Window) \ {o}  OBVIOUS
    <3>6. o \in Tramo(o, o + Window)  BY <1>1 DEF Ventanas, Tramo
    <3>7. Sumatoria(a, Tramo(o, o + Window)) = a[o] + Sumatoria(a, C)
      BY <3>3, <3>4, <3>5, <3>6, SumaQuita
    <3>8. IsFiniteSet(C) /\ \A i \in C : a[i] \in Nat  BY <3>3, <3>4, <3>5, FS_Subset
    <3>9. A \subseteq C  BY <1>2, <1>1, <3>1, <3>2, <3>5 DEF Tramo
    <3>10. Sumatoria(a, A) <= Sumatoria(a, C)  BY ONLY <3>8, <3>9, SumaParte
    <3>11. Sumatoria(a, Tramo(o, o + Window)) <= MaxPerMinute /\ 1 <= a[o]
      BY MensajesSuma DEF Ventanas
    <3>12. Sumatoria(a, C) \in Nat /\ a[o] \in Nat  BY <3>3, <3>6, <3>8, SumaNat
    <3>13. PICK x, y, z : x = Sumatoria(a, A) /\ y = Sumatoria(a, C) /\ z = a[o]  OBVIOUS
    <3>14. x \in Nat /\ y \in Nat /\ z \in Nat /\ x <= y /\ 1 <= z /\ z + y <= MaxPerMinute
      BY <1>10, <3>7, <3>10, <3>11, <3>12, <3>13
    <3>15. x < MaxPerMinute  BY <3>14
    <3> QED BY <3>13, <3>15
  <2> QED BY <2>1, <2>2
<1>13. PICK x, y : x = Sumatoria(a, A) /\ y = Sumatoria(a, B)  OBVIOUS
<1>14. x \in Nat /\ y \in Nat /\ x < MaxPerMinute /\ y <= MaxPerMinute
  BY <1>10, <1>11, <1>12, <1>13
<1>15. x + y < 2 * MaxPerMinute  BY <1>14
<1> QED BY <1>8, <1>9, <1>13, <1>15, MensajesSuma

LEMMA LimitadorCumple == LInv => LimitadorTypeOK /\ DobleDelLimite
<1> SUFFICES ASSUME LInv PROVE DobleDelLimite  BY TiposLimitador DEF LInv
<1> SUFFICES ASSUME NEW u \in Usuarios, NEW t \in 0 .. ahora - Window
             PROVE  Entre(u, t, t + Window) < 2 * MaxPerMinute
  BY DEF DobleDelLimite
<1>1. t \in Nat /\ ahora \in Instantes /\ aceptados[u] \in [Instantes -> 0 .. MaxLlamadas]
  BY DEF LInv, LimitadorTipos
<1>2. PICK Ap : Ventanas(Ap, aceptados[u], entradas[u], ahora)  BY DEF LInv, VentanasEnRegla
<1> QED BY <1>1, <1>2, DosVentanas DEF Entre

Limpio(e, t) == IF t > e.resetAt THEN NoEntry ELSE e

LEMMA VentanasVacias ==
    ASSUME NEW a, \A i \in Instantes : a[i] = 0, NEW t
    PROVE  Ventanas({}, a, NoEntry, t)
  BY DEF Ventanas

LEMMA EntradaTipo ==
    ASSUME LimitadorTipos, NEW u \in Usuarios
    PROVE  /\ entradas[u] \in RateEntry \cup {NoEntry}
           /\ entradas[u].count \in Nat /\ entradas[u].resetAt \in Nat
           /\ entradas[u].count <= MaxPerMinute
           /\ aceptados[u] \in [Instantes -> 0 .. MaxLlamadas] /\ ahora \in Nat
<1>1. entradas[u] \in RateEntry \cup {NoEntry}  BY DEF LimitadorTipos
<1>2. NoEntry.count = 0 /\ NoEntry.resetAt = 0  BY DEF NoEntry
<1>3. \A e \in RateEntry : e.count \in Nat /\ e.resetAt \in Nat /\ e.count <= MaxPerMinute
  BY DEF RateEntry, Instantes
<1> QED BY <1>1, <1>2, <1>3 DEF LimitadorTipos, Instantes

LEMMA VentanasAbre ==
    ASSUME NEW Ap, NEW a \in [Instantes -> 0 .. MaxLlamadas], NEW e \in RateEntry \cup {NoEntry},
           NEW n \in Instantes, Ventanas(Ap, a, e, n), e = NoEntry \/ n > e.resetAt,
           NEW b, b = [a EXCEPT ![n] = @ + 1], b \in [Instantes -> 0 .. MaxLlamadas],
           NEW f, f = [count |-> 1, resetAt |-> n + Window]
    PROVE  Ventanas(Ap \cup {n}, b, f, n)
<1>1. n \in Nat /\ \A o \in Ap : o \in Nat /\ o \in Instantes  BY DEF Ventanas, Instantes
<1>2. \A o \in Ap : o + Window < n
  <2>1. CASE e = NoEntry  BY <2>1 DEF Ventanas
  <2>2. CASE e # NoEntry
    <3>1. e.resetAt \in Nat /\ n > e.resetAt  BY <2>2 DEF RateEntry, Instantes
    <3>2. \A o \in Ap : o <= e.resetAt - Window  BY <2>2 DEF Ventanas
    <3> QED BY <1>1, <3>1, <3>2
  <2> QED BY <2>1, <2>2
<1>3. a[n] = 0
  <2> SUFFICES ASSUME a[n] # 0 PROVE FALSE  OBVIOUS
  <2>1. PICK o \in Ap : n <= o + Window  BY DEF Ventanas
  <2> QED BY <1>1, <1>2, <2>1
<1>4. b[n] = 1 /\ \A i \in Instantes : i # n => b[i] = a[i]  BY <1>3
<1>5. Mensajes(b, Tramo(n, n + Window)) = 1
  <2>1. n \in Tramo(n, n + Window)  BY <1>1 DEF Tramo
  <2>2. \A i \in Tramo(n, n + Window) : i # n => b[i] = 0
    <3> SUFFICES ASSUME NEW i \in Tramo(n, n + Window), i # n, b[i] # 0 PROVE FALSE  OBVIOUS
    <3>1. i \in Instantes /\ i \in Nat /\ n <= i  BY DEF Tramo, Instantes
    <3>2. a[i] # 0  BY <1>4, <3>1
    <3>3. i <= n  BY <3>1, <3>2 DEF Ventanas
    <3> QED BY <1>1, <3>1, <3>3
  <2>3. \A i \in Tramo(n, n + Window) : b[i] \in Nat  BY Sencillo
  <2>4. IsFiniteSet(Tramo(n, n + Window))  BY TramoFinito
  <2>5. Sumatoria(b, Tramo(n, n + Window)) = b[n]  BY ONLY <2>1, <2>2, <2>3, <2>4, SumaUno
  <2> QED BY <1>4, <2>5, MensajesSuma
<1>6. \A o \in Ap : Mensajes(b, Tramo(o, o + Window)) = Mensajes(a, Tramo(o, o + Window))
  <2> SUFFICES ASSUME NEW o \in Ap
               PROVE  Mensajes(b, Tramo(o, o + Window)) = Mensajes(a, Tramo(o, o + Window))
    OBVIOUS
  <2>1. \A i \in Tramo(o, o + Window) : b[i] = a[i]
    <3> SUFFICES ASSUME NEW i \in Tramo(o, o + Window) PROVE b[i] = a[i]  OBVIOUS
    <3>1. i \in Instantes /\ i \in Nat /\ i <= o + Window  BY DEF Tramo, Instantes
    <3>2. i # n  BY <1>1, <1>2, <3>1
    <3> QED BY <1>4, <3>1, <3>2
  <2>2. Sumatoria(b, Tramo(o, o + Window)) = Sumatoria(a, Tramo(o, o + Window))
    BY <2>1, TramoFinito, SumaIgual
  <2> QED BY <2>2, MensajesSuma
<1>7. PICK P : P = Ap \cup {n}  OBVIOUS
<1>8. P \subseteq Instantes /\ \A o \in P, p \in P : o < p => o + Window < p
  <2> SUFFICES ASSUME NEW o \in P, NEW p \in P, o < p PROVE o + Window < p  BY <1>1, <1>7
  <2>1. CASE o \in Ap /\ p \in Ap  BY <2>1 DEF Ventanas
  <2>2. CASE o \in Ap /\ p = n  BY <1>2, <2>2
  <2>3. CASE o = n /\ p \in Ap  BY <1>1, <1>2, <2>3
  <2> QED BY <1>1, <1>7, <2>1, <2>2, <2>3
<1>9. \A i \in Instantes : b[i] # 0 => i <= n /\ \E o \in P : o <= i /\ i <= o + Window
  <2> SUFFICES ASSUME NEW i \in Instantes, b[i] # 0
               PROVE  i <= n /\ \E o \in P : o <= i /\ i <= o + Window
    OBVIOUS
  <2>1. CASE i = n  BY <1>1, <1>7, <2>1
  <2>2. CASE i # n
    <3>1. a[i] # 0  BY <1>4, <2>2
    <3> QED BY <1>7, <3>1 DEF Ventanas
  <2> QED BY <2>1, <2>2
<1>10. \A o \in P : /\ o <= n /\ 1 <= b[o]
                    /\ Mensajes(b, Tramo(o, o + Window)) <= MaxPerMinute
  <2> SUFFICES ASSUME NEW o \in P
               PROVE  o <= n /\ 1 <= b[o] /\ Mensajes(b, Tramo(o, o + Window)) <= MaxPerMinute
    OBVIOUS
  <2>1. CASE o = n  BY <1>1, <1>4, <1>5, <2>1
  <2>2. CASE o # n  BY <1>7, <2>2, <1>1, <1>4, <1>6 DEF Ventanas
  <2> QED BY <2>1, <2>2
<1>11. f # NoEntry /\ f.resetAt = n + Window /\ f.count = 1 /\ f.resetAt - Window = n
  BY <1>1 DEF NoEntry
<1>12. \A o \in P : o <= n  BY <1>10
<1>13. n \in P  BY <1>7
<1>14. Mensajes(b, Tramo(f.resetAt - Window, f.resetAt)) = f.count  BY <1>5, <1>11
<1>15. f.resetAt - Window \in P /\ \A o \in P : o <= f.resetAt - Window  BY <1>11, <1>12, <1>13
<1>16. f # NoEntry  BY <1>11
<1>17. Ventanas(P, b, f, n)  BY ONLY <1>8, <1>9, <1>10, <1>14, <1>15, <1>16 DEF Ventanas
<1> QED BY <1>7, <1>17

LEMMA VentanasSuma ==
    ASSUME NEW Ap, NEW a \in [Instantes -> 0 .. MaxLlamadas], NEW e \in RateEntry,
           NEW n \in Instantes, Ventanas(Ap, a, e, n), ~(n > e.resetAt), e.count < MaxPerMinute,
           NEW b, b = [a EXCEPT ![n] = @ + 1], b \in [Instantes -> 0 .. MaxLlamadas],
           NEW f, f = [e EXCEPT !.count = @ + 1]
    PROVE  Ventanas(Ap, b, f, n)
<1>1. n \in Nat /\ \A o \in Ap : o \in Nat /\ o \in Instantes  BY DEF Ventanas, Instantes
<1>2. e # NoEntry /\ e.count \in Nat /\ e.resetAt \in Nat  BY DEF RateEntry, NoEntry, Instantes
<1>3. PICK w : w = e.resetAt - Window  OBVIOUS
<1>4. w \in Ap /\ w \in Nat /\ w <= n /\ n <= w + Window /\ e.resetAt = w + Window
  <2>1. w \in Ap  BY <1>2, <1>3 DEF Ventanas
  <2>2. w \in Nat /\ w <= n  BY <1>1, <2>1 DEF Ventanas
  <2>3. e.resetAt = w + Window  BY <1>2, <1>3
  <2>4. n <= e.resetAt  BY <1>1, <1>2
  <2> QED BY <2>1, <2>2, <2>3, <2>4
<1>5. \A i \in Instantes : i # n => b[i] = a[i]  OBVIOUS
<1>6. b[n] = a[n] + 1 /\ a[n] \in Nat  OBVIOUS
<1>7. Mensajes(a, Tramo(w, w + Window)) = e.count  BY <1>2, <1>3, <1>4 DEF Ventanas
<1>8. Mensajes(b, Tramo(w, w + Window)) = e.count + 1
  <2>1. PICK S : S = Tramo(w, w + Window)  OBVIOUS
  <2>2. IsFiniteSet(S) /\ n \in S /\ S \subseteq Instantes
    <3>1. n \in S  BY <1>4, <2>1 DEF Tramo
    <3> QED BY <2>1, <3>1, TramoFinito
  <2>3. \A i \in S : a[i] \in Int /\ b[i] \in Int  BY <2>1, Sencillo
  <2>4. \A i \in S : i # n => a[i] = b[i]  BY <1>5, <2>2
  <2>5. Sumatoria(b, S) = Sumatoria(a, S) - a[n] + b[n]  BY ONLY <2>2, <2>3, <2>4, SumaCambia
  <2>6. Sumatoria(a, S) = e.count  BY <1>7, <2>1, MensajesSuma
  <2>7. Sumatoria(b, S) = e.count + 1  BY <1>2, <1>6, <2>5, <2>6
  <2> QED BY <2>1, <2>7, MensajesSuma
<1>9. \A o \in Ap : o # w => Mensajes(b, Tramo(o, o + Window)) = Mensajes(a, Tramo(o, o + Window))
  <2> SUFFICES ASSUME NEW o \in Ap, o # w
               PROVE  Mensajes(b, Tramo(o, o + Window)) = Mensajes(a, Tramo(o, o + Window))
    OBVIOUS
  <2>0. o + Window < w  BY <1>2, <1>3, <1>1, <1>4 DEF Ventanas
  <2>1. \A i \in Tramo(o, o + Window) : b[i] = a[i]
    <3> SUFFICES ASSUME NEW i \in Tramo(o, o + Window) PROVE b[i] = a[i]  OBVIOUS
    <3>1. i \in Instantes /\ i \in Nat /\ i <= o + Window  BY DEF Tramo, Instantes
    <3>2. i # n  BY <1>1, <1>4, <2>0, <3>1
    <3> QED BY <1>5, <3>1, <3>2
  <2>2. Sumatoria(b, Tramo(o, o + Window)) = Sumatoria(a, Tramo(o, o + Window))
    BY <2>1, TramoFinito, SumaIgual
  <2> QED BY <2>2, MensajesSuma
<1>10. \A i \in Instantes : b[i] # 0 => i <= n /\ \E o \in Ap : o <= i /\ i <= o + Window
  <2> SUFFICES ASSUME NEW i \in Instantes, b[i] # 0
               PROVE  i <= n /\ \E o \in Ap : o <= i /\ i <= o + Window
    OBVIOUS
  <2>1. CASE i = n  BY <1>1, <1>4, <2>1
  <2>2. CASE i # n
    <3>1. a[i] # 0  BY <1>5, <2>2
    <3> QED BY <3>1 DEF Ventanas
  <2> QED BY <2>1, <2>2
<1>11. \A o \in Ap : /\ o <= n /\ 1 <= b[o]
                    /\ Mensajes(b, Tramo(o, o + Window)) <= MaxPerMinute
  <2> SUFFICES ASSUME NEW o \in Ap
               PROVE  o <= n /\ 1 <= b[o] /\ Mensajes(b, Tramo(o, o + Window)) <= MaxPerMinute
    OBVIOUS
  <2>1. o <= n /\ 1 <= a[o] /\ Mensajes(a, Tramo(o, o + Window)) <= MaxPerMinute  BY DEF Ventanas
  <2>2. a[o] \in Nat /\ b[o] \in Nat /\ (b[o] = a[o] \/ b[o] = a[o] + 1)  BY <1>1, <1>5, <1>6
  <2>3. 1 <= b[o]  BY <2>1, <2>2
  <2>4. Mensajes(b, Tramo(o, o + Window)) <= MaxPerMinute
    <3>1. CASE o = w  BY <1>2, <1>8, <3>1
    <3>2. CASE o # w  BY <1>9, <2>1, <3>2
    <3> QED BY <3>1, <3>2
  <2> QED BY <2>1, <2>3, <2>4
<1>12. f.count = e.count + 1 /\ f.resetAt = e.resetAt  BY DEF RateEntry
<1>13. f # NoEntry  BY <1>2, <1>12 DEF NoEntry
<1>14. /\ f.resetAt - Window \in Ap /\ \A o \in Ap : o <= f.resetAt - Window
       /\ Mensajes(b, Tramo(f.resetAt - Window, f.resetAt)) = f.count
  <2>1. \A o \in Ap : o <= w  BY <1>2, <1>3 DEF Ventanas
  <2> QED BY <1>3, <1>4, <1>8, <1>12, <2>1
<1>15. Ap \subseteq Instantes /\ \A o \in Ap, p \in Ap : o < p => o + Window < p  BY DEF Ventanas
<1> QED BY <1>10, <1>11, <1>13, <1>14, <1>15 DEF Ventanas

LEMMA VentanasLimpiar ==
    ASSUME NEW Ap, NEW a, NEW e \in RateEntry \cup {NoEntry}, NEW n \in Instantes,
               Ventanas(Ap, a, e, n)
    PROVE  Ventanas(Ap, a, Limpio(e, n), n)
<1>1. CASE e = NoEntry \/ ~(n > e.resetAt)  BY <1>1 DEF Limpio
<1>2. CASE e # NoEntry /\ n > e.resetAt
  <2>1. Limpio(e, n) = NoEntry /\ e.resetAt \in Nat /\ n \in Nat
    BY <1>2 DEF Limpio, RateEntry, Instantes
  <2>2. \A o \in Ap : o + Window < n  BY <1>2, <2>1 DEF Ventanas, Instantes
  <2> QED BY <2>1, <2>2 DEF Ventanas
<1> QED BY <1>1, <1>2

LEMMA VentanasAvanza ==
    ASSUME NEW Ap, NEW a, NEW e, NEW n \in Instantes, Ventanas(Ap, a, e, n)
    PROVE  Ventanas(Ap, a, e, n + 1)
<1>1. n \in Nat /\ \A o \in Ap : o \in Nat  BY DEF Ventanas, Instantes
<1>2. \A i \in Instantes : a[i] # 0 => i <= n + 1 /\ \E o \in Ap : o <= i /\ i <= o + Window
  <2> SUFFICES ASSUME NEW i \in Instantes, a[i] # 0
               PROVE  i <= n + 1 /\ \E o \in Ap : o <= i /\ i <= o + Window
    OBVIOUS
  <2>1. i \in Nat /\ i <= n /\ \E o \in Ap : o <= i /\ i <= o + Window  BY DEF Ventanas, Instantes
  <2> QED BY <1>1, <2>1
<1>3. \A o \in Ap : /\ o <= n + 1 /\ 1 <= a[o]
                   /\ Mensajes(a, Tramo(o, o + Window)) <= MaxPerMinute
  <2> SUFFICES ASSUME NEW o \in Ap
               PROVE  o <= n + 1 /\ 1 <= a[o] /\ Mensajes(a, Tramo(o, o + Window)) <= MaxPerMinute
    OBVIOUS
  <2>1. o <= n /\ 1 <= a[o] /\ Mensajes(a, Tramo(o, o + Window)) <= MaxPerMinute  BY DEF Ventanas
  <2> QED BY <1>1, <2>1
<1>4. e = NoEntry => \A o \in Ap : o + Window < n + 1
  <2> SUFFICES ASSUME e = NoEntry, NEW o \in Ap PROVE o + Window < n + 1  OBVIOUS
  <2>1. o + Window < n  BY DEF Ventanas
  <2> QED BY <1>1, <2>1
<1> QED BY <1>2, <1>3, <1>4 DEF Ventanas

LEMMA AceptaTipo ==
    ASSUME LimitadorTipos, NEW u \in Usuarios, NEW e \in RateEntry, Acepta(u, e)
    PROVE  /\ LimitadorTipos' /\ ahora' = ahora
           /\ aceptados'[u] = [aceptados[u] EXCEPT ![ahora] = @ + 1] /\ entradas'[u] = e
           /\ \A v \in Usuarios : v # u => aceptados'[v] = aceptados[v]
                  /\ entradas'[v] = entradas[v]
<1>1. PICK a : a = aceptados[u]  OBVIOUS
<1>2. a \in [Instantes -> 0 .. MaxLlamadas] /\ a[ahora] < MaxLlamadas
  BY <1>1 DEF LimitadorTipos, Acepta
<1>3. PICK b : b = [a EXCEPT ![ahora] = @ + 1]  OBVIOUS
<1>4. ahora \in Instantes  BY DEF LimitadorTipos
<1>5. b \in [Instantes -> 0 .. MaxLlamadas]  BY <1>2, <1>3, <1>4
<1>6. aceptados' = [aceptados EXCEPT ![u] = b] /\ entradas' = [entradas EXCEPT ![u] = e]
          /\ ahora' = ahora
  BY <1>1, <1>3 DEF Acepta
<1>7. aceptados' \in [Usuarios -> [Instantes -> 0 .. MaxLlamadas]]  BY <1>5, <1>6 DEF LimitadorTipos
<1>8. entradas' \in [Usuarios -> RateEntry \cup {NoEntry}]  BY <1>6 DEF LimitadorTipos
<1>9. LimitadorTipos'  BY <1>4, <1>6, <1>7, <1>8 DEF LimitadorTipos
<1>10. aceptados'[u] = b /\ entradas'[u] = e  BY <1>6 DEF LimitadorTipos
<1>11. \A v \in Usuarios : v # u => aceptados'[v] = aceptados[v] /\ entradas'[v] = entradas[v]
  BY <1>6 DEF LimitadorTipos
<1> QED BY <1>1, <1>3, <1>6, <1>9, <1>10, <1>11

LEMMA VentanasOtros ==
    ASSUME LInv, ahora' = ahora, NEW u \in Usuarios,
           \A v \in Usuarios : v # u => aceptados'[v] = aceptados[v] /\ entradas'[v] = entradas[v],
           \E Ap : Ventanas(Ap, aceptados'[u], entradas'[u], ahora)
    PROVE  VentanasEnRegla'
  BY DEF LInv, VentanasEnRegla

LEMMA LInvAbre == ASSUME LInv, NEW u \in Usuarios, Abre(u) PROVE LInv'
<1>1. PICK e : e = [count |-> 1, resetAt |-> ahora + Window]  OBVIOUS
<1>2. LimitadorTipos /\ ahora \in Instantes  BY DEF LInv, LimitadorTipos
<1>3. e \in RateEntry  BY <1>2, <1>1 DEF Instantes, RateEntry
<1>4. Acepta(u, e)  BY <1>1 DEF Abre
<1>5. /\ LimitadorTipos' /\ ahora' = ahora
      /\ aceptados'[u] = [aceptados[u] EXCEPT ![ahora] = @ + 1] /\ entradas'[u] = e
      /\ \A v \in Usuarios : v # u => aceptados'[v] = aceptados[v] /\ entradas'[v] = entradas[v]
  BY <1>2, <1>3, <1>4, AceptaTipo
<1>6. PICK Ap : Ventanas(Ap, aceptados[u], entradas[u], ahora)  BY DEF LInv, VentanasEnRegla
<1>7. PICK b : b = aceptados'[u]  OBVIOUS
<1>8. PICK a, d : a = aceptados[u] /\ d = entradas[u]  OBVIOUS
<1>9. /\ a \in [Instantes -> 0 .. MaxLlamadas] /\ b \in [Instantes -> 0 .. MaxLlamadas]
      /\ b = [a EXCEPT ![ahora] = @ + 1] /\ d \in RateEntry \cup {NoEntry}
  BY <1>2, <1>5, <1>7, <1>8 DEF LimitadorTipos
<1>10. d = NoEntry \/ ahora > d.resetAt  BY <1>8 DEF Abre, Vencida
<1>11. Ventanas(Ap, a, d, ahora)  BY <1>6, <1>8
<1>12. Ventanas(Ap \cup {ahora}, b, e, ahora)
  BY ONLY <1>1, <1>2, <1>9, <1>10, <1>11, VentanasAbre, LimitadorAssumption
<1>13. VentanasEnRegla'  BY <1>5, <1>7, <1>12, VentanasOtros
<1> QED BY <1>5, <1>13 DEF LInv

LEMMA LInvSuma == ASSUME LInv, NEW u \in Usuarios, Suma(u) PROVE LInv'
<1>1. PICK a, d, e : a = aceptados[u] /\ d = entradas[u] /\ e = [d EXCEPT !.count = @ + 1]  OBVIOUS
<1>2. LimitadorTipos /\ ahora \in Instantes  BY DEF LInv, LimitadorTipos
<1>3. d \in RateEntry /\ ~(ahora > d.resetAt) /\ d.count < MaxPerMinute
  BY <1>1, <1>2, EntradaTipo DEF Suma, Vencida, LlenaVentana
<1>4. e \in RateEntry  BY <1>3, <1>1 DEF RateEntry
<1>5. Acepta(u, e)  BY <1>1 DEF Suma
<1>6. /\ LimitadorTipos' /\ ahora' = ahora
      /\ aceptados'[u] = [aceptados[u] EXCEPT ![ahora] = @ + 1] /\ entradas'[u] = e
      /\ \A v \in Usuarios : v # u => aceptados'[v] = aceptados[v] /\ entradas'[v] = entradas[v]
  BY <1>2, <1>4, <1>5, AceptaTipo
<1>7. PICK Ap : Ventanas(Ap, aceptados[u], entradas[u], ahora)  BY DEF LInv, VentanasEnRegla
<1>8. PICK b : b = aceptados'[u]  OBVIOUS
<1>9. /\ a \in [Instantes -> 0 .. MaxLlamadas] /\ b \in [Instantes -> 0 .. MaxLlamadas]
      /\ b = [a EXCEPT ![ahora] = @ + 1]
  BY <1>1, <1>2, <1>6, <1>8 DEF LimitadorTipos
<1>10. Ventanas(Ap, a, d, ahora) /\ e = [d EXCEPT !.count = @ + 1]  BY <1>1, <1>7
<1>11. Ventanas(Ap, b, e, ahora)  BY ONLY <1>2, <1>3, <1>9, <1>10, VentanasSuma, LimitadorAssumption
<1>12. VentanasEnRegla'  BY <1>6, <1>8, <1>11, VentanasOtros
<1> QED BY <1>6, <1>12 DEF LInv

LEMMA LInvLimpiar == ASSUME LInv, Limpiar PROVE LInv'
<1>1. UNCHANGED <<ahora, aceptados>> /\ LimitadorTipos /\ ahora \in Instantes
  BY DEF Limpiar, LInv, LimitadorTipos
<1>2. entradas' = [u \in Usuarios |-> Limpio(entradas[u], ahora)]  BY DEF Limpiar, Caduca, Limpio
<1>3. \A u \in Usuarios : Limpio(entradas[u], ahora) \in RateEntry \cup {NoEntry}
  BY <1>1, EntradaTipo DEF Limpio
<1>4. LimitadorTipos'  BY <1>1, <1>2, <1>3 DEF LimitadorTipos
<1>5. ASSUME NEW u \in Usuarios PROVE \E Ap : Ventanas(Ap, aceptados[u], Limpio(entradas[u], ahora),
                 ahora)
  <2>1. PICK Ap : Ventanas(Ap, aceptados[u], entradas[u], ahora)  BY DEF LInv, VentanasEnRegla
  <2>2. Ventanas(Ap, aceptados[u], Limpio(entradas[u], ahora), ahora)
    BY <1>1, <2>1, EntradaTipo, VentanasLimpiar
  <2> QED BY <2>2
<1>6. VentanasEnRegla'  BY <1>1, <1>2, <1>5 DEF VentanasEnRegla
<1> QED BY <1>4, <1>6 DEF LInv

LEMMA LInvVacio ==
    ASSUME \A u \in Usuarios : entradas[u] = NoEntry /\ \A i \in Instantes : aceptados[u][i] = 0
    PROVE  VentanasEnRegla
  BY VentanasVacias DEF VentanasEnRegla

LEMMA LInvArranca == ASSUME LInv, Arranca PROVE LInv'
<1>1. ahora' = ahora /\ ahora \in Instantes  BY DEF Arranca, LInv, LimitadorTipos
<1>2. PICK c : c = [t \in Instantes |-> 0]  OBVIOUS
<1>3. c \in [Instantes -> 0 .. MaxLlamadas]  BY <1>2
<1>4. entradas' = [u \in Usuarios |-> NoEntry] /\ aceptados' = [u \in Usuarios |-> c]
  BY <1>2 DEF Arranca
<1>5. LimitadorTipos'  BY <1>1, <1>3, <1>4 DEF LimitadorTipos
<1>6. \A u \in Usuarios : Ventanas({}, aceptados'[u], entradas'[u], ahora')
  BY <1>2, <1>4, VentanasVacias
<1>7. VentanasEnRegla'  BY <1>6 DEF VentanasEnRegla
<1> QED BY <1>5, <1>7 DEF LInv

LEMMA LInvAvanza == ASSUME LInv, AvanzaAhora PROVE LInv'
<1>1. ahora' = ahora + 1 /\ ahora < MaxAhora /\ UNCHANGED <<entradas, aceptados>>
          /\ ahora \in Instantes
  BY DEF AvanzaAhora, LInv, LimitadorTipos
<1>2. ahora' \in Instantes  BY <1>1 DEF Instantes
<1>3. LimitadorTipos'  BY <1>1, <1>2 DEF LimitadorTipos, LInv
<1>4. ASSUME NEW u \in Usuarios PROVE \E Ap : Ventanas(Ap, aceptados[u], entradas[u], ahora + 1)
  <2>1. PICK Ap : Ventanas(Ap, aceptados[u], entradas[u], ahora)  BY DEF LInv, VentanasEnRegla
  <2>2. Ventanas(Ap, aceptados[u], entradas[u], ahora + 1)  BY <1>1, <2>1, VentanasAvanza
  <2> QED BY <2>2
<1>5. VentanasEnRegla'  BY <1>1, <1>4 DEF VentanasEnRegla
<1> QED BY <1>3, <1>5 DEF LInv

LEMMA LInvInit == LimitadorInit => LInv
<1> SUFFICES ASSUME LimitadorInit PROVE LInv  OBVIOUS
<1>1. PICK c : c = [t \in Instantes |-> 0]  OBVIOUS
<1>2. c \in [Instantes -> 0 .. MaxLlamadas]  BY <1>1
<1>3. entradas = [u \in Usuarios |-> NoEntry] /\ aceptados = [u \in Usuarios |-> c] /\ ahora = 0
  BY <1>1 DEF LimitadorInit
<1>4. LimitadorTipos  BY <1>2, <1>3 DEF LimitadorTipos, Instantes
<1>5. VentanasEnRegla  BY <1>1, <1>3, LInvVacio
<1> QED BY <1>4, <1>5 DEF LInv

LEMMA LInvPaso == LInv /\ [LimitadorNext]_limitadorVars => LInv'
<1> SUFFICES ASSUME LInv, [LimitadorNext]_limitadorVars PROVE LInv'  OBVIOUS
<1>1. CASE UNCHANGED limitadorVars  BY <1>1 DEF limitadorVars, LInv, LimitadorTipos, VentanasEnRegla
<1>2. ASSUME NEW u \in Usuarios, Abre(u) PROVE LInv'  BY <1>2, LInvAbre
<1>3. ASSUME NEW u \in Usuarios, Suma(u) PROVE LInv'  BY <1>3, LInvSuma
<1>4. ASSUME NEW u \in Usuarios, Rechaza(u) PROVE LInv'  BY <1>1, <1>4 DEF Rechaza
<1>5. CASE Limpiar  BY <1>5, LInvLimpiar
<1>6. CASE Arranca  BY <1>6, LInvArranca
<1>7. CASE AvanzaAhora  BY <1>7, LInvAvanza
<1> QED BY <1>1, <1>2, <1>3, <1>4, <1>5, <1>6, <1>7 DEF LimitadorNext

LEMMA LInvSiempre == LimitadorSpec => []LInv
  BY LInvInit, LInvPaso, PTL DEF LimitadorSpec

\* The window of a user and what was accepted of him keep their shape (RateLimiterService,
\* rate-limiter.service.ts), whatever is cleaned and whenever the process starts again.
THEOREM LimitadorTypeOKSiempre == LimitadorSpec => []LimitadorTypeOK
  BY LInvSiempre, LimitadorCumple, PTL

\* In no Window ticks does a user have twice the limit accepted: verificar opens a window at
\* the first message past the last one, so what is accepted falls in two windows at the most,
\* and one of the messages of each is at its start (rate-limiter.service.ts).
THEOREM DobleDelLimiteSiempre == LimitadorSpec => []DobleDelLimite
  BY LInvSiempre, LimitadorCumple, PTL


HIDE LimitadorAssumption DEF LimitadorAssumption

--------------------
(* The composition: a step of it is a step of the component it looks at.   *)

LEMMA CatalogosEmpiezan == Init => DomiciliosInit /\ TaxonomiaInit
  BY DEF Init

LEMMA CatalogosSiguen ==
    ASSUME [Next]_vars PROVE [DomiciliosNext]_domiciliosVars /\ [TaxonomiaNext]_taxonomiaVars
<1>1. CASE Next  BY <1>1 DEF Next
<1>2. CASE UNCHANGED vars  BY <1>2 DEF vars, componentes
<1> QED BY <1>1, <1>2

\* In the catalogues of MCServicios, with any rows to start from, any calls and any names: no
\* street, code, colonia or calle_colonia is there twice in a table where no save was on top
\* of another and no update named another parent (StreetsService, ColoniasService,
\* PostalCodesService); and every subcategoria and especialidad that is there hangs from one
\* that is there, as the last call about it left it unless another held it (CategoriasService,
\* SubcategoriasService, EspecialidadesService).
THEOREM CatalogosSiempreEnRegla == Spec => []CatalogosEnRegla
<1>1. Init => DomiciliosInit /\ TaxonomiaInit  BY CatalogosEmpiezan
<1>2. [Next]_vars => [DomiciliosNext]_domiciliosVars  BY CatalogosSiguen
<1>3. [Next]_vars => [TaxonomiaNext]_taxonomiaVars  BY CatalogosSiguen
<1>4. DomInv /\ TaxInv => CatalogosEnRegla  BY DEF DomInv, TaxInv, CatalogosEnRegla
<1> QED BY <1>1, <1>2, <1>3, <1>4, DomInvSiempre, TaxInvSiempre, PTL DEF Spec

LEMMA VisitantesEmpiezan == Init => ResenasInit /\ BusquedasInit
  BY DEF Init

LEMMA VisitantesSiguen ==
    ASSUME [Next]_vars PROVE [ResenasNext]_resenasVars /\ [BusquedasNext]_busquedasVars
<1>1. CASE Next  BY <1>1 DEF Next
<1>2. CASE UNCHANGED vars  BY <1>2 DEF vars, componentes
<1> QED BY <1>1, <1>2

\* What the visitors of MCServicios leave behind, for any callers, requests, branches and taps:
\* while no two calls that save the review were on top of another, it carries the answer the
\* owner gave to the words it has (ReviewsService.update, responderReview and moderateReview,
\* each a findOne and a save of the whole row); and however searches share the list that
\* searchCache keeps, sort it in place under each other and walk it with a call awaited for each
\* branch (the last part of AiService.processUserMessage), when they have all ended and no call
\* failed each counted as many results as it had, its business once, and each result once if
\* nobody liked a branch meanwhile.
THEOREM VisitantesSiempreEnRegla == Spec => []VisitantesEnRegla
<1>1. Init => ResenasInit /\ BusquedasInit  BY VisitantesEmpiezan
<1>2. [Next]_vars => [ResenasNext]_resenasVars  BY VisitantesSiguen
<1>3. [Next]_vars => [BusquedasNext]_busquedasVars  BY VisitantesSiguen
<1>4. ResenasInv /\ BusqInv => VisitantesEnRegla
  BY CuentaBasta DEF ResenasInv, ContestadaInv, VisitantesEnRegla
<1> QED BY <1>1, <1>2, <1>3, <1>4, ResenasSiempre, BusqSiempre, PTL DEF Spec, ResenasSpec,
        BusquedasSpec

LEMMA AvisosEmpiezan == Init => BuzonInit /\ NovedadesInit /\ SoporteInit
  BY DEF Init

LEMMA AvisosSiguen ==
    ASSUME [Next]_vars
    PROVE  [BuzonNext]_buzonVars /\ [NovedadesNext]_novedadesVars /\ [SoporteNext]_soporteVars
<1>1. CASE Next  BY <1>1 DEF Next
<1>2. CASE UNCHANGED vars  BY <1>2 DEF vars, componentes
<1> QED BY <1>1, <1>2

\* What MCServicios sends and shows, for any subscribers, branches, requests and tickets: a
\* notification the panel shows as sent is in the inbox of everyone it was for, whatever failed
\* between the push and the last batch (AdminNotificationsService); inbox, badge and panel count
\* the same rows, and a message read stays read while no edit of it overlapped another call
\* (AdminMessagesService); the summary of a subscriber is of the favourites there are and counts
\* nothing marked as read from them, while none was computed beside such a change
\* (BookmarksService), and a promotion is announced unless its request failed
\* (PromocionesSucursalesService); and who wrote a ticket finds it by its folio and in the
\* lists, as the panel last left it while no two updates held it at once (SupportService).
THEOREM AvisosSiempreEnRegla == Spec => []AvisosEnRegla
<1>1. Init => BuzonInit /\ NovedadesInit /\ SoporteInit  BY AvisosEmpiezan
<1>2. [Next]_vars => [BuzonNext]_buzonVars  BY AvisosSiguen
<1>3. [Next]_vars => [NovedadesNext]_novedadesVars  BY AvisosSiguen
<1>4. [Next]_vars => [SoporteNext]_soporteVars  BY AvisosSiguen
<1>5. BuzonInv /\ NovedadesInv /\ SoporteInv => AvisosEnRegla
  BY BuzonCumple, NovedadesCumplen, SoporteCumple DEF AvisosEnRegla
<1> QED BY <1>1, <1>2, <1>3, <1>4, <1>5, BuzonSiempre, NovedadesSiempre, SoporteSiempre, PTL
        DEF Spec, BuzonSpec, NovedadesSpec, SoporteSpec
=============================================================================
