------------------------------- MODULE Domicilios -------------------------------
(***************************************************************************)
(* The catalogue of addresses: streets, postal codes, neighbourhoods       *)
(* (colonias) and which street runs through which.  Nothing is ever        *)
(* deleted: a row is switched off.  No table has a unique index: a call    *)
(* looks for another row with the same key and then saves, and what it     *)
(* saves is the whole row it read.                                         *)
(*                                                                         *)
(* TypeORM takes the parent of a row from the relation it loaded, not from *)
(* the column the call changed: the new parent is looked up, and its key   *)
(* checked, but the row stays where it was.                                *)
(***************************************************************************)
EXTENDS Naturals, Sequences, FiniteSets

CONSTANTS Capturistas,        \* the calls at work
          NombresDom,         \* names, once normalised
          DomiciliosIniciales,        \* what there may be at the start
          MaxDomicilios, MaxCapturas  \* bounds: rows, calls

\* padre: the ciudad of a code, the code of a colonia, the colonia a street runs through.
\* nombre: the normalised name or the code; of a calle_colonia, its street.
TablasDom == {"calles", "codigos", "colonias", "callesColonias"}
FilaDom == [tabla : TablasDom, padre : Nat, nombre : Nat, activo : BOOLEAN]

ASSUME DomiciliosAssumption ==
    /\ NombresDom \subseteq Nat
    /\ DomiciliosIniciales \subseteq Seq(FilaDom)
    /\ \A f \in DomiciliosIniciales : \A i, j \in DOMAIN f : i # j =>
          <<f[i].tabla, f[i].padre, f[i].nombre>> # <<f[j].tabla, f[j].padre, f[j].nombre>>
    /\ MaxDomicilios \in Nat /\ MaxCapturas \in Nat

VARIABLES
    domicilio,      \* the rows of the four tables, in the order of their insertion
    captura,        \* the calls at work
    capturas,
    encimadas,      \* tables where a call saved what another had looked for, or read
    mudadas         \* tables where an update named another parent

domiciliosVars == <<domicilio, captura, capturas, encimadas, mudadas>>

\* fila: the row it read, 0: it inserts one.  queda: what it saves.  clave: what it looks for.
SinCaptura == [paso |-> "idle"]

DomiciliosInit ==
    /\ domicilio \in DomiciliosIniciales
    /\ captura = [w \in Capturistas |-> SinCaptura]
    /\ capturas = 0 /\ encimadas = {} /\ mudadas = {}

--------------------
DeTabla(t) == {i \in DOMAIN domicilio : domicilio[i].tabla = t}
Ciudades   == {1}

\* The rows a row may hang from, and what it may be called.
Padres(t) == CASE t = "calles" -> {0} [] t = "codigos" -> Ciudades
               [] t = "colonias" -> DeTabla("codigos")
               [] t = "callesColonias" -> DeTabla("colonias")
Nombres(t) == IF t = "callesColonias" THEN DeTabla("calles") ELSE NombresDom

ClaveDom(f) == <<f.tabla, f.padre, f.nombre>>

\* Another row has the key, switched off or not.
\* Mutant: only the rows switched on are looked at.
ExisteActiva(clave, salvo) ==
    \E i \in DOMAIN domicilio \ {salvo} : ClaveDom(domicilio[i]) = clave /\ domicilio[i].activo
Existe(clave, salvo) ==
    \E i \in DOMAIN domicilio \ {salvo} : ClaveDom(domicilio[i]) = clave

Comienza(w, c) ==
    /\ captura[w] = SinCaptura /\ capturas < MaxCapturas
    /\ capturas' = capturas + 1
    /\ captura' = [captura EXCEPT ![w] = c]
    /\ UNCHANGED <<domicilio, encimadas, mudadas>>

SigueDom(w, paso) ==
    /\ captura' = [captura EXCEPT ![w] = IF paso = "idle" THEN SinCaptura ELSE [@ EXCEPT !.paso = paso]]
    /\ UNCHANGED <<domicilio, capturas, encimadas, mudadas>>

\* Another call has looked for the key this one saves, or read the row it saves.
Encima(w) ==
    \E v \in Capturistas \ {w} :
       /\ captura[v] # SinCaptura
       /\ \/ /\ captura[v].paso = "guarda" /\ ~captura[v].quita
             /\ ClaveDom(captura[v].queda) = ClaveDom(captura[w].queda)
          \/ captura[v].fila # 0 /\ captura[v].fila = captura[w].fila

\* create, createStreetColony: the parents are there, the key is not.
CrearDom(w) ==
    \E t \in TablasDom, activo \in BOOLEAN : \E p \in Padres(t), n \in Nombres(t) :
       LET f == [tabla |-> t, padre |-> p, nombre |-> n, activo |-> activo]
       IN /\ ~Existe(ClaveDom(f), 0) /\ Len(domicilio) < MaxDomicilios
          /\ Comienza(w, [paso |-> "guarda", fila |-> 0, quita |-> FALSE, queda |-> f,
                          clave |-> ClaveDom(f)])

\* update, updateStreetColony read the row; and what it would become has its parents.  The
\* parent stays that of the relation that was loaded, and so does the street.
ActualizarDom(w) ==
    \E i \in DOMAIN domicilio, activo \in BOOLEAN :
    \E p \in Padres(domicilio[i].tabla), n \in Nombres(domicilio[i].tabla) :
       LET f == domicilio[i]
           cambia == IF f.tabla = "callesColonias" THEN f ELSE [f EXCEPT !.nombre = n]
           c == [paso |-> "busca", fila |-> i, quita |-> FALSE,
                 queda |-> [cambia EXCEPT !.activo = activo], clave |-> <<f.tabla, p, n>>]
       IN \/ Comienza(w, c)
          \/ /\ f.tabla = "codigos" /\ c.clave = ClaveDom(f)
             /\ Comienza(w, [c EXCEPT !.paso = "guarda"])

BuscaDuplicado(w) ==
    LET c == captura[w]
    IN /\ c.paso = "busca"
       /\ SigueDom(w, IF Existe(c.clave, c.fila) THEN "idle" ELSE "guarda")

\* remove, removeStreetColony.
EliminarDom(w) ==
    \E i \in DOMAIN domicilio :
       Comienza(w, [paso |-> "guarda", fila |-> i, quita |-> TRUE,
                       queda |-> [domicilio[i] EXCEPT !.activo = FALSE],
                       clave |-> ClaveDom(domicilio[i])])

GuardaDom(w) ==
    LET c == captura[w]
    IN /\ c.paso = "guarda"
       /\ domicilio' = IF c.fila = 0 THEN Append(domicilio, c.queda)
                       ELSE [domicilio EXCEPT ![c.fila] = c.queda]
       /\ captura' = [captura EXCEPT ![w] = SinCaptura]
       /\ encimadas' = IF Encima(w) THEN encimadas \cup {c.queda.tabla} ELSE encimadas
       /\ mudadas' = IF c.clave # ClaveDom(c.queda) THEN mudadas \cup {c.queda.tabla} ELSE mudadas
       /\ UNCHANGED capturas

DomiciliosNext ==
    \E w \in Capturistas : \/ CrearDom(w) \/ ActualizarDom(w) \/ BuscaDuplicado(w)
                           \/ EliminarDom(w) \/ GuardaDom(w)

DomiciliosTypeOK ==
    /\ domicilio \in Seq(FilaDom) /\ Len(domicilio) <= MaxDomicilios + Cardinality(Capturistas)
    /\ \A w \in Capturistas : \/ captura[w] = SinCaptura
                              \/ /\ captura[w].paso \in {"busca", "guarda"}
                                 /\ captura[w].queda \in FilaDom
                                 /\ captura[w].fila \in 0 .. Len(domicilio)
    /\ capturas \in 0 .. MaxCapturas
    /\ encimadas \subseteq TablasDom /\ mudadas \subseteq TablasDom

--------------------
\* No street, code, colonia or calle_colonia is there twice, however its rows were switched
\* off, renamed and switched on again, unless two calls about it overlapped, or an update
\* that named another parent was saved under the old one (streets.service.ts:45, 127;
\* colonias.service.ts:82, 245).
ClavesUnicas ==
    \A i, j \in DOMAIN domicilio :
        i # j /\ ClaveDom(domicilio[i]) = ClaveDom(domicilio[j]) =>
            domicilio[i].tabla \in encimadas \cup mudadas
=============================================================================
