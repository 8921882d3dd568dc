-------------------------------- MODULE Busquedas --------------------------------
(***************************************************************************)
(* One search that many repeat (the last part of AiService.                *)
(* processUserMessage): the interpretation is kept for five minutes, and   *)
(* every request that finds it there shares the object.  Each ranks its    *)
(* list in place by the likes of the branches and then walks it, awaiting  *)
(* a call to the statistics for each branch and one for its business.      *)
(* Beside them a reader likes the branches (SucursalLikesController).      *)
(* All the branches found are of one business.                             *)
(***************************************************************************)
EXTENDS Integers, FiniteSets, Sequences, SequencesExt, FiniteSetsExt

CONSTANTS Sucursales, NoSucursal,
          Atenciones,     \* the requests at work
          MaxBusquedas,   \* bound: searches
          MaxToques,      \* bound: taps on a like
          MaxFallasBusqueda

ASSUME BusquedasAssumption ==
    /\ IsFiniteSet(Sucursales) /\ NoSucursal \notin Sucursales /\ IsFiniteSet(Atenciones)
    /\ MaxBusquedas \in Nat /\ MaxToques \in Nat /\ MaxFallasBusqueda \in Nat

VARIABLES
    lista,        \* the objects in memory, by the search that made them
    guardada,     \* searchCache: the object kept, 0 when none is in force
    meGusta,      \* sucursal_likes of the reader, by id: nothing makes them unique
    cuenta,       \* estadisticas_sucursales.busquedas
    cuentaNegocio, \* estadisticas_negocios.busquedas
    atencion,
    busquedas, toques, fallasBusqueda,
    terminadas,   \* searches with results that were counted to the end
    gustosMovidos \* a like came or went after the first search

busquedasVars == <<lista, guardada, meGusta, cuenta, cuentaNegocio, atencion, busquedas,
                   toques, fallasBusqueda, terminadas, gustosMovidos>>

--------------------
Listas == 1 .. MaxBusquedas
MeGustaIds == 1 .. MaxToques
Resultados == {<<>>} \cup SetToSeqs(Sucursales)

Atencion == [paso : {"idle", "interpreta", "likes", "sucursal", "negocio",
                     "busca", "inserta", "quita"},
             lista : Listas \cup {0}, i : 0 .. Cardinality(Sucursales),
             actual : Sucursales \cup {NoSucursal}, contado : BOOLEAN,
             id : MeGustaIds \cup {0}, tenia : BOOLEAN]
SinAtencion == [paso |-> "idle", lista |-> 0, i |-> 0, actual |-> NoSucursal,
                contado |-> FALSE, id |-> 0, tenia |-> FALSE]

BusquedasTypeOK ==
    /\ lista \in [Listas -> Resultados]
    /\ guardada \in Listas \cup {0}
    /\ meGusta \in [MeGustaIds -> Sucursales \cup {NoSucursal}]
    /\ cuenta \in [Sucursales -> 0 .. Cardinality(Sucursales) * MaxBusquedas]
    /\ cuentaNegocio \in 0 .. Cardinality(Sucursales) * MaxBusquedas
    /\ atencion \in [Atenciones -> Atencion]
    /\ busquedas \in 0 .. MaxBusquedas /\ toques \in 0 .. MaxToques
    /\ fallasBusqueda \in 0 .. MaxFallasBusqueda
    /\ terminadas \in 0 .. busquedas /\ gustosMovidos \in BOOLEAN

BusquedasInit ==
    /\ lista = [n \in Listas |-> <<>>] /\ guardada = 0
    /\ meGusta = [n \in MeGustaIds |-> NoSucursal]
    /\ cuenta = [s \in Sucursales |-> 0] /\ cuentaNegocio = 0
    /\ atencion = [b \in Atenciones |-> SinAtencion]
    /\ busquedas = 0 /\ toques = 0 /\ fallasBusqueda = 0
    /\ terminadas = 0 /\ gustosMovidos = FALSE

--------------------
Esta(b, paso) == atencion[b].paso = paso
Atiende(b, w) == atencion' = [atencion EXCEPT ![b] = w]
MemoriaIgual  == UNCHANGED <<lista, guardada>>
CuentasIgual  == UNCHANGED <<cuenta, cuentaNegocio, terminadas>>
GustosIgual   == UNCHANGED <<meGusta, toques, gustosMovidos>>

\* A search that finds the object kept, or has to interpret the text.
Busca(b) ==
    /\ Esta(b, "idle") /\ busquedas < MaxBusquedas
    /\ busquedas' = busquedas + 1
    /\ Atiende(b, [SinAtencion EXCEPT
           !.paso = IF guardada # 0 THEN "likes" ELSE "interpreta",
           !.lista = IF guardada # 0 THEN guardada ELSE busquedas + 1])
    /\ MemoriaIgual /\ CuentasIgual /\ GustosIgual /\ UNCHANGED fallasBusqueda

\* An interpretation without results is not kept, and there is nothing to count.
Interpretar(b) ==
    /\ Esta(b, "interpreta")
    /\ \E r \in Resultados :
        /\ lista' = [lista EXCEPT ![atencion[b].lista] = r]
        /\ guardada' = IF r = <<>> THEN guardada ELSE atencion[b].lista
        /\ Atiende(b, IF r = <<>> THEN SinAtencion
                      ELSE [atencion[b] EXCEPT !.paso = "likes"])
    /\ CuentasIgual /\ GustosIgual /\ UNCHANGED <<busquedas, fallasBusqueda>>

Likes(s) == Cardinality({n \in MeGustaIds : meGusta[n] = s})
\* items.sort is stable: of two branches with as many likes the first one stays first.
Delante(q, i) == {h \in DOMAIN q : \/ Likes(q[h]) > Likes(q[i])
                                   \/ Likes(q[h]) = Likes(q[i]) /\ h < i}
Ordenada(q) ==
    [j \in DOMAIN q |-> q[CHOOSE i \in DOMAIN q : Cardinality(Delante(q, i)) = j - 1]]
\* The iterator of the list reads the item that is in its next place now.
Recorre(w, q, i) ==
    IF i > Len(q) THEN SinAtencion
    ELSE [w EXCEPT !.paso = "sucursal", !.i = i, !.actual = q[i]]
Suma1(i, q) == IF i > Len(q) THEN 1 ELSE 0

\* contarLikesBatch, and the ranking of the list.
OrdenaPorLikes(b) ==
    /\ Esta(b, "likes")
    /\ LET w == atencion[b]
           q == Ordenada(lista[w.lista])
       IN  lista' = [lista EXCEPT ![w.lista] = q] /\ Atiende(b, Recorre(w, q, 1))
    /\ CuentasIgual /\ GustosIgual /\ UNCHANGED <<guardada, busquedas, fallasBusqueda>>

Adelante(b) ==
    LET w == atencion[b]
    IN  /\ Atiende(b, Recorre(w, lista[w.lista], w.i + 1))
        /\ terminadas' = terminadas + Suma1(w.i + 1, lista[w.lista])

\* Mutant: the business is counted with each of its branches.
NegocioPendienteSiempre(w) == TRUE
NegocioPendiente(w) == ~w.contado

CuentaSucursal(b) ==
    /\ Esta(b, "sucursal")
    /\ cuenta' = [cuenta EXCEPT ![atencion[b].actual] = @ + 1]
    /\ IF NegocioPendiente(atencion[b])
       THEN Atiende(b, [atencion[b] EXCEPT !.paso = "negocio", !.contado = TRUE]) /\ UNCHANGED terminadas
       ELSE Adelante(b)
    /\ MemoriaIgual /\ GustosIgual /\ UNCHANGED <<cuentaNegocio, busquedas, fallasBusqueda>>

CuentaNegocio(b) ==
    /\ Esta(b, "negocio")
    /\ cuentaNegocio' = cuentaNegocio + 1
    /\ Adelante(b)
    /\ MemoriaIgual /\ GustosIgual /\ UNCHANGED <<cuenta, busquedas, fallasBusqueda>>

\* A call that rejects: the ranking and the statistics swallow it and go on.
FallaBusqueda(b) ==
    /\ ~Esta(b, "idle") /\ fallasBusqueda < MaxFallasBusqueda
    /\ fallasBusqueda' = fallasBusqueda + 1
    /\ \/ /\ Esta(b, "likes")
          /\ Atiende(b, Recorre(atencion[b], lista[atencion[b].lista], 1))
          /\ UNCHANGED terminadas
       \/ /\ Esta(b, "sucursal") /\ NegocioPendiente(atencion[b])
          /\ Atiende(b, [atencion[b] EXCEPT !.paso = "negocio", !.contado = TRUE])
          /\ UNCHANGED terminadas
       \/ Esta(b, "sucursal") /\ ~NegocioPendiente(atencion[b]) /\ Adelante(b)
       \/ Esta(b, "negocio") /\ Adelante(b)
       \/ /\ \E p \in {"interpreta", "busca", "inserta", "quita"} : Esta(b, p)
          /\ Atiende(b, SinAtencion) /\ UNCHANGED terminadas
    /\ MemoriaIgual /\ GustosIgual /\ UNCHANGED <<cuenta, cuentaNegocio, busquedas>>

\* The five minutes pass.
Caducan ==
    /\ guardada # 0 /\ guardada' = 0
    /\ CuentasIgual /\ GustosIgual /\ UNCHANGED <<lista, atencion, busquedas, fallasBusqueda>>

--------------------
\* toggle: usuarioHaDadoLike, then darLike or quitarLike, which look again.
DelUsuario(s) == {n \in MeGustaIds : meGusta[n] = s}
Toca(b, s) ==
    /\ Esta(b, "idle") /\ toques < MaxToques
    /\ toques' = toques + 1
    /\ Atiende(b, [SinAtencion EXCEPT !.paso = "busca", !.actual = s,
                                      !.tenia = DelUsuario(s) # {}])
    /\ MemoriaIgual /\ CuentasIgual
    /\ UNCHANGED <<meGusta, gustosMovidos, busquedas, fallasBusqueda>>

BuscaLike(b) ==
    /\ Esta(b, "busca")
    /\ LET w == atencion[b]
           filas == DelUsuario(w.actual)
       IN  \/ ~w.tenia /\ filas = {} /\ Atiende(b, [w EXCEPT !.paso = "inserta"])
           \/ w.tenia /\ \E n \in filas : Atiende(b, [w EXCEPT !.paso = "quita", !.id = n])
           \/ w.tenia = (filas = {}) /\ Atiende(b, SinAtencion)
    /\ MemoriaIgual /\ CuentasIgual /\ GustosIgual /\ UNCHANGED <<busquedas, fallasBusqueda>>

MueveLike(b, n, s) ==
    /\ meGusta' = [meGusta EXCEPT ![n] = s]
    /\ gustosMovidos' = (gustosMovidos \/ busquedas > 0)
    /\ Atiende(b, SinAtencion)
    /\ MemoriaIgual /\ CuentasIgual /\ UNCHANGED <<toques, busquedas, fallasBusqueda>>
DarLike(b) ==
    /\ Esta(b, "inserta")
    /\ \E n \in MeGustaIds : meGusta[n] = NoSucursal
                             /\ (\A k \in MeGustaIds : k < n => meGusta[k] # NoSucursal)
                             /\ MueveLike(b, n, atencion[b].actual)
QuitarLike(b) ==
    /\ Esta(b, "quita")
    /\ MueveLike(b, atencion[b].id, NoSucursal)

BusquedasNext ==
    \/ \E b \in Atenciones :
        \/ Busca(b) \/ Interpretar(b) \/ OrdenaPorLikes(b) \/ CuentaSucursal(b)
        \/ CuentaNegocio(b) \/ FallaBusqueda(b) \/ BuscaLike(b) \/ DarLike(b) \/ QuitarLike(b)
        \/ \E s \in Sucursales : Toca(b, s)
    \/ Caducan

BusquedasSpec == BusquedasInit /\ [][BusquedasNext]_busquedasVars

--------------------
\* However searches share the list and rank it under each other, when they end each has
\* counted as many results as it had and its business once; and each result once, while
\* no like came or went since the first of them (one that does moves the list under a
\* search that is walking it).  For calls that did not fail.
CuentaCadaUna ==
    (\A b \in Atenciones : Esta(b, "idle")) /\ fallasBusqueda = 0 =>
        /\ cuentaNegocio = terminadas
        /\ SumFunction(cuenta) = Cardinality(Sucursales) * terminadas
        /\ ~gustosMovidos => \A s \in Sucursales : cuenta[s] = terminadas
=============================================================================
