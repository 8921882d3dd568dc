-------------------------------- MODULE Buscador --------------------------------
(***************************************************************************)
(* SearchService: the branches that meet the filters of a search, and      *)
(* those of a business that sells what is looked for.  Both are one query  *)
(* over a view and its joins.  The driver (TypeORM) gives back its rows    *)
(* twice: raw, and as entities, of which equal ones are one; the service   *)
(* takes the branch from the n-th entity, and the distance and the item    *)
(* from the n-th raw row.                                                  *)
(*                                                                         *)
(* A text is one word; the tolerance to misspellings is in the words a row *)
(* answers to.  The opening hours are in Horarios.                         *)
(***************************************************************************)
EXTENDS Integers, Sequences, FiniteSets, SequencesExt

CONSTANTS Fichas,         \* the branches, in the order of their names
          Ficha,          \* the row of each in vista_negocios_completa
          Palabras, SinTexto,
          PalabraPromo,     \* the word for promotions in general
          Groserias,
          Radio, Limite,  \* 10 km, LIMIT 50
          Consultas       \* the searches that are asked by themselves

\* cat, sub, esp: 0 is none.  dice: the words of its searched columns.  items: those of
\* each item of its business.  km: from who asks; a branch without a position is far.
\* copias: rows its characteristic joins, one for each alias, 0 without it.
FichaVista == [cat : Nat, sub : Nat, esp : Nat, dice : SUBSET Palabras,
               items : Seq(SUBSET Palabras), km : Nat, abierta : BOOLEAN,
               promo : BOOLEAN, copias : Nat]
Filtros == [q : Palabras \cup {SinTexto}, cat : Nat, sub : Nat, esp : Nat, car : BOOLEAN,
            abierto : BOOLEAN, promos : BOOLEAN, cerca : BOOLEAN]

ASSUME BuscadorAssumption ==
    /\ Fichas \subseteq Nat /\ IsFiniteSet(Fichas)
    /\ \A x \in Fichas : Ficha[x] \in FichaVista
    /\ SinTexto \notin Palabras /\ Groserias \subseteq Palabras
    /\ Radio \in Nat /\ Limite \in Nat \ {0}
    /\ \A p \in Consultas : p \in Filtros

VARIABLES
    vista,        \* the branches the view lists
    consulta,     \* the last search: its filters, and whether of items
    resultado

buscadorVars == <<vista, consulta, resultado>>

--------------------
Generica(p) == p.promos /\ p.q \in {SinTexto, PalabraPromo}

\* search asks nothing of the database for a search without filters.
Vacia(p) == /\ p.q = SinTexto /\ ~p.promos /\ ~p.car
            /\ p.cat = 0 /\ p.sub = 0 /\ p.esp = 0

DelGiro(x, p) == /\ p.cat \in {0, Ficha[x].cat}
                 /\ p.sub \in {0, Ficha[x].sub}

Caracteristico(x, p) == p.car => Ficha[x].copias > 0

AlAlcance(x, p) == p.cerca => Ficha[x].km <= Radio

Cumple(x, p) ==
    /\ ~Vacia(p) /\ p.q \notin Groserias
    /\ DelGiro(x, p) /\ p.esp \in {0, Ficha[x].esp}
    /\ Caracteristico(x, p) /\ AlAlcance(x, p)
    /\ p.q = SinTexto \/ Generica(p) \/ p.q \in Ficha[x].dice
    /\ p.abierto => Ficha[x].abierta
    /\ p.promos => Ficha[x].promo

\* The items of its business that answer to the text.  searchByItems knows nothing of
\* especialidad, opening hours or promotions.
SusItems(x, q) == {i \in DOMAIN Ficha[x].items : q \in Ficha[x].items[i]}
CumpleConItem(x, p) ==
    /\ SusItems(x, p.q) # {} /\ DelGiro(x, p)
    /\ Caracteristico(x, p) /\ AlAlcance(x, p)

Encontradas(p) == {x \in vista : Cumple(x, p)}
ConItem(p)     == {x \in vista : CumpleConItem(x, p)}

--------------------
\* The rows of the query: ORDER BY distance, or a promotion first, and name; LIMIT.  The
\* search for promotions has the latest first, here as their names.
Copias(x, p) == IF p.car THEN 1 .. Ficha[x].copias ELSE {1}
Filas(p, deItems) ==
    IF deItems
    THEN UNION {{<<x, i, c>> : i \in SusItems(x, p.q), c \in Copias(x, p)} : x \in ConItem(p)}
    ELSE UNION {{<<x, 0, c>> : c \in Copias(x, p)} : x \in Encontradas(p)}

Primero(p, deItems, x) ==
    IF p.cerca THEN Ficha[x].km
    ELSE IF deItems \/ p.promos \/ Ficha[x].promo THEN 0 ELSE 1

AntesFila(p, deItems, a, b) ==
    LET Clave(f) == <<Primero(p, deItems, f[1]), f[1], f[2], f[3]>>
    IN \E n \in 1 .. 4 : /\ Clave(a)[n] < Clave(b)[n]
                         /\ \A m \in 1 .. n - 1 : Clave(a)[m] = Clave(b)[m]

Crudas(p, deItems) ==
    LET filas == SetToSortSeq(Filas(p, deItems), LAMBDA a, b : AntesFila(p, deItems, a, b))
    IN SubSeq(filas, 1, IF Len(filas) < Limite THEN Len(filas) ELSE Limite)

\* Equal entities are one, in the order of their first row.
Entidades(crudas) ==
    FoldLeft(LAMBDA unas, f : IF f[1] \in ToSet(unas) THEN unas ELSE Append(unas, f[1]),
             <<>>, crudas)

\* de: the branch whose distance and item are shown.
\* Mutant: the entities are walked from the last.
ListaAlReves(crudas) ==
    LET e == Entidades(crudas)
    IN [n \in DOMAIN e |-> [x |-> e[Len(e) + 1 - n], item |-> crudas[n][2],
                            de |-> crudas[n][1]]]
ListaResultados(crudas) ==
    LET e == Entidades(crudas)
    IN [n \in DOMAIN e |-> [x |-> e[n], item |-> crudas[n][2], de |-> crudas[n][1]]]

--------------------
NoConsulta == [q |-> SinTexto, cat |-> 0, sub |-> 0, esp |-> 0, car |-> FALSE,
               abierto |-> FALSE, promos |-> FALSE, cerca |-> FALSE]

SinConsulta == [hecha |-> FALSE]

BuscadorInit ==
    /\ vista \in SUBSET Fichas
    /\ consulta = SinConsulta /\ resultado = <<>>

HaceBusqueda(p, deItems) ==
    /\ consulta = SinConsulta
    /\ consulta' = [hecha |-> TRUE, p |-> p, deItems |-> deItems]
    /\ resultado' = ListaResultados(Crudas(p, deItems))
    /\ UNCHANGED vista

Search        == \E p \in Consultas : HaceBusqueda(p, FALSE)
SearchByItems == \E p \in Consultas : HaceBusqueda(p, TRUE)

BuscadorNext == Search \/ SearchByItems

BuscadorTypeOK ==
    /\ vista \subseteq Fichas
    /\ consulta = SinConsulta \/ consulta \in [hecha : {TRUE}, p : Filtros, deItems : BOOLEAN]
    /\ \A n \in DOMAIN resultado : resultado[n].x \in Fichas

--------------------
Buenas == IF consulta.deItems THEN ConItem(consulta.p) ELSE Encontradas(consulta.p)
EnLista == {resultado[n].x : n \in DOMAIN resultado}
FilasDe(x) == {f \in Filas(consulta.p, consulta.deItems) : f[1] = x}

\* A search lists branches that meet its filters, each once, and all of them when the query
\* was not cut by its LIMIT; the nearest first; and what it shows beside a branch is its
\* own, as long as no branch before it had two rows (aliases of the characteristic, or
\* several items): search.service.ts:553 and 868.
ListaFiel ==
  consulta.hecha =>
    LET crudas == Cardinality(Filas(consulta.p, consulta.deItems))
    IN /\ EnLista \subseteq Buenas /\ Cardinality(EnLista) = Len(resultado)
       /\ crudas <= Limite => EnLista = Buenas
       /\ \A m, n \in DOMAIN resultado : m < n /\ consulta.p.cerca =>
             Ficha[resultado[m].x].km <= Ficha[resultado[n].x].km
       /\ \A n \in DOMAIN resultado :
             (\A m \in 1 .. n - 1 : Cardinality(FilasDe(resultado[m].x)) = 1)
                => /\ resultado[n].de = resultado[n].x
                   /\ consulta.deItems =>
                        resultado[n].item \in SusItems(resultado[n].x, consulta.p.q)
=============================================================================
