---------------------------- MODULE Caracteristicas ----------------------------
(***************************************************************************)
(* A characteristic of a branch (parking, terrace), the rules that say for *)
(* which kinds of business it is meant, its aliases, and the branches that *)
(* have it: CaracteristicasSucursalService, SucursalesCaracteristicas-     *)
(* Service and CaracteristicasAliasesService.  What a branch is offered    *)
(* comes from a query; what it may take is decided again in JavaScript.    *)
(***************************************************************************)
EXTENDS Integers, FiniteSets

CONSTANTS Locaciones,        \* branches
          Manos,             \* requests
          Giros,             \* [categoria, subcategoria] of a business, 0: none
          Reglamentos,       \* the sets of rules an admin may type
          MaxAlias           \* bound: rows of an alias

Niveles == {"categoria", "subcategoria", "especialidad", "tipo_servicio", "todos"}
\* create and update leave "todos" without a reference; the other levels carry the id they
\* refer to, which no DTO checks to be one.
ASSUME CaracteristicasAssumption ==
    /\ MaxAlias \in Nat \ {0} /\ {} \in Reglamentos
    /\ \A g \in Giros : g.categoria \in Nat /\ g.subcategoria \in Nat
    /\ \A r \in UNION Reglamentos :
          r \in [nivel : Niveles, ref : Nat] /\ (r.nivel = "todos" <=> r.ref = 0)

VARIABLES
    caracteristica,    \* estado: "libre", "viva"; activo
    reglas,            \* caracteristicas_aplicabilidad
    dichas,            \* the rules as its admin was told they are kept
    aliasFilas,        \* rows of one alias
    giro, locacionesVivas, asignadas,
    mano,              \* the requests at work
    revuelto,          \* edits of the rules overlapped, or one stopped halfway
    aliasRevuelto      \* so with the alias

caracteristicasVars == <<caracteristica, reglas, dichas, aliasFilas, giro, locacionesVivas,
                         asignadas, mano, revuelto, aliasRevuelto>>
sobreReglas == <<caracteristica, reglas, dichas, revuelto>>
sobreAlias == <<aliasFilas, aliasRevuelto>>
sobreLocaciones == <<giro, locacionesVivas, asignadas>>

--------------------
Todos == [nivel |-> "todos", ref |-> 0]
SinLocacion == "ninguna"
Ausente == [estado |-> "libre", activo |-> FALSE]
Mano == [op : {"nada", "borra", "inserta", "elimina", "asigna", "alias"},
         reglas : Reglamentos \cup {{Todos}}, s : Locaciones \cup {SinLocacion}]
SinMano == [op |-> "nada", reglas |-> {}, s |-> SinLocacion]
\* The requests of an admin about the characteristic itself.
Edita(w) == mano[w].op \in {"borra", "inserta", "elimina"}
EnEdicion == {w \in Manos : Edita(w)}

CaracteristicasTypeOK ==
    /\ caracteristica \in [estado : {"libre", "viva"}, activo : BOOLEAN]
    /\ reglas \subseteq (UNION Reglamentos) \cup {Todos} /\ dichas \subseteq (UNION Reglamentos) \cup {Todos}
    /\ aliasFilas \in 0 .. MaxAlias /\ giro \in [Locaciones -> Giros]
    /\ locacionesVivas \subseteq Locaciones /\ asignadas \subseteq Locaciones
    /\ mano \in [Manos -> Mano] /\ revuelto \in BOOLEAN /\ aliasRevuelto \in BOOLEAN
    /\ caracteristica = Ausente => asignadas = {}

CaracteristicasInit ==
    /\ caracteristica = Ausente /\ reglas = {} /\ dichas = {} /\ aliasFilas = 0
    /\ giro \in [Locaciones -> Giros] /\ locacionesVivas = Locaciones /\ asignadas = {}
    /\ mano = [w \in Manos |-> SinMano] /\ revuelto = FALSE /\ aliasRevuelto = FALSE

--------------------
TomaMano(w, m) == mano[w] = SinMano /\ mano' = [mano EXCEPT ![w] = m]
Suelta(w) == mano' = [mano EXCEPT ![w] = SinMano]

\* create: the row (its codigo is unique), and then the rules, "todos" if none is given.
CreaCaracteristica(w, R) ==
    /\ caracteristica = Ausente
    /\ caracteristica' = [estado |-> "viva", activo |-> TRUE]
    /\ TomaMano(w, [SinMano EXCEPT !.op = "inserta", !.reglas = IF R = {} THEN {Todos} ELSE R])
    /\ revuelto' = (revuelto \/ EnEdicion # {})
    /\ UNCHANGED <<reglas, dichas, sobreAlias, sobreLocaciones>>

\* update: the row, then its rules are removed and written again.
EditaCaracteristica(w, R, activo) ==
    /\ caracteristica # Ausente
    /\ caracteristica' = [caracteristica EXCEPT !.activo = activo]
    /\ TomaMano(w, [SinMano EXCEPT !.op = "borra", !.reglas = R])
    /\ revuelto' = (revuelto \/ EnEdicion # {})
    /\ UNCHANGED <<reglas, dichas, sobreAlias, sobreLocaciones>>
BorraReglas(w) ==
    /\ mano[w].op = "borra" /\ reglas' = {}
    /\ mano' = [mano EXCEPT ![w].op = "inserta"]
    /\ UNCHANGED <<caracteristica, dichas, revuelto, sobreAlias, sobreLocaciones>>
InsertaReglas(w) ==
    /\ mano[w].op = "inserta" /\ Suelta(w)
    /\ reglas' = reglas \cup mano[w].reglas /\ dichas' = mano[w].reglas
    /\ UNCHANGED <<caracteristica, revuelto, sobreAlias, sobreLocaciones>>

\* remove: aliases and rules, and then the row, which takes the assignments with it.
QuitaCaracteristica(w) ==
    /\ caracteristica # Ausente /\ reglas' = {} /\ aliasFilas' = 0
    /\ TomaMano(w, [SinMano EXCEPT !.op = "elimina"])
    /\ revuelto' = (revuelto \/ EnEdicion # {})
    /\ UNCHANGED <<caracteristica, dichas, aliasRevuelto, sobreLocaciones>>
EliminaCaracteristica(w) ==
    /\ mano[w].op = "elimina" /\ Suelta(w)
    /\ caracteristica' = Ausente /\ dichas' = {} /\ asignadas' = {}
    /\ UNCHANGED <<reglas, revuelto, sobreAlias, giro, locacionesVivas>>

\* The alias: looked for, and inserted if it was not there; removed.
PideAlias(w) ==
    /\ caracteristica.activo /\ aliasFilas = 0
    /\ TomaMano(w, [SinMano EXCEPT !.op = "alias"])
    /\ aliasRevuelto' = (aliasRevuelto \/ \E v \in Manos : mano[v].op = "alias")
    /\ UNCHANGED <<aliasFilas, sobreReglas, sobreLocaciones>>
GuardaAlias(w) ==
    /\ mano[w].op = "alias" /\ Suelta(w) /\ aliasFilas < MaxAlias
    /\ aliasFilas' = aliasFilas + 1
    /\ UNCHANGED <<aliasRevuelto, sobreReglas, sobreLocaciones>>
QuitaAlias ==
    /\ aliasFilas > 0 /\ aliasFilas' = aliasFilas - 1
    /\ UNCHANGED <<aliasRevuelto, sobreReglas, sobreLocaciones, mano>>

--------------------
\* findAplicables, from findAplicablesBySucursal: the levels the business has, by query.
\* A characteristic without rules is for everyone.
Condiciones(g) ==
    {Todos} \cup (IF g.categoria # 0 THEN {[nivel |-> "categoria", ref |-> g.categoria]} ELSE {})
            \cup (IF g.subcategoria # 0 THEN {[nivel |-> "subcategoria", ref |-> g.subcategoria]} ELSE {})
Ofrece(g) == caracteristica.activo /\ (reglas = {} \/ reglas \cap Condiciones(g) # {})

\* validarAplicabilidad.  Mutant: no rules, no one.
CumpleAlguna(g, R) ==
    \E r \in R : CASE r.nivel = "todos" -> TRUE
                   [] r.nivel = "categoria" -> r.ref = g.categoria
                   [] r.nivel = "subcategoria" -> r.ref = g.subcategoria
                   [] OTHER -> FALSE
AplicaSinTodos(g, R) == CumpleAlguna(g, R)
Aplica(g, R) == R = {} \/ CumpleAlguna(g, R)
AceptaRegla(s) == s \in locacionesVivas /\ caracteristica.activo /\ Aplica(giro[s], reglas)

\* assignCaracteristica: accepted, and then saved; the pair is unique.
AsignaCaracteristica(w, s) ==
    /\ AceptaRegla(s) /\ TomaMano(w, [SinMano EXCEPT !.op = "asigna", !.s = s])
    /\ UNCHANGED <<sobreReglas, sobreAlias, sobreLocaciones>>
GuardaAsignada(w) ==
    /\ mano[w].op = "asigna" /\ Suelta(w)
    /\ asignadas' = asignadas \cup IF caracteristica = Ausente THEN {} ELSE {mano[w].s}
    /\ UNCHANGED <<giro, locacionesVivas, sobreReglas, sobreAlias>>
QuitaAsignada(s) ==
    /\ s \in asignadas /\ asignadas' = asignadas \ {s}
    /\ UNCHANGED <<giro, locacionesVivas, sobreReglas, sobreAlias, mano>>

\* A call rejects: what was removed is not put back.
FallaMano(w) ==
    /\ mano[w] # SinMano /\ Suelta(w) /\ revuelto' = (revuelto \/ Edita(w))
    /\ UNCHANGED <<caracteristica, reglas, dichas, sobreAlias, sobreLocaciones>>

\* NegociosService.actualizar, SucursalesNegociosService.eliminar.
CambiaGiro(s, g) ==
    /\ giro[s] # g /\ giro' = [giro EXCEPT ![s] = g]
    /\ UNCHANGED <<locacionesVivas, asignadas, sobreReglas, sobreAlias, mano>>
EliminaLocacion(s) ==
    /\ s \in locacionesVivas /\ locacionesVivas' = locacionesVivas \ {s}
    /\ UNCHANGED <<giro, asignadas, sobreReglas, sobreAlias, mano>>

CaracteristicasNext ==
    \/ QuitaAlias
    \/ \E s \in Locaciones : \/ QuitaAsignada(s) \/ EliminaLocacion(s)
                             \/ \E g \in Giros : CambiaGiro(s, g)
    \/ \E w \in Manos :
        \/ \E R \in Reglamentos :
             CreaCaracteristica(w, R) \/ \E a \in BOOLEAN : EditaCaracteristica(w, R, a)
        \/ \E s \in Locaciones : AsignaCaracteristica(w, s)
        \/ BorraReglas(w) \/ InsertaReglas(w) \/ QuitaCaracteristica(w)
        \/ EliminaCaracteristica(w) \/ PideAlias(w) \/ GuardaAlias(w)
        \/ GuardaAsignada(w) \/ FallaMano(w)

--------------------
\* What a live branch is offered it may take, and the other way round, at every step;
\* between edits that did not overlap, and none of which stopped halfway, both follow
\* the rules its admin was told are kept; and an alias is one row.
OfreceLoQueAcepta ==
    /\ \A s \in locacionesVivas :
         /\ Ofrece(giro[s]) <=> AceptaRegla(s)
         /\ revuelto \/ EnEdicion # {} \/ (Ofrece(giro[s]) <=>
              caracteristica.activo /\ (dichas = {} \/ CumpleAlguna(giro[s], dichas)))
    /\ aliasRevuelto \/ aliasFilas <= 1
=============================================================================
