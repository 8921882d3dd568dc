------------------------------- MODULE Interprete -------------------------------
(***************************************************************************)
(* JelpyAssistantService.interpretar: a text becomes the filters of a      *)
(* search, which is widened step by step until it finds something, and     *)
(* the words that found something are learned.  A step is a call: to the   *)
(* microservice that reads the text (jelpy-ai), to the search (Buscador)   *)
(* or to keywords_taxonomia.  Any of them may fail: the text is then read  *)
(* again without the microservice (interpretarFallbackLocal).              *)
(*                                                                         *)
(* What a text says, to the microservice and to the local dictionary, is a *)
(* constant; so is the taxonomy.  A text is the word that matters in it.   *)
(***************************************************************************)
EXTENDS Buscador

CONSTANTS Textos,           \* what may be asked
          Chats,            \* the requests at work
          CategoriaDe, SubcategoriaDe,  \* of a subcategoria, of an especialidad
          MaxTextos,        \* bound: texts; at once only equal ones, the others meet nowhere
          MaxFallasTexto    \* bound: failed calls

\* meta, charla: a question of the assistant itself, small talk.  catalogo: "donde venden".
\* nombra: the microservice names a giro, ia: the ids found for it; dic: those of the local
\* dictionary, nombre: the name of what it found, alias: its word.  limpio: the text less
\* its common words, resto: less the characteristic.
Giro == [cat : Nat, sub : Nat, esp : Nat]
Texto == [dice : Palabras, limpio : Palabras, meta : BOOLEAN, charla : BOOLEAN,
          catalogo : BOOLEAN, nombra : BOOLEAN, ia : Giro, dic : Giro,
          nombre : Palabras, alias : Palabras \cup {SinTexto},
          car : {"no", "ia", "bd"}, resto : Palabras \cup {SinTexto},
          abierto : BOOLEAN, promos : BOOLEAN, cerca : BOOLEAN, ubicado : BOOLEAN,
          negocioDeSalud : BOOLEAN]

ASSUME InterpreteAssumption ==
    /\ \A m \in Textos : m \in Texto
    /\ \A m \in Textos : m.car = "no" <=> m.resto = m.dice
    /\ CategoriaDe[0] = 0 /\ SubcategoriaDe[0] = 0
    /\ MaxTextos \in Nat /\ MaxFallasTexto \in Nat

VARIABLES
    claves,        \* keywords_taxonomia: the rows, as they were inserted
    preferido,     \* the first giro of usuario_preferencias
    chat,          \* the requests at work
    textos, fallasTexto,
    aprendenJuntos \* a request looked for a word another was about to save

interpreteVars == <<claves, preferido, chat, textos, fallasTexto, aprendenJuntos>>

--------------------
Relevancia == 1 .. 15
FilaClave == [palabra : Palabras, sub : Nat, relevancia : Relevancia]
SinGiro == [cat |-> 0, sub |-> 0, esp |-> 0]

Consultan == {"catalogo", "catalogoLibre", "busca", "items", "itemsLibre", "porCategoria",
              "sinUbicacion", "otraVezItems", "otraVezLibre", "porNombre"}
Aprenden == {"aprende", "guarda", "variantes", "refuerza"}

\* via: how the text was read; f: the filters; r: what was found, de: by which call;
\* clave: the row of the word that was known, as it was read, 0: none.
SinChat == [paso |-> "idle"]
Leyendo(m, via, paso) == [paso |-> paso, via |-> via, m |-> m, f |-> NoConsulta, r |-> {},
                          de |-> "idle", clave |-> 0, relevancia |-> 1]
Atendiendo == {w \in Chats : chat[w] # SinChat}

InterpreteInit ==
    /\ claves = <<>> /\ preferido \in {SinGiro, [cat |-> 2, sub |-> 4, esp |-> 0]}
    /\ chat = [w \in Chats |-> SinChat]
    /\ textos = 0 /\ fallasTexto = 0 /\ aprendenJuntos = FALSE

O(a, b) == IF a # 0 THEN a ELSE b

Generico(q) == q \in {SinTexto, PalabraPromo}

--------------------
\* mapearFastApiAFiltros: what the microservice names; what it left open from the local
\* dictionary; then the characteristic, the promotions and the businesses of health.
MapearFiltros(m) ==
    LET sub1 == O(m.ia.sub, SubcategoriaDe[m.ia.esp])
        cat1 == O(m.ia.cat, CategoriaDe[m.ia.sub])
        esp  == O(m.ia.esp, m.dic.esp)
        sub2 == O(sub1, SubcategoriaDe[esp])
        sub  == O(sub2, m.dic.sub)
        cat  == O(cat1, O(IF sub2 = 0 THEN CategoriaDe[m.dic.sub] ELSE 0, m.dic.cat))
        local == esp # m.ia.esp \/ sub # sub2 \/ cat # cat1
        texto == IF local THEN m.nombre ELSE m.dice
        q    == IF m.car = "no" \/ (m.car = "ia" /\ m.resto = SinTexto) THEN texto
                ELSE m.resto
        solo == m.car # "no" /\ ~m.nombra
    IN [q |-> IF m.promos /\ Generico(q) THEN SinTexto ELSE q,
        cat |-> IF solo THEN 0 ELSE cat,
        sub |-> IF solo \/ m.negocioDeSalud THEN 0 ELSE sub,
        esp |-> IF solo \/ m.negocioDeSalud THEN 0 ELSE esp,
        car |-> m.car # "no", abierto |-> m.abierto, promos |-> m.promos,
        cerca |-> m.cerca /\ m.ubicado]

SinTaxonomia(f) == f.cat = 0 /\ f.sub = 0 /\ f.esp = 0

Prefiere(f) == [f EXCEPT !.cat = O(@, preferido.cat), !.sub = O(@, preferido.sub)]

\* aplicarPreferenciasUsuario: never where the text asks for something.
\* Mutant: a text without a giro is taken for one that asks for nothing.
PreferenciasSinMirarTexto(f) == IF SinTaxonomia(f) THEN Prefiere(f) ELSE f
AplicarPreferencias(f) ==
    IF f.q # SinTexto \/ f.promos \/ f.car \/ ~SinTaxonomia(f) THEN f ELSE Prefiere(f)

\* interpretarFallbackLocal, with the row k of the word if it is known.  The preferences
\* fill what is open, whatever the text asks.
FiltrosLocales(m, k) ==
    LET deClave == k.sub
        sub == O(deClave, m.dic.sub)
        cat == O(IF deClave = 0 THEN CategoriaDe[m.dic.sub] ELSE 0, m.dic.cat)
        q0  == IF m.car # "no" THEN m.resto ELSE SinTexto
        q1  == IF q0 = SinTexto /\ deClave # 0 THEN k.palabra ELSE q0
        q   == IF q1 = SinTexto THEN m.alias ELSE q1
        f   == [q |-> IF m.promos /\ Generico(q) THEN SinTexto ELSE q,
                cat |-> cat, sub |-> sub, esp |-> 0, car |-> m.car # "no",
                abierto |-> m.abierto, promos |-> m.promos, cerca |-> m.cerca /\ m.ubicado]
    IN IF m.promos /\ SinTaxonomia(f) THEN f ELSE Prefiere(f)

\* resolveQueryForSearch.
ResolverTexto(m, f) == IF f.q = SinTexto /\ ~f.car THEN m.dice ELSE f.q

\* tieneCategoriaPrecisa, tieneCategoriaClaraDeIA.
Precisa(f)  == f.sub # 0 \/ f.esp # 0
Clara(m, f) == ~SinTaxonomia(f) \/ m.nombra

--------------------
\* What each call asks for.  The items are looked for around who asks whenever the
\* application says where that is; the first filters are those of t.f.
PedidoTexto(t) == [t.f EXCEPT !.q = ResolverTexto(t.m, t.f)]
PedidoItems(t) == [PedidoTexto(t) EXCEPT !.cerca = t.m.ubicado]
PedidoCatalogo(t) == [PedidoItems(t) EXCEPT !.q = t.m.limpio]
Libre(p) == [p EXCEPT !.cat = 0, !.sub = 0]
SinUbicacion(p) == [p EXCEPT !.cerca = FALSE]

Hallados(t) ==
    CASE t.paso = "catalogo" -> ConItem(PedidoCatalogo(t))
      [] t.paso = "catalogoLibre" -> ConItem(Libre(PedidoCatalogo(t)))
      [] t.paso = "busca" -> Encontradas(PedidoTexto(t))
      [] t.paso \in {"items", "otraVezItems"} -> ConItem(PedidoItems(t))
      [] t.paso \in {"itemsLibre", "otraVezLibre"} -> ConItem(Libre(PedidoItems(t)))
      [] t.paso = "porCategoria" ->
            Encontradas([SinUbicacion(PedidoTexto(t)) EXCEPT !.sub = 0, !.esp = 0])
      [] t.paso = "sinUbicacion" -> Encontradas(SinUbicacion(PedidoTexto(t)))
      [] t.paso = "porNombre" ->
            Encontradas([NoConsulta EXCEPT !.car = t.f.car,
                             !.q = IF t.f.car THEN PedidoTexto(t).q ELSE t.m.dice])

\* What comes after a call that found nothing.
TrasBuscar(t) ==
    IF t.via = "ia" /\ t.f.sub # 0 /\ t.f.cat # 0 THEN "porCategoria" ELSE "sinUbicacion"
AlFinal(t) == IF t.via = "ia" /\ ~Clara(t.m, t.f) THEN "porNombre" ELSE "responde"

SinHallar(t) ==
    CASE t.paso = "catalogo" -> "catalogoLibre"
      [] t.paso = "catalogoLibre" -> IF Precisa(t.f) THEN "busca" ELSE "responde"
      [] t.paso = "busca" -> IF ~t.m.catalogo /\ ~t.f.car THEN "items" ELSE TrasBuscar(t)
      [] t.paso = "items" -> "itemsLibre"
      [] t.paso = "itemsLibre" -> TrasBuscar(t)
      [] t.paso = "porCategoria" -> "sinUbicacion"
      [] t.paso = "sinUbicacion" -> IF ~t.f.car THEN "otraVezItems" ELSE AlFinal(t)
      [] t.paso = "otraVezItems" -> "otraVezLibre"
      [] t.paso = "otraVezLibre" -> AlFinal(t)
      [] t.paso = "porNombre" -> "responde"

AlHallar(t) ==
    IF t.paso \in {"catalogo", "catalogoLibre"} THEN "responde"
    ELSE IF t.clave # 0 THEN "refuerza" ELSE "aprende"

\* aprenderKeyword: the subcategoria most results have, the first of those.
Cuantos(r, s) == Cardinality({x \in r : Ficha[x].sub = s})
Dominante(r) ==
    LET subs == {Ficha[x].sub : x \in r} \ {0}
    IN {s \in subs : \A u \in subs : \/ Cuantos(r, u) < Cuantos(r, s)
                                     \/ Cuantos(r, u) = Cuantos(r, s) /\ s <= u}

--------------------
PasaChat(w, t) == chat' = [chat EXCEPT ![w] = t]

\* interpretar: its own questions and small talk are answered without a search, unless
\* the text may be about the catalogue.
InterpretarTexto(w, m) ==
    /\ chat[w] = SinChat /\ textos < MaxTextos
    /\ \A v \in Atendiendo : chat[v].m = m
    /\ textos' = textos + 1
    /\ PasaChat(w, Leyendo(m, "ia",
                   IF m.meta \/ (m.charla /\ ~m.catalogo) THEN "responde" ELSE "ia"))
    /\ UNCHANGED <<buscadorVars, claves, preferido, fallasTexto, aprendenJuntos>>

Empieza(t) == IF t.m.catalogo THEN "catalogo" ELSE "busca"

ConMicroservicio(w) ==
    LET t == chat[w]
    IN /\ t.paso = "ia"
       /\ PasaChat(w, [t EXCEPT !.paso = Empieza(t), !.f = AplicarPreferencias(MapearFiltros(t.m))])
       /\ UNCHANGED <<buscadorVars, claves, preferido, textos, fallasTexto, aprendenJuntos>>

Conocidas(q) == {i \in DOMAIN claves : claves[i].palabra = q}
Mejores(q) == {i \in Conocidas(q) :
                  \A j \in Conocidas(q) : claves[j].relevancia <= claves[i].relevancia}

SinMicroservicio(w) ==
    LET t == chat[w]
        Lee(i, k) == PasaChat(w, [t EXCEPT !.paso = Empieza(t), !.f = FiltrosLocales(t.m, k),
                                !.clave = i, !.relevancia = k.relevancia])
    IN /\ t.paso = "local"
       /\ \/ \E i \in Mejores(t.m.dice) : Lee(i, claves[i])
          \/ /\ Conocidas(t.m.dice) = {}
             /\ Lee(0, [palabra |-> t.m.dice, sub |-> 0, relevancia |-> 1])
       /\ UNCHANGED <<buscadorVars, claves, preferido, textos, fallasTexto, aprendenJuntos>>

Consultar(w) ==
    LET t == chat[w]
        r == Hallados(t)
    IN /\ t.paso \in Consultan
       /\ PasaChat(w, IF r = {} THEN [t EXCEPT !.paso = SinHallar(t)]
                ELSE [t EXCEPT !.paso = AlHallar(t), !.r = r, !.de = t.paso])
       /\ UNCHANGED <<buscadorVars, claves, preferido, textos, fallasTexto, aprendenJuntos>>

\* aprenderKeyword looks for the word, saves it, and saves its misspellings, of which the
\* word itself is one.
AprenderKeyword(w) ==
    LET t == chat[w]
    IN /\ t.paso = "aprende"
       /\ PasaChat(w, [t EXCEPT !.paso = IF Conocidas(t.m.dice) # {} \/ Dominante(t.r) = {}
                                   THEN "responde" ELSE "guarda"])
       /\ aprendenJuntos' = (aprendenJuntos \/
             \E v \in Atendiendo \ {w} : chat[v].paso = "guarda" /\ chat[v].m.dice = t.m.dice)
       /\ UNCHANGED <<buscadorVars, claves, preferido, textos, fallasTexto>>

GuardaClave(w) ==
    LET t == chat[w]
        primera == t.paso = "guarda"
    IN /\ t.paso \in {"guarda", "variantes"}
       /\ \E s \in Dominante(t.r) :
             claves' = Append(claves, [palabra |-> t.m.dice, sub |-> s,
                                       relevancia |-> IF primera THEN 5 ELSE 2])
       /\ PasaChat(w, [t EXCEPT !.paso = IF primera THEN "variantes" ELSE "responde"])
       /\ UNCHANGED <<buscadorVars, preferido, textos, fallasTexto, aprendenJuntos>>

\* reforzarKeyword saves the relevance it read and one more, up to 15.
ReforzarKeyword(w) ==
    LET t == chat[w]
        una == t.relevancia + 1
    IN /\ t.paso = "refuerza"
       /\ claves' = [claves EXCEPT ![t.clave].relevancia = IF una > 15 THEN 15 ELSE una]
       /\ PasaChat(w, [t EXCEPT !.paso = "responde"])
       /\ UNCHANGED <<buscadorVars, preferido, textos, fallasTexto, aprendenJuntos>>

Responder(w) ==
    /\ chat[w].paso = "responde" /\ PasaChat(w, SinChat)
    /\ UNCHANGED <<buscadorVars, claves, preferido, textos, fallasTexto, aprendenJuntos>>

\* A call fails, a learned word included: the text is read again, and what was found is
\* forgotten; when that fails too the request ends in an error.
FallaTexto(w) ==
    LET t == chat[w]
    IN /\ t.paso \in {"ia", "local"} \cup Consultan \cup Aprenden
       /\ fallasTexto < MaxFallasTexto
       /\ fallasTexto' = fallasTexto + 1
       /\ PasaChat(w, IF t.via = "ia" THEN Leyendo(t.m, "local", "local")
                ELSE SinChat)
       /\ UNCHANGED <<buscadorVars, claves, preferido, textos, aprendenJuntos>>

InterpreteNext ==
    \/ \E w \in Chats, m \in Textos : InterpretarTexto(w, m)
    \/ \E w \in Chats :
          \/ ConMicroservicio(w) \/ SinMicroservicio(w) \/ Consultar(w)
          \/ AprenderKeyword(w) \/ GuardaClave(w) \/ ReforzarKeyword(w)
          \/ Responder(w) \/ FallaTexto(w)

InterpreteTypeOK ==
    /\ \A i \in DOMAIN claves : claves[i] \in FilaClave
    /\ preferido \in Giro
    /\ \A w \in Atendiendo : /\ chat[w].m \in Textos /\ chat[w].f \in Filtros
                        /\ chat[w].paso \in Consultan \cup Aprenden \cup
                              {"ia", "local", "responde"}
                        /\ chat[w].r \subseteq Fichas
                        /\ chat[w].clave \in 0 .. Len(claves)
                        /\ chat[w].relevancia \in Relevancia
    /\ textos \in 0 .. MaxTextos /\ fallasTexto \in 0 .. MaxFallasTexto
    /\ aprendenJuntos \in BOOLEAN

--------------------
Busco(t) == t.paso = "responde" /\ ~(t.m.meta \/ (t.m.charla /\ ~t.m.catalogo))

\* "No encontré" is not said of a branch that meets what the text asks, position aside, nor,
\* when the microservice read it, because of what the user prefers (1301-1592).
NoCallaLoQueHay(t) ==
    t.r = {} /\ (~t.m.catalogo \/ Precisa(t.f)) =>
       /\ Encontradas(SinUbicacion(PedidoTexto(t))) = {}
       /\ t.via = "ia" =>
             Encontradas(SinUbicacion(PedidoTexto([t EXCEPT !.f = MapearFiltros(t.m)]))) = {}

\* A search is widened only when what was asked for is not there, and the items of another
\* giro come only after those of the one that was asked for.
SoloAmpliaSiNoHay(t) ==
    /\ t.de \in {"porCategoria", "sinUbicacion", "items", "itemsLibre", "porNombre"} =>
          Encontradas(PedidoTexto(t)) = {}
    /\ t.de = "catalogoLibre" => ConItem(PedidoCatalogo(t)) = {}
    /\ t.de \in {"itemsLibre", "otraVezLibre"} => ConItem(PedidoItems(t)) = {}

\* No branch of another categoria, nor a closed one, comes from the search itself, and by
\* its name alone only when nobody named a giro (JLP-FALLBACK-CATEGORIA-CRUZADA-FIX).
SinCruce(t) ==
    /\ t.de \in {"busca", "porCategoria", "sinUbicacion"} =>
          \A x \in t.r : /\ t.f.cat \in {0, Ficha[x].cat}
                         /\ t.f.abierto => Ficha[x].abierta
    /\ t.de = "porNombre" => ~t.m.nombra /\ SinTaxonomia(MapearFiltros(t.m))

\* A word is learned once, except by requests that looked for it while another was about to
\* save it; its misspellings, the word among them, count less than the word (367-411).
AprendeUnaVez ==
    aprendenJuntos \/ \A i, j \in DOMAIN claves :
        i # j /\ claves[i].palabra = claves[j].palabra =>
            claves[i].relevancia < 5 \/ claves[j].relevancia < 5

\* What is answered is what was asked for, and only then something wider; and a word that
\* found something is learned once.
BusquedaHonrada ==
    /\ \A w \in Atendiendo : LET t == chat[w]
                        IN Busco(t) => NoCallaLoQueHay(t) /\ SoloAmpliaSiNoHay(t) /\ SinCruce(t)
    /\ AprendeUnaVez
=============================================================================
