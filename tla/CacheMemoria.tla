------------------------------ MODULE CacheMemoria ------------------------------
(***************************************************************************)
(* The in-process cache (src/src/common/cache/memory-cache.service.ts) and *)
(* what goes through it: catalogues (modules/catalogos), counts of unread  *)
(* messages, notifications and bookmarks, and the account the JWT guard    *)
(* looks up at each request.  The data of a family of keys is its version  *)
(* in the database.  get, set and del are synchronous: a step is a call to    *)
(* the database, with what runs between it and the next one.               *)
(***************************************************************************)
EXTENDS Integers, FiniteSets, Sequences, SequencesExt

CONSTANTS Claves, Clientes, NoClave,
          Familia,       \* Familia[k]: the keys that show the same data as k and
                         \* are invalidated together: one, or those of a prefix
          MaxEntries,
          Ttl,           \* in ticks of the clock
          MaxReloj,      \* bound: ticks
          MaxVersion     \* bound: writes of a family

ASSUME CacheAssumption ==
    /\ NoClave \notin Claves
    /\ Familia \in [Claves -> SUBSET Claves] /\ \A k \in Claves : k \in Familia[k]
    /\ \A k, l \in Claves : l \in Familia[k] => Familia[l] = Familia[k]
    /\ MaxEntries \in Nat \ {0} /\ Ttl \in Nat /\ MaxReloj \in Nat /\ MaxVersion \in Nat

VARIABLES
    store,       \* the Map: entries in the order of their insertion
    dato,        \* the version of each family in the database
    reloj,
    cliente,     \* the requests at work
    respuesta,   \* the last answer: key, version, and the least version expected
    anunciado,   \* the last version whose invalidation was made
    carrera,     \* keys invalidated while a load of an older version was out
    uso          \* the keys stored, by their last get or insertion

cacheVars == <<store, dato, reloj, cliente, respuesta, anunciado, carrera, uso>>

--------------------
Familias == {Familia[k] : k \in Claves}
Version == 0 .. MaxVersion
Entrada == [clave : Claves, valor : Version, vence : 0 .. MaxReloj + Ttl]
Cliente == [paso : {"idle", "carga", "guarda", "anuncia"}, clave : Claves \cup {NoClave},
            valor : Version, piso : Version]
SinCliente == [paso |-> "idle", clave |-> NoClave, valor |-> 0, piso |-> 0]

En(s, k)    == \E i \in DOMAIN s : s[i].clave = k
Entra(k)    == CHOOSE e \in ToSet(store) : e.clave = k
\* The places Q in their order, and what a sequence has there.
Puestos(Q) ==
    [j \in 1 .. Cardinality(Q) |-> CHOOSE i \in Q : Cardinality({h \in Q : h < i}) = j - 1]
Quedan(s, Q) == [j \in DOMAIN Puestos(Q) |-> s[Puestos(Q)[j]]]
Sin(s, K)    == Quedan(s, {i \in DOMAIN s : s[i].clave \notin K})
SinUso(s, K) == Quedan(s, {i \in DOMAIN s : s[i] \notin K})

\* The cache never holds more than its bound, nor two entries of a key.
CacheTypeOK ==
    /\ store \in Seq(Entrada) /\ Len(store) <= MaxEntries
    /\ \A i, j \in DOMAIN store : store[i].clave = store[j].clave => i = j
    /\ dato \in [Familias -> Version] /\ reloj \in 0 .. MaxReloj
    /\ cliente \in [Clientes -> Cliente]
    /\ respuesta \in [clave : Claves \cup {NoClave}, valor : Version, piso : Version]
    /\ anunciado \in [Familias -> Version] /\ carrera \subseteq Claves
    /\ uso \in Seq(Claves) /\ ToSet(uso) = {e.clave : e \in ToSet(store)}

CacheInit ==
    /\ store = <<>> /\ uso = <<>>
    /\ dato = [f \in Familias |-> 0] /\ anunciado = [f \in Familias |-> 0]
    /\ reloj = 0 /\ carrera = {}
    /\ cliente = [c \in Clientes |-> SinCliente]
    /\ respuesta = [clave |-> NoClave, valor |-> 0, piso |-> 0]

--------------------
Va(c, w) == cliente' = [cliente EXCEPT ![c] = w]
Ocioso(c) == cliente[c].paso = "idle"
Contesta(k, v, piso) == respuesta' = [clave |-> k, valor |-> v, piso |-> piso]

\* get: an expired entry is dropped, one that is read goes to the end.
Viva(k) == En(store, k) /\ reloj <= Entra(k).vence
\* Mutant: a get does not count as use.
NoReinserta(k) == UNCHANGED store
Reinserta(k) == store' = Append(Sin(store, {k}), Entra(k))
Acierta(c, k) ==
    /\ Ocioso(c) /\ Viva(k)
    /\ Reinserta(k)
    /\ uso' = Append(SinUso(uso, {k}), k)
    /\ Contesta(k, Entra(k).valor, anunciado[Familia[k]])
    /\ UNCHANGED <<dato, reloj, cliente, anunciado, carrera>>

\* Mutant: of a family, only the first key found is deleted.
OlvidaUna(K) ==
    LET k == IF \E e \in ToSet(store) : e.clave \in K
             THEN {SelectSeq(store, LAMBDA e : e.clave \in K)[1].clave} ELSE {}
    IN  store' = Sin(store, k) /\ uso' = SinUso(uso, k)
Olvida(K) == store' = Sin(store, K) /\ uso' = SinUso(uso, K)
Falta(c, k) ==
    /\ Ocioso(c) /\ ~Viva(k)
    /\ Olvida({k})
    /\ Va(c, [SinCliente EXCEPT !.paso = "carga", !.clave = k, !.piso = anunciado[Familia[k]]])
    /\ UNCHANGED <<dato, reloj, respuesta, anunciado, carrera>>

\* The database answers the loader.
Carga(c) ==
    /\ cliente[c].paso = "carga"
    /\ Va(c, [cliente[c] EXCEPT !.paso = "guarda", !.valor = dato[Familia[cliente[c].clave]]])
    /\ UNCHANGED <<store, dato, reloj, respuesta, anunciado, carrera, uso>>

\* set: a new key at the limit evicts the first one; a key that is there keeps its place.
\* Mutant: off by one.
LlenaTarde == Len(store) > MaxEntries
Llena == Len(store) >= MaxEntries
Pon(e) ==
    IF En(store, e.clave)
    THEN /\ store' = [i \in DOMAIN store |-> IF store[i].clave = e.clave THEN e ELSE store[i]]
         /\ UNCHANGED uso
    ELSE LET fuera == IF Llena THEN {Head(store).clave} ELSE {}
         IN  /\ store' = Append(Sin(store, fuera), e)
             /\ uso' = Append(SinUso(uso, fuera), e.clave)

Guarda(c) ==
    /\ cliente[c].paso = "guarda"
    /\ LET w == cliente[c]
       IN  /\ Pon([clave |-> w.clave, valor |-> w.valor, vence |-> reloj + Ttl])
           /\ Contesta(w.clave, w.valor, w.piso)
    /\ Va(c, SinCliente)
    /\ UNCHANGED <<dato, reloj, anunciado, carrera>>

--------------------
\* A writer saves, then invalidates: del of the key, or delByPrefix.
Escribe(c, k) ==
    /\ Ocioso(c) /\ dato[Familia[k]] < MaxVersion
    /\ dato' = [dato EXCEPT ![Familia[k]] = @ + 1]
    /\ Va(c, [SinCliente EXCEPT !.paso = "anuncia", !.clave = k, !.valor = dato[Familia[k]] + 1])
    /\ UNCHANGED <<store, reloj, respuesta, anunciado, carrera, uso>>

Tarde(k, v) == \E c \in Clientes :
    cliente[c].paso = "guarda" /\ cliente[c].clave = k /\ cliente[c].valor < v
Anuncia(c) ==
    /\ cliente[c].paso = "anuncia"
    /\ LET w == cliente[c]
       IN  /\ Olvida(Familia[w.clave])
           /\ anunciado' = [anunciado EXCEPT ![Familia[w.clave]] = IF w.valor > @ THEN w.valor ELSE @]
           /\ carrera' = carrera \cup {k \in Familia[w.clave] : Tarde(k, w.valor)}
    /\ Va(c, SinCliente)
    /\ UNCHANGED <<dato, reloj, respuesta>>

\* Writers that invalidate nothing: AdminMessagesService, AdminNotificationsService,
\* SubcategoriasService, and every write of an account.
EscribeSinAnuncio(k) ==
    /\ dato[Familia[k]] < MaxVersion /\ dato' = [dato EXCEPT ![Familia[k]] = @ + 1]
    /\ UNCHANGED <<store, reloj, cliente, respuesta, anunciado, carrera, uso>>

\* A call that rejects: nothing is stored, or nothing is invalidated.
FallaCliente(c) ==
    /\ ~Ocioso(c) /\ Va(c, SinCliente)
    /\ UNCHANGED <<store, dato, reloj, respuesta, anunciado, carrera, uso>>

Reinicio ==
    /\ store' = <<>> /\ uso' = <<>>
    /\ cliente' = [c \in Clientes |-> SinCliente]
    /\ UNCHANGED <<dato, reloj, respuesta, anunciado, carrera>>

Tic ==
    /\ reloj < MaxReloj /\ reloj' = reloj + 1
    /\ UNCHANGED <<store, dato, cliente, respuesta, anunciado, carrera, uso>>

CacheNext ==
    \/ \E c \in Clientes, k \in Claves : Acierta(c, k) \/ Falta(c, k) \/ Escribe(c, k)
    \/ \E c \in Clientes : Carga(c) \/ Guarda(c) \/ Anuncia(c) \/ FallaCliente(c)
    \/ \E k \in Claves : EscribeSinAnuncio(k)
    \/ Reinicio \/ Tic

CacheSpec == CacheInit /\ [][CacheNext]_cacheVars

--------------------
\* Whoever asks after a writer invalidated a key gets what it wrote, or something
\* newer, unless some load of the key was out while a writer invalidated it: then
\* the old version may be stored after the invalidation (wrap, 72-83).
VeLoAnunciado ==
    respuesta.clave \notin carrera => respuesta.valor >= respuesta.piso

\* A new key evicts the one that was read or inserted the longest ago, and no other.
ClavesDe(s) == {e.clave : e \in ToSet(s)}
ExpulsaLaMasAntigua ==
    [][ClavesDe(store') \ ClavesDe(store) # {} =>
         ClavesDe(store) \ ClavesDe(store') =
             IF Len(store) = MaxEntries THEN {Head(uso)} ELSE {}]_cacheVars
=============================================================================
