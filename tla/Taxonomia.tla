-------------------------------- MODULE Taxonomia --------------------------------
(***************************************************************************)
(* The tree of what a business may be: categorias, subcategorias and       *)
(* especialidades (modules/catalogos).  A call reads a row and saves it    *)
(* whole; a categoria is read with its subcategorias, and saved with them: *)
(* TypeORM brings back those that left, and takes the categoria from those *)
(* that came since, which the column refuses.  A row that is gone is       *)
(* inserted again by a save.  Removal cascades in the database.            *)
(*                                                                         *)
(* Names are unique by an index: a row is its name here.  Lists and their  *)
(* cache are the pattern of CacheMemoria.                                  *)
(***************************************************************************)
EXTENDS Naturals, FiniteSets

CONSTANTS Categorias, Subcategorias, Especialidades, RaizTaxonomia,
          RamasIniciales,   \* what there may be at the start
          Curadores,        \* the calls at work
          MaxCuraciones     \* bound: calls

Ramas == Categorias \cup Subcategorias \cup Especialidades

FilaRama == [estado : {"activa", "inactiva", "borrada"},
             padre : Categorias \cup Subcategorias \cup {RaizTaxonomia}]

\* The foreign keys: a subcategoria hangs from a categoria, an especialidad from a subcategoria.
DeSuClase(x, p) ==
    /\ x \in Categorias => p = RaizTaxonomia
    /\ x \in Subcategorias => p \in Categorias
    /\ x \in Especialidades => p \in Subcategorias

ASSUME TaxonomiaAssumption ==
    /\ Categorias \cap Subcategorias = {} /\ RaizTaxonomia \notin Ramas
    /\ Especialidades \cap (Categorias \cup Subcategorias) = {}
    /\ \A f \in RamasIniciales :
          /\ DOMAIN f \subseteq Ramas /\ f \in [DOMAIN f -> FilaRama]
          /\ \A x \in DOMAIN f :
                /\ DeSuClase(x, f[x].padre)
                /\ x \notin Categorias /\ f[x].estado # "borrada" =>
                      f[x].padre \in DOMAIN f /\ f[f[x].padre].estado # "borrada"
    /\ MaxCuraciones \in Nat

VARIABLES
    rama,             \* the rows ever created
    dicha,            \* each row as the last call about it that ended well left it
    curador,          \* the calls at work
    curaciones,
    ramasEncimadas    \* rows changed while another call held them as it had read them

taxonomiaVars == <<rama, dicha, curador, curaciones, ramasEncimadas>>

--------------------
Vivas       == {x \in DOMAIN rama : rama[x].estado # "borrada"}
CuelgaDe(x) == {y \in Vivas : rama[y].padre = x}
Arriba(x)   == Vivas \cap (IF x \in Subcategorias THEN Categorias ELSE Subcategorias)

\* x: what the call is about.  queda: what it saves.  hijas: the subcategorias it read.
SinCurador == [paso |-> "idle"]
LaTiene(w, x) == curador[w] # SinCurador /\ (curador[w].x = x \/ x \in curador[w].hijas)

TaxonomiaInit ==
    /\ rama \in RamasIniciales /\ dicha = rama
    /\ curador = [w \in Curadores |-> SinCurador]
    /\ curaciones = 0 /\ ramasEncimadas = {}

ComienzaRama(w, paso, x, queda) ==
    /\ curador[w] = SinCurador /\ curaciones < MaxCuraciones
    /\ curaciones' = curaciones + 1
    /\ curador' = [curador EXCEPT ![w] = [paso |-> paso, x |-> x, queda |-> queda,
                      hijas |-> IF x \in Categorias THEN CuelgaDe(x) ELSE {}]]
    /\ UNCHANGED <<rama, dicha, ramasEncimadas>>

\* create, crear: under a parent that is active.
CrearRama(w) ==
    \E x \in Ramas, e \in {"activa", "inactiva"} :
       /\ x \notin DOMAIN rama /\ \A v \in Curadores : ~LaTiene(v, x)
       /\ \/ /\ x \in Categorias
             /\ ComienzaRama(w, "guarda", x, [estado |-> e, padre |-> RaizTaxonomia])
          \/ /\ x \notin Categorias
             /\ \E p \in Arriba(x) :
                   /\ rama[p].estado = "activa"
                   /\ ComienzaRama(w, "guarda", x, [estado |-> e, padre |-> p])

\* update, actualizar: the new parent, if one is sent, in whatever state.
ActualizarRama(w) ==
    \E x \in Vivas, e \in {"activa", "inactiva"} :
       \E p \in {rama[x].padre} \cup (IF x \in Categorias THEN {} ELSE Arriba(x)) :
             ComienzaRama(w, "guarda", x, [estado |-> e, padre |-> p])

\* softDelete, eliminar.
ApagarRama(w) ==
    \E x \in Vivas : ComienzaRama(w, "guarda", x, [rama[x] EXCEPT !.estado = "inactiva"])

\* borrarFisico, of what is inactive; hardDelete, of any categoria.
BorrarRama(w) ==
    \E x \in Vivas :
       /\ x \in Categorias \/ rama[x].estado = "inactiva"
       /\ ComienzaRama(w, "borra", x, [rama[x] EXCEPT !.estado = "borrada"])

\* Mutant: the relation is declared without nullable: false.
AdmiteNulo == TRUE
CategoriaNula == FALSE

TerminaRama(w, filas, dichas2) ==
    /\ rama' = filas /\ dicha' = dichas2
    /\ curador' = [curador EXCEPT ![w] = SinCurador]
    /\ ramasEncimadas' = ramasEncimadas \cup
          {y \in DOMAIN rama : filas[y] # rama[y] /\ \E v \in Curadores \ {w} : LaTiene(v, y)}
    /\ UNCHANGED curaciones

\* The save: of the subcategorias the categoria was read with, those that left come back;
\* those that came would be left without one.
GuardaRama(w) ==
    LET c == curador[w]
        hoy == IF c.x \in Categorias THEN CuelgaDe(c.x) ELSE {}
        vuelven == c.hijas \cap Vivas
        sueltas == hoy \ c.hijas
        puede == /\ c.queda.padre \in {RaizTaxonomia} \cup Vivas
                 /\ sueltas # {} => CategoriaNula
        Con(f, y) == IF y = c.x THEN c.queda
                     ELSE IF y \in vuelven THEN [f[y] EXCEPT !.padre = c.x]
                     ELSE IF y \in sueltas THEN [f[y] EXCEPT !.padre = RaizTaxonomia]
                     ELSE f[y]
    IN /\ c.paso = "guarda"
       /\ \/ /\ puede
             /\ TerminaRama(w, [y \in DOMAIN rama \cup {c.x} |-> Con(rama, y)],
                   [y \in DOMAIN dicha \cup {c.x} |-> IF y = c.x THEN c.queda ELSE dicha[y]])
          \/ ~puede /\ TerminaRama(w, rama, dicha)

\* ON DELETE CASCADE.
Caen(x) == LET bajo == CuelgaDe(x) IN {x} \cup bajo \cup UNION {CuelgaDe(y) : y \in bajo}

BorraRama(w) ==
    LET c == curador[w]
        caen == IF c.x \in Vivas THEN Caen(c.x) ELSE {}
        Borradas(f) == [y \in DOMAIN f |-> IF y \in caen THEN [f[y] EXCEPT !.estado = "borrada"] ELSE f[y]]
    IN /\ c.paso = "borra"
       /\ TerminaRama(w, Borradas(rama), Borradas(dicha))

TaxonomiaNext ==
    \E w \in Curadores : \/ CrearRama(w) \/ ActualizarRama(w) \/ ApagarRama(w)
                         \/ BorrarRama(w) \/ GuardaRama(w) \/ BorraRama(w)

TaxonomiaTypeOK ==
    /\ rama \in [DOMAIN rama -> FilaRama] /\ dicha \in [DOMAIN rama -> FilaRama]
    /\ \A w \in Curadores : \/ curador[w] = SinCurador
                            \/ /\ curador[w].paso \in {"guarda", "borra"}
                               /\ curador[w].x \in Ramas /\ curador[w].queda \in FilaRama
                               /\ curador[w].hijas \subseteq Subcategorias
    /\ curaciones \in 0 .. MaxCuraciones /\ ramasEncimadas \subseteq Ramas

--------------------
\* A row is where the last call about it left it, and in that state, unless that call
\* overlapped another that held it: an edit of a categoria alone moves no subcategoria
\* (categorias.service.ts:134).  And every row has the row it hangs from.
ArbolComoSeDijo ==
    /\ \A x \in DOMAIN rama \ ramasEncimadas : rama[x] = dicha[x]
    /\ \A x \in Vivas \ Categorias : rama[x].padre \in Vivas
==================================================================================
