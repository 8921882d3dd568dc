------------------------------- MODULE MenuSucursal ------------------------------
(***************************************************************************)
(* The items of a business and what one of its branches does with them     *)
(* (CatalogoProductosService): the menu of the branch is the items of the  *)
(* business under its rules.  A rule is looked for and saved in two calls, *)
(* and no index keeps a branch from having two of one item.                *)
(***************************************************************************)
EXTENDS Integers, Sequences, FiniteSets

CONSTANTS Articulos,    \* the items
          Meseros,      \* the calls at work
          Precios, SinPrecio,
          MaxReglas, MaxOrdenes \* bounds: rules of an item, calls

ASSUME MenuAssumption ==
    /\ Precios \subseteq Int /\ SinPrecio \in Int \ Precios /\ MaxOrdenes \in Nat
    /\ IsFiniteSet(Meseros) /\ MaxReglas \in Nat /\ Cardinality(Meseros) <= MaxReglas

VARIABLES
    articulo,   \* items_negocio: the base price, SinPrecio when there is no item
    regla,      \* items_sucursal: the rules of the branch for each item
    mesero, ordenes,
    pedido,     \* the last rule that was saved for the item
    dobles      \* the items for which two rules were being saved at once

menuVars == <<articulo, regla, mesero, ordenes, pedido, dobles>>

--------------------
\* A price of SinPrecio is the null that stands for the base price.
ItemSucursal == [precioEspecifico : Precios \cup {SinPrecio}, disponible : BOOLEAN]
PorDefecto == [precioEspecifico |-> SinPrecio, disponible |-> TRUE]
\* visto: which of the rules the call found, 0 if none.
SinMesero == [libre |-> TRUE, fila |-> PorDefecto, visto |-> 0]

MenuTypeOK ==
    /\ articulo \in [Articulos -> Precios \cup {SinPrecio}]
    /\ \A i \in Articulos : regla[i] \in Seq(ItemSucursal) /\ Len(regla[i]) <= MaxReglas
    /\ \A m \in Meseros : mesero[m] = SinMesero \/ mesero[m] \in
           [item : Articulos, fila : ItemSucursal, visto : 0 .. MaxReglas]
    /\ ordenes \in 0 .. MaxOrdenes
    /\ pedido \in [Articulos -> ItemSucursal] /\ dobles \subseteq Articulos

MenuInit ==
    /\ articulo = [i \in Articulos |-> SinPrecio]
    /\ regla = [i \in Articulos |-> <<>>]
    /\ mesero = [m \in Meseros |-> SinMesero]
    /\ ordenes = 0 /\ pedido = [i \in Articulos |-> PorDefecto] /\ dobles = {}

--------------------
Hay(i) == articulo[i] # SinPrecio
NuevaOrden == ordenes < MaxOrdenes /\ ordenes' = ordenes + 1
SobreEl(i) == {m \in Meseros : mesero[m] # SinMesero /\ mesero[m].item = i}

CrearItem(i, precio) ==
    /\ ~Hay(i) /\ SobreEl(i) = {} /\ NuevaOrden
    /\ articulo' = [articulo EXCEPT ![i] = precio]
    /\ UNCHANGED <<regla, mesero, pedido, dobles>>
ActualizarItem(i, precio) ==
    /\ Hay(i) /\ NuevaOrden
    /\ articulo' = [articulo EXCEPT ![i] = precio]
    /\ UNCHANGED <<regla, mesero, pedido, dobles>>
\* The rules refer to the item: one that has any is not deleted, and nothing deletes them.
EliminarItem(i) ==
    /\ Hay(i) /\ regla[i] = <<>> /\ NuevaOrden
    /\ articulo' = [articulo EXCEPT ![i] = SinPrecio]
    /\ UNCHANGED <<regla, mesero, pedido, dobles>>

\* setDisponibilidad: findOne; of two rules any may be the one.
SetDisponibilidad(m, i, fila) ==
    /\ mesero[m] = SinMesero /\ Hay(i) /\ NuevaOrden
    /\ \E visto \in IF regla[i] = <<>> THEN {0} ELSE DOMAIN regla[i] :
         mesero' = [mesero EXCEPT ![m] = [item |-> i, fila |-> fila, visto |-> visto]]
    /\ dobles' = IF SobreEl(i) = {} THEN dobles ELSE dobles \cup {i}
    /\ UNCHANGED <<articulo, regla, pedido>>
\* The insert of a rule of an item that was deleted meanwhile is refused.
GuardaDisponibilidad(m) ==
    LET w == mesero[m]
        i == w.item
    IN  /\ w # SinMesero
        /\ mesero' = [mesero EXCEPT ![m] = SinMesero]
        /\ IF ~Hay(i) THEN UNCHANGED <<regla, pedido>>
           ELSE /\ regla' = [regla EXCEPT ![i] = IF w.visto = 0 THEN Append(@, w.fila)
                                                 ELSE [@ EXCEPT ![w.visto] = w.fila]]
                /\ pedido' = [pedido EXCEPT ![i] = w.fila]
        /\ UNCHANGED <<articulo, ordenes, dobles>>

MenuNext ==
    \/ \E i \in Articulos :
        \/ EliminarItem(i)
        \/ \E precio \in Precios : CrearItem(i, precio) \/ ActualizarItem(i, precio)
        \/ \E m \in Meseros, fila \in ItemSucursal : SetDisponibilidad(m, i, fila)
    \/ \E m \in Meseros : GuardaDisponibilidad(m)

MenuSpec == MenuInit /\ [][MenuNext]_menuVars

--------------------
\* Mutant: a rule whose price is 0 passes for one without a price.
PrecioSiNoEsCero(r, base) ==
    IF r.precioEspecifico \notin {SinPrecio, 0} THEN r.precioEspecifico ELSE base
PrecioFinal(r, base) == IF r.precioEspecifico # SinPrecio THEN r.precioEspecifico ELSE base

\* getMenuParaSucursal: the item and its price, by the rule that is found.
ReglasDe(i) == IF regla[i] = <<>> THEN {PorDefecto} ELSE {regla[i][k] : k \in DOMAIN regla[i]}
Menus(i) ==
    {IF Hay(i) /\ r.disponible THEN PrecioFinal(r, articulo[i]) ELSE SinPrecio :
        r \in ReglasDe(i)}

\* "EL MENU FINAL": the customer finds an item if and only if it exists and the branch did
\* not take it off, at the price the branch gave it or else at the base price of now,
\* whatever was edited in between, while no two first rules for it were saved at once.
MenuComoSePidio ==
    \A i \in Articulos \ dobles :
        Menus(i) = {IF ~Hay(i) \/ ~pedido[i].disponible THEN SinPrecio
                    ELSE IF pedido[i].precioEspecifico = SinPrecio THEN articulo[i]
                    ELSE pedido[i].precioEspecifico}
=============================================================================
