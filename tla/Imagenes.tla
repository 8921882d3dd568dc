-------------------------------- MODULE Imagenes --------------------------------
(***************************************************************************)
(* A row that shows an image kept by Cloudinary: the logo of a business,   *)
(* the image of a promotion, the front of a branch, an item of a menu, an  *)
(* advertisement, and the gallery of a branch.  Each controller uploads,   *)
(* destroys and saves in an order of its own; a step is one call to        *)
(* Cloudinary or to the database, and any of them may be the last.         *)
(***************************************************************************)
EXTENDS Integers, Sequences

CONSTANTS PedidosImagen, MaxSubidas   \* bound: images uploaded

ASSUME ImagenesAssumption == MaxSubidas \in Nat

VARIABLES
    tipoFila,    \* the kind of row a behaviour is about
    imagenes,    \* the images its live row shows; the gallery may show several
    publicId,    \* anuncio.imagenPublicId: what an update will destroy
    filaViva,
    nube,        \* what Cloudinary keeps
    subidas,
    pedidoImagen,
    rota,        \* requests overlapped, or one stopped after it destroyed
    descartadas  \* what DELETE /ads/upload destroyed, shown or not

imagenesVars == <<tipoFila, imagenes, publicId, filaViva, nube, subidas, pedidoImagen, rota,
                  descartadas>>

--------------------
TiposFila == {"logo", "promocion", "fachada", "anuncio", "galeria"}

\* What each request does, in order.  The item of a menu is kept as a front is.
\* Mutant: the image of the gallery is destroyed before its row is removed.
CambiaLogo      == <<"lee", "sube", "destruye", "guarda">>
CambiaImagenPromo == <<"lee", "destruye", "sube", "guarda">>
CambiaFachada   == <<"sube", "guarda">>
CambiaAnuncio   == <<"sube", "lee", "guarda", "destruye">>
ReenviaAnuncio  == <<"lee", "guarda", "destruye">>     \* the same image, sent again
EditaAnuncio    == <<"lee", "guarda">>    \* the form sends back the image it read
EditaConNueva   == <<"sube", "lee", "guarda">>
Agrega          == <<"sube", "guarda">>
QuitaLogo       == <<"lee", "destruye", "borra">>
QuitaFotoAlReves == <<"lee", "destruye", "borra">>
QuitaFoto       == <<"lee", "borra", "destruye">>
Quita           == <<"borra">>

Planes(t) ==
    CASE t = "logo"      -> {CambiaLogo, QuitaLogo}
      [] t = "promocion" -> {CambiaImagenPromo, Quita}
      [] t = "fachada"   -> {CambiaFachada, Quita}
      [] t = "anuncio"   -> {CambiaAnuncio, ReenviaAnuncio, EditaAnuncio,
                              EditaConNueva, Quita}
      [] t = "galeria"   -> {Agrega, QuitaFoto}

IdsImagen == 0 .. MaxSubidas     \* 0: none
\* conId: the body of the update names the publicId of its image.
PedidoImagen == [plan : {<<>>} \cup UNION {Planes(t) : t \in TiposFila}, i : 1 .. 5,
                 vieja : IdsImagen, nueva : IdsImagen, conId : BOOLEAN]
SinPedidoImagen == [plan |-> <<>>, i |-> 1, vieja |-> 0, nueva |-> 0, conId |-> TRUE]

ImagenesTypeOK ==
    /\ tipoFila \in TiposFila /\ imagenes \subseteq 1 .. subidas /\ publicId \in IdsImagen
    /\ filaViva \in BOOLEAN /\ nube \subseteq 1 .. subidas /\ subidas \in IdsImagen
    /\ pedidoImagen \in [PedidosImagen -> PedidoImagen] /\ rota \in BOOLEAN
    /\ descartadas \subseteq 1 .. subidas

ImagenesInit ==
    /\ tipoFila \in TiposFila /\ imagenes = {} /\ publicId = 0 /\ filaViva = TRUE
    /\ nube = {} /\ subidas = 0 /\ rota = FALSE /\ descartadas = {}
    /\ pedidoImagen = [p \in PedidosImagen |-> SinPedidoImagen]

--------------------
\* What keeps the old image or sends the one that is shown needs that there is one.
DeLaMostrada == {QuitaFoto, ReenviaAnuncio, EditaAnuncio}
\* The requests that destroy what the row's publicId says.
DestruyePrevia == {CambiaAnuncio, ReenviaAnuncio}
EnObra == {p \in PedidosImagen : pedidoImagen[p] # SinPedidoImagen}
Paso(p) == LET r == pedidoImagen[p] IN IF r = SinPedidoImagen THEN "nada" ELSE r.plan[r.i]

SigueImagen(p, r) ==
    pedidoImagen' = [pedidoImagen EXCEPT ![p] =
        IF r.i = Len(r.plan) THEN SinPedidoImagen ELSE [r EXCEPT !.i = @ + 1]]
AbandonaImagen(p) == pedidoImagen' = [pedidoImagen EXCEPT ![p] = SinPedidoImagen]

PideImagen(p, plan, conId) ==
    /\ Paso(p) = "nada" /\ plan \in Planes(tipoFila) /\ filaViva
    /\ pedidoImagen' = [pedidoImagen EXCEPT ![p] = [SinPedidoImagen EXCEPT !.plan = plan, !.conId = conId]]
    /\ rota' = (rota \/ EnObra # {} \/ (~conId /\ plan \in DestruyePrevia))
    /\ UNCHANGED <<tipoFila, imagenes, publicId, filaViva, nube, subidas, descartadas>>

\* The row is looked up by its id, eliminado: false; the 404 leaves what was done.
LeeImagen(p) ==
    /\ Paso(p) = "lee"
    /\ \E v \in IF imagenes = {} THEN {0} ELSE imagenes :
         LET vieja == IF tipoFila = "anuncio" THEN publicId ELSE v IN
         IF filaViva /\ (v = 0 => pedidoImagen[p].plan \notin DeLaMostrada)
         THEN SigueImagen(p, [pedidoImagen[p] EXCEPT !.vieja = vieja,
                !.nueva = IF pedidoImagen[p].plan \in DeLaMostrada \ {QuitaFoto} THEN v ELSE @])
         ELSE AbandonaImagen(p)
    /\ UNCHANGED <<tipoFila, imagenes, publicId, filaViva, nube, subidas, rota, descartadas>>

SubeImagen(p) ==
    /\ Paso(p) = "sube" /\ subidas < MaxSubidas
    /\ subidas' = subidas + 1 /\ nube' = nube \cup {subidas'}
    /\ SigueImagen(p, [pedidoImagen[p] EXCEPT !.nueva = subidas'])
    /\ UNCHANGED <<tipoFila, imagenes, publicId, filaViva, rota, descartadas>>

\* prevPublicId !== publicId.  Mutant: the comparison is dropped.
DestruyeSiempre(r) == {r.vieja}
Destruidas(r) == {r.vieja} \ IF r.conId THEN {r.nueva} ELSE {}
\* CloudinaryService.destroy logs an error and goes on.
DestruyeImagen(p) ==
    /\ Paso(p) = "destruye"
    /\ nube' \in {nube, nube \ Destruidas(pedidoImagen[p])}
    /\ SigueImagen(p, pedidoImagen[p])
    /\ UNCHANGED <<tipoFila, imagenes, publicId, filaViva, subidas, rota, descartadas>>

\* updateAdImage and update keep the publicId of before when the body
\* has none.
GuardaImagen(p) ==
    LET r == pedidoImagen[p] IN
    /\ Paso(p) = "guarda"
    /\ IF filaViva
       THEN /\ imagenes' = {r.nueva} \cup IF tipoFila = "galeria" THEN imagenes ELSE {}
            /\ publicId' = IF r.conId THEN r.nueva ELSE publicId
            /\ SigueImagen(p, r)
       ELSE AbandonaImagen(p) /\ UNCHANGED <<imagenes, publicId>>
    /\ UNCHANGED <<tipoFila, filaViva, nube, subidas, rota, descartadas>>

BorraImagen(p) ==
    LET r == pedidoImagen[p] IN
    /\ Paso(p) = "borra"
    /\ imagenes' = imagenes \ IF tipoFila = "galeria" THEN {r.vieja} ELSE {}
    /\ filaViva' = (tipoFila = "galeria")
    /\ SigueImagen(p, r)
    /\ UNCHANGED <<tipoFila, publicId, nube, subidas, rota, descartadas>>

\* A call rejects, or the request is refused (eliminarComoOwner after the destroy).
FallaImagen(p) ==
    /\ Paso(p) # "nada"
    /\ AbandonaImagen(p)
    /\ rota' = (rota \/ \E k \in 1 .. pedidoImagen[p].i : pedidoImagen[p].plan[k] = "destruye")
    /\ UNCHANGED <<tipoFila, imagenes, publicId, filaViva, nube, subidas, descartadas>>

\* DELETE /ads/upload: an image of the folder of the business is destroyed at once,
\* whether an advertisement shows it or not.
DeleteCloudinary(k) ==
    /\ tipoFila = "anuncio" /\ k \in nube
    /\ nube' = nube \ {k} /\ descartadas' = descartadas \cup {k}
    /\ UNCHANGED <<tipoFila, imagenes, publicId, filaViva, subidas, pedidoImagen, rota>>

\* PUT /ads/:id with a publicId and no image: any one, or null.
EditaPublicId(k) ==
    /\ tipoFila = "anuncio" /\ filaViva
    /\ publicId' = k
    /\ UNCHANGED <<tipoFila, imagenes, filaViva, nube, subidas, pedidoImagen, rota, descartadas>>

ImagenesNext ==
    \/ \E k \in 1 .. subidas : DeleteCloudinary(k)
    \/ \E k \in 0 .. subidas : EditaPublicId(k)
    \/ \E p \in PedidosImagen :
        \/ \E plan \in Planes(tipoFila), conId \in BOOLEAN :
             (conId \/ tipoFila = "anuncio") /\ PideImagen(p, plan, conId)
        \/ LeeImagen(p) \/ SubeImagen(p) \/ DestruyeImagen(p)
        \/ GuardaImagen(p) \/ BorraImagen(p) \/ FallaImagen(p)

ImagenesSpec == ImagenesInit /\ [][ImagenesNext]_imagenesVars

--------------------
\* What a live row shows is kept by Cloudinary.  Of the gallery and of the front of a
\* branch, always.  Of an advertisement, at every step, unless DELETE /ads/upload named the
\* very image it shows, which nothing asks; and of a logo or a promotion, whose image is
\* destroyed before the row is saved, between requests.  The last three as long as no two
\* requests overlapped, none stopped after it destroyed, and whoever replaced the image of
\* an advertisement named the publicId of the new one.
ImagenesVivas ==
    \/ imagenes \subseteq nube \cup descartadas
    \/ ~filaViva
    \/ tipoFila \in {"logo", "promocion", "anuncio"} /\ rota
    \/ tipoFila \in {"logo", "promocion"} /\ EnObra # {}
=============================================================================
