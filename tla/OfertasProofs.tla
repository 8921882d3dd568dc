----------------------------- MODULE OfertasProofs -----------------------------
(* Theorems about what the branches of a business offer: the promotions of *)
(* the business and of a branch, the menu and the characteristics; about   *)
(* what is counted of them (Metricas); for any number of branches, events, *)
(* requests at work at once, edits that overlap and calls that fail; and   *)
(* then about the composition of MCNegocio.                                *)
EXTENDS NegocioProofs, MCNegocio, Sumas, SequenceTheorems, FiniteSetTheorems, TLAPS

--------------------
(* PromocionesGlobales.  A request that runs alone has left the promotion  *)
(* and its links as far as its plan got; what is shown is what was said    *)
(* before it saves and when it is done.                                    *)
USE PromosGlobalesAssumption DEF PromosGlobalesAssumption

\* A request that runs alone has left the promotion and its links as far as it got.
Repartida(S) == [r \in Ramas |-> IF r \in S THEN 1 ELSE 0]
Sola(w) ==
    LET p == pedidoPromo[w] IN
    p.solo =>
        /\ PromoEnCurso = {w}
        /\ p.plan # Publica /\ p.i = 2 => promo = "viva"
        /\ p.plan # Retira /\ p.i > 2 => promo = "viva"
        /\ p.plan = Retira /\ p.i > 2 => promo = "eliminada" /\ dicha = {}
        /\ p.plan[p.i] = "inserta" => enlaces = SinEnlaces
        /\ p.plan[p.i] = "evento" /\ p.plan \in {Publica, Mueve} => enlaces = Repartida(p.ids)

\* And before it saves, or if it does not touch the links, what is shown is what was said.
SinEnredo ==
    ~enredo => /\ \A w \in PromoEnCurso : pedidoPromo[w].solo
               /\ (\A w \in PromoEnCurso : pedidoPromo[w].i <= 2 \/ pedidoPromo[w].plan = Retoca)
                     => Muestra = Repartida(dicha)

EnPlan(p) == p \in PedidoPromo /\ p.plan \in PlanesPromo /\ p.i <= Len(p.plan)
FormaPromo ==
    /\ promo \in EstadosPromo /\ enlaces \in [Ramas -> 0 .. MaxEnlaces]
    /\ ramasVivas \subseteq Ramas /\ dicha \subseteq Ramas /\ enredo \in BOOLEAN
    /\ pedidoPromo \in [PedidosPromo -> PedidoPromo]
    /\ \A w \in PromoEnCurso : EnPlan(pedidoPromo[w])
PromoInv == FormaPromo /\ SinEnredo /\ \A w \in PromoEnCurso : Sola(w)

--------------------
LEMMA PromoLargos ==
    /\ Len(Publica) = 5 /\ Len(Mueve) = 6 /\ Len(Retoca) = 3 /\ Len(Retira) = 4
    /\ Publica # Mueve /\ Publica # Retoca /\ Publica # Retira
    /\ Mueve # Retoca /\ Mueve # Retira /\ Retoca # Retira
<1>1. Len(Publica) = 5 /\ Len(Mueve) = 6 /\ Len(Retoca) = 3 /\ Len(Retira) = 4
  BY DEF Publica, Mueve, Retoca, Retira
<1> QED BY <1>1

\* What comes at each point of each plan.
LEMMA PromoPlanes ==
    ASSUME NEW p, EnPlan(p)
    PROVE  /\ p.i \in 1 .. 6 /\ p # SinPedidoPromo
           /\ p.plan \in {Publica, Mueve, Retoca, Retira}
           /\ p.plan[p.i] = "lee" <=> p.i = 1 /\ p.plan # Publica
           /\ p.plan[p.i] = "guarda" <=> p.i = 2
           /\ p.plan[p.i] = "resuelve" <=>
                (p.plan = Publica /\ p.i = 1) \/ (p.plan = Mueve /\ p.i = 3)
           /\ p.plan[p.i] = "borra" <=>
                (p.plan \in {Publica, Retira} /\ p.i = 3) \/ (p.plan = Mueve /\ p.i = 4)
           /\ p.plan[p.i] = "inserta" <=>
                (p.plan = Publica /\ p.i = 4) \/ (p.plan = Mueve /\ p.i = 5)
           /\ p.plan[p.i] = "evento" <=> p.i = Len(p.plan)
           /\ p.plan[p.i] # "evento" => p.i < Len(p.plan) /\ p.i + 1 <= Len(p.plan)
           /\ p.plan[p.i] # "nada"
           /\ (\E k \in 1 .. p.i - 1 : p.plan[k] = "guarda") <=> p.i > 2
<1>1. p.i \in 1 .. 6 /\ p.plan \in {Publica, Mueve, Retoca, Retira} /\ p.i <= Len(p.plan)
  BY DEF EnPlan, PedidoPromo, PlanesPromo
<1>2. p # SinPedidoPromo  BY <1>1 DEF SinPedidoPromo, Publica, Mueve, Retoca, Retira
<1>3. PICK i \in 1 .. 6, plan \in {Publica, Mueve, Retoca, Retira} : i = p.i /\ plan = p.plan
  BY <1>1
<1>4. CASE plan = Publica
  <2>1. /\ Len(plan) = 5 /\ plan[1] = "resuelve" /\ plan[2] = "guarda" /\ plan[3] = "borra"
        /\ plan[4] = "inserta" /\ plan[5] = "evento"
        /\ plan # Mueve /\ plan # Retoca /\ plan # Retira
    BY <1>4 DEF Publica, Mueve, Retoca, Retira
  <2> QED BY <1>1, <1>2, <1>3, <1>4, <2>1
<1>5. CASE plan = Mueve
  <2>1. /\ Len(plan) = 6 /\ plan[1] = "lee" /\ plan[2] = "guarda" /\ plan[3] = "resuelve"
        /\ plan[4] = "borra" /\ plan[5] = "inserta" /\ plan[6] = "evento"
        /\ plan # Publica /\ plan # Retoca /\ plan # Retira
    BY <1>5 DEF Publica, Mueve, Retoca, Retira
  <2> QED BY <1>1, <1>2, <1>3, <1>5, <2>1
<1>6. CASE plan = Retoca
  <2>1. /\ Len(plan) = 3 /\ plan[1] = "lee" /\ plan[2] = "guarda" /\ plan[3] = "evento"
        /\ plan # Publica /\ plan # Mueve /\ plan # Retira
    BY <1>6 DEF Publica, Mueve, Retoca, Retira
  <2> QED BY <1>1, <1>2, <1>3, <1>6, <2>1
<1>7. CASE plan = Retira
  <2>1. /\ Len(plan) = 4 /\ plan[1] = "lee" /\ plan[2] = "guarda" /\ plan[3] = "borra"
        /\ plan[4] = "evento" /\ plan # Publica /\ plan # Mueve /\ plan # Retoca
    BY <1>7 DEF Publica, Mueve, Retoca, Retira
  <2> QED BY <1>1, <1>2, <1>3, <1>7, <2>1
<1> QED BY <1>1, <1>3, <1>4, <1>5, <1>6, <1>7

\* Whoever is at a step is at work.
LEMMA PromoAlTrabajo ==
    ASSUME PromoInv, NEW w \in PedidosPromo
    PROVE  /\ PasoPromo(w) # "nada" <=> w \in PromoEnCurso
           /\ w \in PromoEnCurso => /\ PasoPromo(w) = pedidoPromo[w].plan[pedidoPromo[w].i]
                                    /\ EnPlan(pedidoPromo[w]) /\ Sola(w)
<1>1. w \in PromoEnCurso => EnPlan(pedidoPromo[w]) /\ Sola(w)  BY DEF PromoInv, FormaPromo
<1>2. w \in PromoEnCurso <=> pedidoPromo[w] # SinPedidoPromo  BY DEF PromoEnCurso
<1> QED BY <1>1, <1>2, PromoPlanes DEF PasoPromo

\* A request that goes on.
LEMMA PromoSigue ==
    ASSUME PromoInv, NEW w \in PromoEnCurso, NEW q, EnPlan(q),
           pedidoPromo' = [pedidoPromo EXCEPT ![w] = q],
           q.plan = pedidoPromo[w].plan, q.i = pedidoPromo[w].i + 1, q.solo = pedidoPromo[w].solo,
           promo' \in EstadosPromo, enlaces' \in [Ramas -> 0 .. MaxEnlaces],
           dicha' \subseteq Ramas, UNCHANGED <<ramasVivas, enredo>>,
           q.solo =>
             /\ q.plan # Publica /\ q.i = 2 => promo' = "viva"
             /\ q.plan # Retira /\ q.i > 2 => promo' = "viva"
             /\ q.plan = Retira /\ q.i > 2 => promo' = "eliminada" /\ dicha' = {}
             /\ q.plan[q.i] = "inserta" => enlaces' = SinEnlaces
             /\ q.plan[q.i] = "evento" /\ q.plan \in {Publica, Mueve} => enlaces' = Repartida(q.ids)
             /\ (q.i <= 2 \/ q.plan = Retoca) => UNCHANGED <<promo, enlaces, dicha>>
    PROVE  PromoInv'
<1>1. /\ pedidoPromo \in [PedidosPromo -> PedidoPromo] /\ w \in PedidosPromo
      /\ \A v \in PromoEnCurso : EnPlan(pedidoPromo[v]) /\ Sola(v)
      /\ pedidoPromo[w] # SinPedidoPromo
  BY DEF PromoInv, FormaPromo, PromoEnCurso
<1>2. q # SinPedidoPromo /\ q \in PedidoPromo /\ q.i \in 1 .. 6 /\ pedidoPromo[w].i \in 1 .. 6
  BY <1>1, PromoPlanes DEF EnPlan
<1>3. /\ pedidoPromo' \in [PedidosPromo -> PedidoPromo] /\ pedidoPromo'[w] = q
      /\ \A v \in PedidosPromo : v # w => pedidoPromo'[v] = pedidoPromo[v]
  BY <1>1, <1>2
<1>4. PromoEnCurso' = PromoEnCurso  BY <1>1, <1>2, <1>3 DEF PromoEnCurso
<1>5. FormaPromo'  BY <1>1, <1>3, <1>4 DEF PromoEnCurso, FormaPromo, PromoInv, EnPlan
<1>6. ASSUME NEW v \in PromoEnCurso PROVE Sola(v)'
  <2>1. CASE v # w  BY <1>1, <1>3, <1>6, <2>1 DEF Sola, PromoEnCurso
  <2>2. CASE v = w  BY <1>1, <1>4, <1>3, <2>2 DEF Sola, Repartida, SinEnlaces
  <2> QED BY <2>1, <2>2
<1>7. SinEnredo'
  <2> SUFFICES ASSUME ~enredo PROVE SinEnredo'  BY DEF SinEnredo
  <2>1. /\ \A v \in PromoEnCurso : pedidoPromo[v].solo
        /\ (\A v \in PromoEnCurso : pedidoPromo[v].i <= 2 \/ pedidoPromo[v].plan = Retoca)
              => Muestra = Repartida(dicha)
    BY DEF PromoInv, SinEnredo
  <2>2. PromoEnCurso = {w} /\ q.solo  BY <1>1, <2>1 DEF Sola
  <2>3. CASE q.i <= 2 \/ q.plan = Retoca
    <3>1. pedidoPromo[w].i <= 2 \/ pedidoPromo[w].plan = Retoca  BY <1>2, <2>3
    <3>2. UNCHANGED <<promo, enlaces, dicha>>  BY <2>2, <2>3
    <3>3. Muestra = Repartida(dicha)  BY <2>1, <2>2, <3>1
    <3>4. (Muestra = Repartida(dicha))'  BY <3>2, <3>3 DEF Muestra, Repartida, SinEnlaces
    <3> QED BY <1>3, <1>4, <2>2, <3>4 DEF SinEnredo
  <2>4. CASE ~(q.i <= 2 \/ q.plan = Retoca)  BY <1>3, <1>4, <2>2, <2>4 DEF SinEnredo
  <2> QED BY <2>3, <2>4
<1> QED BY <1>4, <1>5, <1>6, <1>7 DEF PromoInv

\* A request that ends.
LEMMA PromoAcaba ==
    ASSUME PromoInv, NEW w \in PromoEnCurso,
           pedidoPromo' = [pedidoPromo EXCEPT ![w] = SinPedidoPromo],
           UNCHANGED <<promo, enlaces, ramasVivas>>, dicha' \subseteq Ramas, enredo' \in BOOLEAN,
           ~enredo' => /\ pedidoPromo[w].solo
                       /\ Muestra = Repartida(dicha')
    PROVE  PromoInv'
<1>1. /\ pedidoPromo \in [PedidosPromo -> PedidoPromo] /\ w \in PedidosPromo
      /\ \A v \in PromoEnCurso : EnPlan(pedidoPromo[v]) /\ Sola(v)
      /\ PromoEnCurso \subseteq PedidosPromo
  BY DEF PromoInv, FormaPromo, PromoEnCurso
<1>2. SinPedidoPromo \in PedidoPromo  BY DEF SinPedidoPromo, PedidoPromo
<1>3. /\ pedidoPromo' \in [PedidosPromo -> PedidoPromo] /\ pedidoPromo'[w] = SinPedidoPromo
      /\ \A v \in PedidosPromo : v # w => pedidoPromo'[v] = pedidoPromo[v]
  BY <1>1, <1>2
<1>4. PromoEnCurso' = PromoEnCurso \ {w}  BY <1>1, <1>3 DEF PromoEnCurso
<1>5. FormaPromo'  BY <1>1, <1>3, <1>4 DEF FormaPromo, PromoInv, EnPlan
<1>6. ASSUME NEW v \in PromoEnCurso' PROVE Sola(v)'  BY <1>1, <1>3, <1>4, <1>6 DEF Sola
<1>7. SinEnredo'
  <2> SUFFICES ASSUME ~enredo' PROVE SinEnredo'  BY DEF SinEnredo
  <2>1. PromoEnCurso' = {}  BY <1>1, <1>4 DEF Sola
  <2>2. (Muestra = Repartida(dicha))'  BY DEF Muestra, Repartida, SinEnlaces
  <2> QED BY <2>1, <2>2 DEF SinEnredo
<1> QED BY <1>5, <1>6, <1>7 DEF PromoInv

\* One that stops before it saved leaves everything as it was.
LEMMA PromoDeja ==
    ASSUME PromoInv, NEW w \in PromoEnCurso, DejaPromo(w), UNCHANGED ramasVivas
    PROVE  PromoInv'
<1>1. EnPlan(pedidoPromo[w]) /\ Sola(w) /\ w \in PedidosPromo
  BY DEF PromoInv, FormaPromo, PromoEnCurso
<1>2. (\E k \in 1 .. pedidoPromo[w].i - 1 : pedidoPromo[w].plan[k] = "guarda")
        <=> pedidoPromo[w].i > 2
  BY <1>1, PromoPlanes
<1>3. /\ enredo' = (enredo \/ pedidoPromo[w].i > 2) /\ UNCHANGED <<promo, enlaces, dicha>>
      /\ pedidoPromo' = [pedidoPromo EXCEPT ![w] = SinPedidoPromo]
  BY <1>2 DEF DejaPromo
<1>4. dicha \subseteq Ramas /\ enredo \in BOOLEAN  BY DEF PromoInv, FormaPromo
<1>5. ASSUME ~enredo' PROVE pedidoPromo[w].solo /\ Muestra = Repartida(dicha)
  <2>1. ~enredo /\ ~(pedidoPromo[w].i > 2) /\ pedidoPromo[w].i \in 1 .. 6
    BY <1>1, <1>3, <1>5, PromoPlanes
  <2>2. pedidoPromo[w].solo  BY <2>1 DEF PromoInv, SinEnredo
  <2>3. PromoEnCurso = {w}  BY <1>1, <2>2 DEF Sola
  <2>4. pedidoPromo[w].i <= 2  BY <2>1
  <2> QED BY <2>1, <2>2, <2>3, <2>4 DEF PromoInv, SinEnredo
<1> QED BY <1>3, <1>4, <1>5, PromoAcaba

--------------------
LEMMA PromoInvInit == PromosGlobalesInit => PromoInv
<1> SUFFICES ASSUME PromosGlobalesInit PROVE PromoInv  OBVIOUS
<1>1. SinPedidoPromo \in PedidoPromo  BY DEF SinPedidoPromo, PedidoPromo
<1>2. PromoEnCurso = {}  BY DEF PromosGlobalesInit, PromoEnCurso
<1>3. FormaPromo
  <2>1. pedidoPromo \in [PedidosPromo -> PedidoPromo]  BY <1>1 DEF PromosGlobalesInit
  <2>2. enlaces \in [Ramas -> 0 .. MaxEnlaces]  BY DEF PromosGlobalesInit, SinEnlaces
  <2> QED BY <1>2, <2>1, <2>2 DEF PromosGlobalesInit, FormaPromo, EstadosPromo
<1>4. Muestra = Repartida(dicha)  BY DEF PromosGlobalesInit, Muestra, Repartida, SinEnlaces
<1> QED BY <1>2, <1>3, <1>4 DEF PromoInv, SinEnredo

LEMMA PromoInvElimina ==
    ASSUME PromoInv, NEW r \in Ramas, EliminaRama(r) PROVE PromoInv'
<1>1. UNCHANGED <<promo, enlaces, dicha, pedidoPromo, enredo>> /\ ramasVivas' \subseteq ramasVivas
  BY DEF EliminaRama
<1> QED BY <1>1 DEF PromoInv, FormaPromo, SinEnredo, Sola, PromoEnCurso, Muestra, Repartida,
       SinEnlaces, EnPlan

LEMMA PromoInvPide ==
    ASSUME PromoInv, NEW w \in PedidosPromo, NEW plan \in PlanesPromo, NEW todas \in BOOLEAN,
           NEW ids \in SUBSET Ramas, PidePromo(w, plan, todas, ids)
    PROVE  PromoInv'
<1> DEFINE q == [plan |-> plan, i |-> 1, todas |-> todas, ids |-> ids,
                 solo |-> PromoEnCurso = {}]
<1>1. /\ w \notin PromoEnCurso /\ UNCHANGED <<promo, enlaces, ramasVivas, dicha>>
      /\ enredo' = (enredo \/ PromoEnCurso # {})
      /\ pedidoPromo' = [v \in PedidosPromo |->
            CASE v = w -> q
              [] v \in PromoEnCurso -> [pedidoPromo[v] EXCEPT !.solo = FALSE]
              [] OTHER -> SinPedidoPromo]
  BY PromoAlTrabajo DEF PidePromo
<1>2. /\ pedidoPromo \in [PedidosPromo -> PedidoPromo] /\ enredo \in BOOLEAN
      /\ \A v \in PromoEnCurso : v \in PedidosPromo /\ EnPlan(pedidoPromo[v])
  BY DEF PromoInv, FormaPromo, PromoEnCurso
<1>3. /\ pedidoPromo'[w] = q
      /\ \A v \in PromoEnCurso : pedidoPromo'[v] = [pedidoPromo[v] EXCEPT !.solo = FALSE]
      /\ \A v \in PedidosPromo \ (PromoEnCurso \cup {w}) : pedidoPromo'[v] = SinPedidoPromo
  BY <1>1, <1>2
<1>4. q \in PedidoPromo /\ EnPlan(q) /\ q.i = 1 /\ q.plan = plan /\ q.solo = (PromoEnCurso = {})
  BY DEF PlanesPromo, Publica, Mueve, Retoca, Retira, PedidoPromo, EnPlan
<1> HIDE DEF q
<1>5. ASSUME NEW v \in PromoEnCurso
      PROVE  EnPlan([pedidoPromo[v] EXCEPT !.solo = FALSE])
             /\ ~[pedidoPromo[v] EXCEPT !.solo = FALSE].solo
  BY <1>2 DEF EnPlan, PedidoPromo
<1>6. SinPedidoPromo \in PedidoPromo /\ q # SinPedidoPromo
      /\ \A v \in PromoEnCurso : pedidoPromo'[v] # SinPedidoPromo
  <2>1. SinPedidoPromo \in PedidoPromo  BY DEF SinPedidoPromo, PedidoPromo
  <2>2. \A p : EnPlan(p) => p # SinPedidoPromo  BY PromoPlanes
  <2> QED BY <1>3, <1>4, <1>5, <2>1, <2>2
<1>7. PromoEnCurso' = PromoEnCurso \cup {w}  BY <1>2, <1>3, <1>6 DEF PromoEnCurso
<1>8. FormaPromo'  BY <1>3, <1>4, <1>5, <1>6, <1>1, <1>7, <1>2 DEF EnPlan, FormaPromo, PromoInv
<1>9. ASSUME NEW v \in PromoEnCurso' PROVE Sola(v)'
  <2>1. CASE v # w  BY <1>3, <1>5, <1>7, <1>9, <2>1 DEF Sola
  <2>2. CASE v = w
    <3>1. q.plan[q.i] \notin {"inserta", "evento"}
      BY <1>4, PromoPlanes DEF Publica, Mueve, Retoca, Retira
    <3>2. q.solo => PromoEnCurso' = {w}  BY <1>4, <1>7
    <3> QED BY <1>3, <1>4, <2>2, <3>1, <3>2 DEF Sola
  <2> QED BY <2>1, <2>2
<1>10. SinEnredo'
  <2> SUFFICES ASSUME ~enredo' PROVE SinEnredo'  BY DEF SinEnredo
  <2>1. ~enredo /\ PromoEnCurso = {}  BY <1>1, <1>2
  <2>2. Muestra = Repartida(dicha)  BY <2>1 DEF PromoInv, SinEnredo
  <2>3. (Muestra = Repartida(dicha))'  BY <1>1, <2>2 DEF Muestra, Repartida, SinEnlaces
  <2> QED BY <1>3, <1>4, <1>7, <2>1, <2>3 DEF SinEnredo
<1> QED BY <1>8, <1>9, <1>10 DEF PromoInv

LEMMA PromoAvanza ==
    ASSUME PromoInv, NEW w \in PromoEnCurso, pedidoPromo[w].i < Len(pedidoPromo[w].plan)
    PROVE  LET q == [pedidoPromo[w] EXCEPT !.i = @ + 1]
           IN  /\ EnPlan(q) /\ q.plan = pedidoPromo[w].plan /\ q.i = pedidoPromo[w].i + 1
               /\ q.solo = pedidoPromo[w].solo /\ q.ids = pedidoPromo[w].ids
<1> DEFINE p == pedidoPromo[w]
           q == [p EXCEPT !.i = @ + 1]
<1>1. EnPlan(p) /\ p.i \in 1 .. 6 /\ p.plan \in PlanesPromo
  BY PromoPlanes DEF PromoInv, FormaPromo, EnPlan
<1>2. p \in PedidoPromo  BY <1>1 DEF EnPlan
<1>3. /\ q.plan = p.plan /\ q.i = p.i + 1 /\ q.solo = p.solo /\ q.ids = p.ids
  BY <1>2 DEF PedidoPromo
<1>4. PICK n \in 0 .. 6, i \in 1 .. 6 : n = Len(p.plan) /\ i = p.i
  BY <1>1, PromoLargos DEF PlanesPromo
<1>5. p.i + 1 \in 1 .. 6 /\ p.i + 1 <= Len(p.plan)
  <2>1. i < n  BY <1>4
  <2>2. i + 1 \in 1 .. 6 /\ i + 1 <= n  BY <2>1
  <2> QED BY <1>4, <2>2
<1>6. q \in PedidoPromo  BY <1>2, <1>5 DEF PedidoPromo
<1> QED BY <1>1, <1>3, <1>5, <1>6 DEF EnPlan

LEMMA PromoInvLee ==
    ASSUME PromoInv, NEW w \in PedidosPromo, LeePromo(w) PROVE PromoInv'
<1> DEFINE p == pedidoPromo[w]
           q == [p EXCEPT !.i = @ + 1]
<1>1. w \in PromoEnCurso /\ p.plan[p.i] = "lee" /\ EnPlan(p)  BY PromoAlTrabajo DEF LeePromo
<1>2. p.i = 1 /\ p.plan \in {Mueve, Retoca, Retira} /\ p.plan # Publica  BY <1>1, PromoPlanes
<1>3. CASE promo = "viva"
  <2>1. pedidoPromo' = [pedidoPromo EXCEPT ![w] = q]
        /\ UNCHANGED <<promo, enlaces, ramasVivas, dicha, enredo>>
    BY <1>3 DEF LeePromo, SiguePromo
  <2>2. p.i < Len(p.plan)  BY <1>1, PromoPlanes
  <2>3. /\ EnPlan(q) /\ q.plan = p.plan /\ q.i = 2 /\ q.i = p.i + 1
        /\ q.solo = p.solo /\ q.ids = p.ids
    BY <1>1, <1>2, <2>2, PromoAvanza
  <2> HIDE DEF q
  <2>4. q.plan[q.i] \notin {"inserta", "evento"}  BY <2>3, PromoPlanes
  <2>5. promo \in EstadosPromo /\ enlaces \in [Ramas -> 0 .. MaxEnlaces] /\ dicha \subseteq Ramas
    BY DEF PromoInv, FormaPromo
  <2>6. q.i <= 2 /\ ~(q.i > 2)  BY <2>3
  <2> QED BY <1>1, <1>3, <2>1, <2>3, <2>4, <2>5, <2>6, PromoSigue
<1>4. CASE promo # "viva"  BY <1>1, <1>4, PromoDeja DEF LeePromo
<1> QED BY <1>3, <1>4

LEMMA PromoInvGuarda ==
    ASSUME PromoInv, NEW w \in PedidosPromo, GuardaPromo(w) PROVE PromoInv'
<1> DEFINE p == pedidoPromo[w]
           q == [p EXCEPT !.i = @ + 1]
<1>1. w \in PromoEnCurso /\ p.plan[p.i] = "guarda" /\ EnPlan(p) /\ Sola(w)
  BY PromoAlTrabajo DEF GuardaPromo
<1>2. p.i = 2 /\ p.plan \in {Publica, Mueve, Retoca, Retira}  BY <1>1, PromoPlanes
<1>3. /\ promo' = IF p.plan = Retira THEN "eliminada" ELSE "viva"
      /\ dicha' = IF p.plan = Retira THEN {} ELSE dicha
      /\ pedidoPromo' = [pedidoPromo EXCEPT ![w] = q]
      /\ UNCHANGED <<enlaces, ramasVivas, enredo>>
  BY DEF GuardaPromo, SiguePromo
<1>4. p.i < Len(p.plan)  BY <1>1, PromoPlanes
<1>5. /\ EnPlan(q) /\ q.plan = p.plan /\ q.i = 3 /\ q.i = p.i + 1
      /\ q.solo = p.solo /\ q.ids = p.ids
  BY <1>1, <1>2, <1>4, PromoAvanza
<1> HIDE DEF q
<1>6. q.plan[q.i] # "inserta" /\ (q.plan[q.i] = "evento" => q.plan \notin {Publica, Mueve})
  BY <1>5, PromoPlanes DEF Publica, Mueve
<1>7. /\ promo' \in EstadosPromo /\ enlaces' \in [Ramas -> 0 .. MaxEnlaces] /\ dicha' \subseteq Ramas
  BY <1>3 DEF PromoInv, FormaPromo, EstadosPromo
<1>8. Retoca # Retira /\ Retoca # Publica  BY DEF Retoca, Retira, Publica
<1>9. q.solo /\ q.plan = Retoca => UNCHANGED <<promo, enlaces, dicha>>
  BY <1>1, <1>2, <1>3, <1>5, <1>8 DEF Sola
<1>10. ~(q.i <= 2) /\ q.i # 2 /\ q.i > 2  BY <1>5
<1>11. /\ q.plan # Retira => promo' = "viva"
       /\ q.plan = Retira => promo' = "eliminada" /\ dicha' = {}
  BY <1>3, <1>5
<1> QED BY <1>1, <1>3, <1>5, <1>6, <1>7, <1>9, <1>10, <1>11, PromoSigue

LEMMA PromoInvResuelve ==
    ASSUME PromoInv, NEW w \in PedidosPromo, ResuelvePromo(w) PROVE PromoInv'
<1> DEFINE p == pedidoPromo[w]
           ids == IF p.todas THEN ramasVivas ELSE p.ids
           r == [p EXCEPT !.ids = ids, !.todas = FALSE]
           q == [r EXCEPT !.i = @ + 1]
<1>1. w \in PromoEnCurso /\ p.plan[p.i] = "resuelve" /\ EnPlan(p) /\ Sola(w)
  BY PromoAlTrabajo DEF ResuelvePromo
<1>2. (p.i = 1 /\ p.plan = Publica) \/ (p.i = 3 /\ p.plan = Mueve)  BY <1>1, PromoPlanes
<1>3. CASE ids # {} /\ ids \subseteq ramasVivas
  <2>1. pedidoPromo' = [pedidoPromo EXCEPT ![w] = q]
        /\ UNCHANGED <<promo, enlaces, ramasVivas, dicha, enredo>>
    BY <1>3 DEF ResuelvePromo, SiguePromo
  <2>2. p \in PedidoPromo /\ ids \in SUBSET Ramas /\ p.i + 1 \in 1 .. 6
    BY <1>1, <1>2, <1>3 DEF EnPlan, PromoInv, FormaPromo
  <2> HIDE DEF ids
  <2>3. /\ q.plan = p.plan /\ q.i = p.i + 1 /\ q.solo = p.solo  BY <2>2 DEF PedidoPromo
  <2>4. q \in PedidoPromo  BY <2>2 DEF PedidoPromo
  <2> HIDE DEF q
  <2>5. EnPlan(q)
    <3>1. p.i + 1 <= Len(p.plan)  BY <1>1, PromoPlanes
    <3> QED BY <1>1, <2>3, <2>4, <3>1 DEF EnPlan
  <2>6. q.plan[q.i] \notin {"inserta", "evento"} /\ q.plan \notin {Retoca, Retira}
    <3>1. Len(Publica) = 5 /\ Len(Mueve) = 6  BY DEF Publica, Mueve
    <3>2. Publica # Mueve /\ Publica \notin {Retoca, Retira} /\ Mueve \notin {Retoca, Retira}
      BY PromoLargos
    <3>3. q.plan[q.i] = "evento" <=> q.i = Len(q.plan)  BY <2>5, PromoPlanes
    <3>4. q.plan[q.i] = "inserta" <=> (q.plan = Publica /\ q.i = 4) \/ (q.plan = Mueve /\ q.i = 5)
      BY <2>5, PromoPlanes
    <3>5. (q.i = 2 /\ q.plan = Publica) \/ (q.i = 4 /\ q.plan = Mueve)  BY <1>2, <2>3
    <3>6. CASE q.plan = Publica  BY <3>1, <3>2, <3>5, <3>6, <3>3, <3>4
    <3>7. CASE q.plan = Mueve  BY <3>1, <3>2, <3>5, <3>7, <3>3, <3>4
    <3> QED BY <3>5, <3>6, <3>7
  <2>7. promo \in EstadosPromo /\ enlaces \in [Ramas -> 0 .. MaxEnlaces] /\ dicha \subseteq Ramas
    BY DEF PromoInv, FormaPromo
  <2>8. q.solo /\ q.i > 2 => promo = "viva"
    <3>1. Mueve # Retira  BY DEF Mueve, Retira
    <3> QED BY <1>1, <1>2, <2>3, <3>1 DEF Sola
  <2>9. q.i = 2 => q.plan = Publica  BY <1>2, <2>3
  <2> QED BY <1>1, <2>1, <2>3, <2>5, <2>6, <2>7, <2>8, <2>9, PromoSigue
<1>4. CASE ~(ids # {} /\ ids \subseteq ramasVivas)  BY <1>1, <1>4, PromoDeja DEF ResuelvePromo
<1> QED BY <1>3, <1>4

LEMMA PromoInvBorra ==
    ASSUME PromoInv, NEW w \in PedidosPromo, BorraEnlaces(w) PROVE PromoInv'
<1> DEFINE p == pedidoPromo[w]
           q == [p EXCEPT !.i = @ + 1]
<1>1. w \in PromoEnCurso /\ p.plan[p.i] = "borra" /\ EnPlan(p) /\ Sola(w)
  BY PromoAlTrabajo DEF BorraEnlaces
<1>2. (p.i = 3 /\ p.plan \in {Publica, Retira}) \/ (p.i = 4 /\ p.plan = Mueve)  BY <1>1, PromoPlanes
<1>3. /\ enlaces' = SinEnlaces /\ pedidoPromo' = [pedidoPromo EXCEPT ![w] = q]
      /\ UNCHANGED <<promo, ramasVivas, dicha, enredo>>
  BY DEF BorraEnlaces, SiguePromo, Limpia
<1>4. p.i < Len(p.plan)  BY <1>1, PromoPlanes
<1>5. /\ EnPlan(q) /\ q.plan = p.plan /\ q.i = p.i + 1 /\ q.solo = p.solo /\ q.i > 2 /\ p.i > 2
  BY <1>1, <1>2, <1>4, PromoAvanza
<1> HIDE DEF q
<1>6. q.plan # Retoca /\ (q.plan[q.i] = "evento" => q.plan \notin {Publica, Mueve})
  BY <1>2, <1>5, PromoPlanes DEF Publica, Mueve, Retoca, Retira
<1>7. promo \in EstadosPromo /\ enlaces' \in [Ramas -> 0 .. MaxEnlaces] /\ dicha \subseteq Ramas
  BY <1>3 DEF PromoInv, FormaPromo, SinEnlaces
<1>8. q.solo => /\ q.plan # Retira => promo = "viva"
                /\ q.plan = Retira => promo = "eliminada" /\ dicha = {}
  BY <1>1, <1>5 DEF Sola
<1>9. ~(q.i <= 2) /\ q.i # 2  BY <1>2, <1>5
<1> QED BY <1>1, <1>3, <1>5, <1>6, <1>7, <1>8, <1>9, PromoSigue

LEMMA PromoInvInserta ==
    ASSUME PromoInv, NEW w \in PedidosPromo, InsertaEnlaces(w) PROVE PromoInv'
<1> DEFINE p == pedidoPromo[w]
           q == [p EXCEPT !.i = @ + 1]
<1>1. w \in PromoEnCurso /\ p.plan[p.i] = "inserta" /\ EnPlan(p) /\ Sola(w)
  BY PromoAlTrabajo DEF InsertaEnlaces
<1>2. (p.i = 4 /\ p.plan = Publica) \/ (p.i = 5 /\ p.plan = Mueve)  BY <1>1, PromoPlanes
<1>3. /\ enlaces' = [r \in Ramas |-> enlaces[r] + IF r \in p.ids THEN 1 ELSE 0]
      /\ \A r \in p.ids : enlaces[r] < MaxEnlaces
      /\ pedidoPromo' = [pedidoPromo EXCEPT ![w] = q]
      /\ UNCHANGED <<promo, ramasVivas, dicha, enredo>>
  BY DEF InsertaEnlaces, SiguePromo
<1>4. p.i < Len(p.plan)  BY <1>1, PromoPlanes
<1>5. /\ EnPlan(q) /\ q.plan = p.plan /\ q.i = p.i + 1 /\ q.solo = p.solo /\ q.ids = p.ids
  BY <1>1, <1>2, <1>4, PromoAvanza
<1> HIDE DEF q
<1>6. q.plan[q.i] # "inserta" /\ q.plan \notin {Retoca, Retira} /\ q.i > 2 /\ p.i > 2
  <2>1. Publica # Mueve /\ Publica \notin {Retoca, Retira} /\ Mueve \notin {Retoca, Retira}
    BY PromoLargos
  <2>2. (q.i = 5 /\ q.plan = Publica) \/ (q.i = 6 /\ q.plan = Mueve)  BY <1>2, <1>5
  <2>3. q.plan[q.i] = "inserta" <=> (q.plan = Publica /\ q.i = 4) \/ (q.plan = Mueve /\ q.i = 5)
    BY <1>5, PromoPlanes
  <2>4. CASE q.plan = Publica  BY <1>2, <1>5, <2>1, <2>2, <2>4, <2>3
  <2>5. CASE q.plan = Mueve  BY <1>2, <1>5, <2>1, <2>2, <2>5, <2>3
  <2> QED BY <2>2, <2>4, <2>5
<1>7. promo \in EstadosPromo /\ enlaces' \in [Ramas -> 0 .. MaxEnlaces] /\ dicha \subseteq Ramas
  <2>1. enlaces \in [Ramas -> 0 .. MaxEnlaces] /\ promo \in EstadosPromo /\ dicha \subseteq Ramas
    BY DEF PromoInv, FormaPromo
  <2>2. ASSUME NEW r \in Ramas
        PROVE  enlaces[r] + (IF r \in p.ids THEN 1 ELSE 0) \in 0 .. MaxEnlaces
    <3>1. PICK n \in 0 .. MaxEnlaces : n = enlaces[r]  BY <2>1
    <3> QED BY <1>3, <3>1
  <2> QED BY <1>3, <2>1, <2>2
<1>8. q.solo => promo = "viva" /\ enlaces' = Repartida(q.ids)
  BY <1>1, <1>3, <1>5, <1>6 DEF Sola, Repartida, SinEnlaces
<1>9. ~(q.i <= 2) /\ q.i # 2  BY <1>2, <1>5
<1> QED BY <1>1, <1>3, <1>5, <1>6, <1>7, <1>8, <1>9, PromoSigue

LEMMA PromoInvAnuncia ==
    ASSUME PromoInv, NEW w \in PedidosPromo, AnunciaPromo(w) PROVE PromoInv'
<1> DEFINE p == pedidoPromo[w]
<1>1. w \in PromoEnCurso /\ p.plan[p.i] = "evento" /\ EnPlan(p) /\ Sola(w)
  BY PromoAlTrabajo DEF AnunciaPromo
<1>2. /\ dicha' = IF p.plan \in {Publica, Mueve} THEN p.ids ELSE dicha
      /\ enredo' = (enredo /\ ~(p.solo /\ p.plan # Retoca))
      /\ pedidoPromo' = [pedidoPromo EXCEPT ![w] = SinPedidoPromo]
      /\ UNCHANGED <<promo, enlaces, ramasVivas>>
  BY DEF AnunciaPromo
<1>3. p.plan \in {Publica, Mueve, Retoca, Retira} /\ p.i > 2
  BY <1>1, PromoPlanes DEF Publica, Mueve, Retoca, Retira
<1>4. enredo \in BOOLEAN /\ dicha \subseteq Ramas /\ p.ids \subseteq Ramas
  BY <1>1 DEF PromoInv, FormaPromo, EnPlan, PedidoPromo
<1>5. ASSUME ~enredo' PROVE p.solo /\ Muestra = Repartida(dicha')
  <2>1. p.solo  BY <1>1, <1>2, <1>5 DEF PromoInv, SinEnredo
  <2>2. Retira \notin {Publica, Mueve, Retoca} /\ Retoca \notin {Publica, Mueve}
    BY DEF Publica, Mueve, Retoca, Retira
  <2>3. CASE p.plan \in {Publica, Mueve}  BY <1>1, <1>2, <1>3, <2>1, <2>2, <2>3 DEF Sola, Muestra
  <2>4. CASE p.plan = Retira
    BY <1>1, <1>2, <1>3, <2>1, <2>2, <2>4 DEF Sola, Muestra, Repartida, SinEnlaces
  <2>5. CASE p.plan = Retoca  BY <1>2, <1>5, <2>2, <2>5, <1>1, <2>1 DEF Sola, PromoInv, SinEnredo
  <2> QED BY <1>3, <2>3, <2>4, <2>5
<1>6. dicha' \subseteq Ramas /\ enredo' \in BOOLEAN  BY <1>2, <1>4
<1> QED BY <1>1, <1>2, <1>5, <1>6, PromoAcaba

LEMMA PromoInvNext ==
    ASSUME PromoInv, [PromosGlobalesNext]_promosGlobalesVars PROVE PromoInv'
<1>1. CASE UNCHANGED promosGlobalesVars
  BY <1>1 DEF promosGlobalesVars, PromoInv, FormaPromo, SinEnredo, Sola, PromoEnCurso, Muestra,
     Repartida, SinEnlaces, EnPlan
<1>2. CASE \E r \in Ramas : EliminaRama(r)  BY <1>2, PromoInvElimina
<1>3. ASSUME NEW w \in PedidosPromo, NEW plan \in PlanesPromo, NEW todas \in BOOLEAN,
             NEW ids \in SUBSET Ramas, PidePromo(w, plan, todas, ids)
      PROVE  PromoInv'
  BY <1>3, PromoInvPide
<1>4. ASSUME NEW w \in PedidosPromo,
             \/ LeePromo(w) \/ GuardaPromo(w) \/ ResuelvePromo(w) \/ BorraEnlaces(w)
             \/ InsertaEnlaces(w) \/ AnunciaPromo(w)
      PROVE  PromoInv'
  BY <1>4, PromoInvLee, PromoInvGuarda, PromoInvResuelve, PromoInvBorra, PromoInvInserta,
     PromoInvAnuncia
<1>5. ASSUME NEW w \in PedidosPromo, FallaPromo(w) PROVE PromoInv'
  BY <1>5, PromoAlTrabajo, PromoDeja DEF FallaPromo
<1> QED BY <1>1, <1>2, <1>3, <1>4, <1>5 DEF PromosGlobalesNext

LEMMA PromoInvSiempre ==
    PromosGlobalesInit /\ [][PromosGlobalesNext]_promosGlobalesVars => []PromoInv
<1>1. PromoInv /\ [PromosGlobalesNext]_promosGlobalesVars => PromoInv'  BY PromoInvNext
<1> QED BY <1>1, PromoInvInit, PTL

\* Whatever overlapped, was refused or failed before, once a request that writes the links
\* has run alone to its end the promotion shows where PromocionesNegocioService said.
THEOREM PromoDondeSeDijoSiempre ==
    PromosGlobalesInit /\ [][PromosGlobalesNext]_promosGlobalesVars => []PromoDondeSeDijo
<1>1. PromoInv => PromoDondeSeDijo  BY DEF PromoInv, SinEnredo, PromoDondeSeDijo, Repartida
<1> QED BY <1>1, PromoInvSiempre, PTL

HIDE PromosGlobalesAssumption

--------------------
(* PromocionesSucursal.  A deleted promotion stays so unless two requests  *)
(* held it at once, and the lists and the summary read the same rows.      *)
USE PromosSucursalAssumption DEF PromosSucursalAssumption

\* A row is of a kind the service writes.
FilaOferta(f) ==
    /\ f \in Oferta
    /\ f.estado = "libre" => f = Plano
    /\ f.estado = "eliminada" => ~f.activa

\* A branch whose row is to be saved has no promotion deleted, unless two requests held it.
FormaOfertas ==
    /\ oferta \in [Plazas -> Oferta] /\ \A s \in Plazas : FilaOferta(oferta[s])
    /\ plazasVivas \subseteq Plazas /\ fechaActual \in 0 .. MaxFecha
    /\ tramite \in [Tramites -> Tramite]
    /\ \A w \in Tramites : tramite[w].faltan # {} =>
          FilaOferta(tramite[w].fila) /\ tramite[w].fila.estado # "libre"
    /\ cruzadas \subseteq Plazas /\ retiradas \subseteq Plazas
Retiradas ==
    /\ \A s \in retiradas \ cruzadas : oferta[s].estado = "eliminada"
    /\ \A w \in Tramites : \A s \in tramite[w].faltan \ cruzadas :
          /\ s \notin retiradas
          /\ \A v \in Tramites : s \in tramite[v].faltan => v = w
OfertasInv == FormaOfertas /\ Retiradas

LEMMA PlanoEsFila == Plano \in Oferta /\ FilaOferta(Plano) /\ Plano.estado = "libre"
<1>1. (CHOOSE v \in Vigencias : TRUE) \in Vigencias  BY PromosSucursalAssumption
<1> QED BY <1>1 DEF Plano, FilaOferta, Oferta, EstadosOferta

LEMMA SinTramiteForma == SinTramite \in Tramite /\ SinTramite.faltan = {}
  BY PlanoEsFila DEF SinTramite, Tramite

LEMMA OfertasInvInit == PromosSucursalInit => OfertasInv
  BY PlanoEsFila, SinTramiteForma DEF PromosSucursalInit, OfertasInv, FormaOfertas, Retiradas

LEMMA OfertaInvTramita ==
    ASSUME OfertasInv, NEW w \in Tramites, NEW S \in SUBSET Plazas, NEW f, FilaOferta(f),
           f.estado # "libre", Tramita(w, S, f),
           \A s \in S : oferta[s].estado # "eliminada"
    PROVE  OfertasInv'
<1> DEFINE t == [faltan |-> S, fila |-> f]
<1>1. /\ tramite[w] = SinTramite /\ tramite' = [tramite EXCEPT ![w] = t]
      /\ cruzadas' = cruzadas \cup (S \cap EnTramites)
      /\ UNCHANGED <<oferta, plazasVivas, fechaActual, retiradas>>
  BY DEF Tramita
<1>2. t \in Tramite /\ t.faltan = S /\ t.fila = f  BY DEF Tramite, FilaOferta
<1>3. tramite \in [Tramites -> Tramite] /\ tramite[w].faltan = {}
  BY <1>1, SinTramiteForma DEF OfertasInv, FormaOfertas
<1> HIDE DEF t
<1>4. /\ tramite' \in [Tramites -> Tramite] /\ tramite'[w] = t
      /\ \A v \in Tramites : v # w => tramite'[v] = tramite[v]
  BY <1>1, <1>2, <1>3
<1>5. FormaOfertas'  BY <1>2, <1>4, <1>1 DEF OfertasInv, FormaOfertas
<1>6. Retiradas'  BY <1>1, <1>2, <1>4 DEF OfertasInv, Retiradas, EnTramites
<1> QED BY <1>5, <1>6 DEF OfertasInv

LEMMA OfertaInvCrea ==
    ASSUME OfertasInv, NEW w \in Tramites, NEW ancla \in Plazas, NEW todas \in BOOLEAN,
           NEW ids \in SUBSET Plazas, NEW v \in Vigencias, NEW activa \in BOOLEAN,
           CreaOferta(w, ancla, todas, ids, v, activa)
    PROVE  OfertasInv'
<1> DEFINE S == Destinos(ancla, todas, ids)
           f == [estado |-> "viva", activa |-> activa, vigencia |-> v]
<1>1. S \in SUBSET Plazas  BY DEF Destinos, OfertasInv, FormaOfertas
<1>2. FilaOferta(f) /\ f.estado = "viva"  BY DEF FilaOferta, Oferta, EstadosOferta
<1>3. Tramita(w, S, f) /\ \A s \in S : oferta[s] = Plano  BY DEF CreaOferta
<1>4. \A s \in S : oferta[s].estado # "eliminada"  BY <1>3, PlanoEsFila
<1> HIDE DEF S, f
<1> QED BY <1>1, <1>2, <1>3, <1>4, OfertaInvTramita

LEMMA OfertaInvCambia ==
    ASSUME OfertasInv, NEW w \in Tramites, NEW s \in Plazas, NEW v \in Vigencias,
           NEW activa \in BOOLEAN, CambiaOferta(w, s, v, activa)
    PROVE  OfertasInv'
<1> DEFINE f == [oferta[s] EXCEPT !.vigencia = v, !.activa = activa]
<1>1. oferta[s].estado = "viva" /\ Tramita(w, {s}, f) /\ oferta[s] \in Oferta
  BY DEF CambiaOferta, OfertasInv, FormaOfertas
<1>2. f \in Oferta  BY <1>1 DEF Oferta
<1>3. f.estado = "viva"  BY <1>1 DEF Oferta
<1> HIDE DEF f
<1>4. FilaOferta(f)  BY <1>2, <1>3 DEF FilaOferta
<1> QED BY <1>1, <1>3, <1>4, OfertaInvTramita

LEMMA OfertaInvRetira ==
    ASSUME OfertasInv, NEW w \in Tramites, NEW s \in Plazas, RetiraOferta(w, s)
    PROVE  OfertasInv'
<1> DEFINE f == Eliminada(oferta[s])
<1>1. oferta[s].estado = "viva" /\ Tramita(w, {s}, f) /\ oferta[s] \in Oferta
  BY DEF RetiraOferta, OfertasInv, FormaOfertas
<1>2. f \in Oferta  BY <1>1 DEF Oferta, Eliminada, EstadosOferta
<1>3. f.estado = "eliminada" /\ ~f.activa  BY <1>1 DEF Oferta, Eliminada
<1> HIDE DEF f
<1>4. FilaOferta(f)  BY <1>2, <1>3 DEF FilaOferta
<1> QED BY <1>1, <1>3, <1>4, OfertaInvTramita

\* A request saves a row, or stops: its branches are fewer.
LEMMA OfertaInvGuarda ==
    ASSUME OfertasInv, NEW w \in Tramites, NEW s \in Plazas, GuardaOferta(w, s)
    PROVE  OfertasInv'
<1> DEFINE t == IF tramite[w].faltan = {s} THEN SinTramite
                ELSE [tramite[w] EXCEPT !.faltan = @ \ {s}]
<1>0. PICK f : f = tramite[w].fila  OBVIOUS
<1>1. /\ s \in tramite[w].faltan /\ oferta' = [oferta EXCEPT ![s] = f]
      /\ retiradas' = retiradas \cup IF f.estado = "eliminada" THEN {s} ELSE {}
      /\ tramite' = [tramite EXCEPT ![w] = t]
      /\ UNCHANGED <<plazasVivas, fechaActual, cruzadas>>
  BY <1>0 DEF GuardaOferta
<1>2. /\ tramite \in [Tramites -> Tramite] /\ oferta \in [Plazas -> Oferta]
      /\ FilaOferta(f) /\ f.estado # "libre" /\ f \in Oferta
  BY <1>0, <1>1 DEF OfertasInv, FormaOfertas, FilaOferta
<1>3. /\ t \in Tramite /\ t.faltan = tramite[w].faltan \ {s}
      /\ t.faltan # {} => t.fila = f
  <2>1. tramite[w] \in Tramite  BY <1>2
  <2>2. CASE tramite[w].faltan = {s}  BY <2>2, SinTramiteForma
  <2>3. CASE tramite[w].faltan # {s}  BY <1>0, <2>1, <2>3 DEF Tramite
  <2> QED BY <2>2, <2>3
<1> HIDE DEF t
<1>4. /\ tramite' \in [Tramites -> Tramite] /\ tramite'[w] = t
      /\ \A v \in Tramites : v # w => tramite'[v] = tramite[v]
      /\ oferta' \in [Plazas -> Oferta] /\ oferta'[s] = f
      /\ \A p \in Plazas : p # s => oferta'[p] = oferta[p]
  BY <1>1, <1>2, <1>3
<1>5. FormaOfertas'  BY <1>2, <1>3, <1>4, <1>1 DEF OfertasInv, FormaOfertas
<1>6. Retiradas'
  <2>1. /\ \A p \in retiradas \ cruzadas : oferta[p].estado = "eliminada"
        /\ \A v \in Tramites : \A p \in tramite[v].faltan \ cruzadas :
              /\ p \notin retiradas
              /\ \A u \in Tramites : p \in tramite[u].faltan => u = v
        /\ retiradas \subseteq Plazas
    BY DEF OfertasInv, Retiradas, FormaOfertas
  <2>2. \A v \in Tramites : tramite'[v].faltan \subseteq tramite[v].faltan  BY <1>3, <1>4
  <2>3. ASSUME s \notin cruzadas PROVE s \notin retiradas /\ \A v \in Tramites : s \notin tramite'[v].faltan
    BY <1>1, <1>3, <1>4, <2>1, <2>3
  <2>4. \A p \in retiradas' \ cruzadas : oferta'[p].estado = "eliminada"  BY <1>1, <1>4, <2>1, <2>3
  <2>5. \A v \in Tramites : \A p \in tramite'[v].faltan \ cruzadas :
              /\ p \notin retiradas'
              /\ \A u \in Tramites : p \in tramite'[u].faltan => u = v
    BY <1>1, <2>1, <2>2, <2>3
  <2> QED BY <1>1, <2>4, <2>5 DEF Retiradas
<1> QED BY <1>5, <1>6 DEF OfertasInv

LEMMA OfertaInvFalla ==
    ASSUME OfertasInv, NEW w \in Tramites, FallaTramite(w) PROVE OfertasInv'
<1>1. /\ tramite' = [tramite EXCEPT ![w] = SinTramite]
      /\ UNCHANGED <<oferta, plazasVivas, fechaActual, cruzadas, retiradas>>
  BY DEF FallaTramite
<1>2. /\ tramite' \in [Tramites -> Tramite] /\ tramite'[w].faltan = {}
      /\ \A v \in Tramites : v # w => tramite'[v] = tramite[v]
  BY <1>1, SinTramiteForma DEF OfertasInv, FormaOfertas
<1>3. FormaOfertas'  BY <1>1, <1>2 DEF OfertasInv, FormaOfertas
<1>4. Retiradas'  BY <1>1, <1>2 DEF OfertasInv, Retiradas
<1> QED BY <1>3, <1>4 DEF OfertasInv

LEMMA OfertasInvNext ==
    ASSUME OfertasInv, [PromosSucursalNext]_promosSucursalVars PROVE OfertasInv'
<1>1. CASE UNCHANGED promosSucursalVars
  BY <1>1 DEF promosSucursalVars, OfertasInv, FormaOfertas, Retiradas
<1>2. CASE PasaFecha \/ \E s \in Plazas : EliminaPlaza(s)
  BY <1>2 DEF PasaFecha, EliminaPlaza, OfertasInv, FormaOfertas, Retiradas
<1>3. ASSUME NEW w \in Tramites, NEW s \in Plazas, NEW v \in Vigencias, NEW a \in BOOLEAN,
             \/ CambiaOferta(w, s, v, a) \/ CreaOferta(w, s, TRUE, {}, v, a)
             \/ \E ids \in SUBSET (Plazas \ {s}) : CreaOferta(w, s, FALSE, ids, v, a)
      PROVE  OfertasInv'
  BY <1>3, OfertaInvCambia, OfertaInvCrea
<1>4. ASSUME NEW w \in Tramites, NEW s \in Plazas, RetiraOferta(w, s) \/ GuardaOferta(w, s)
      PROVE  OfertasInv'
  BY <1>4, OfertaInvRetira, OfertaInvGuarda
<1>5. ASSUME NEW w \in Tramites, FallaTramite(w) PROVE OfertasInv'  BY <1>5, OfertaInvFalla
<1> QED BY <1>1, <1>2, <1>3, <1>4, <1>5 DEF PromosSucursalNext

--------------------
LEMMA ResumenDeOfertas ==
    ASSUME OfertasInv
    PROVE  Resumen.activas + Resumen.proximas + Resumen.finalizadas
             = Cardinality(OfertasVigentes \cup Proximas \cup Finalizadas)
               + Cardinality({s \in Proximas : oferta[s].vigencia.fin < fechaActual})
<1> DEFINE V == OfertasVigentes
           P == Proximas
           F == Finalizadas
<1>1. V \in SUBSET Plazas /\ P \in SUBSET Plazas /\ F \in SUBSET Plazas
  BY DEF OfertasVigentes, Proximas, Finalizadas
<1>2. IsFiniteSet(Plazas)  BY PromosSucursalAssumption
<1>3. IsFiniteSet(V) /\ IsFiniteSet(P) /\ IsFiniteSet(F)  BY ONLY <1>1, <1>2, FS_Subset
<1>4. \A s \in Plazas : /\ oferta[s].vigencia.inicio \in Nat /\ oferta[s].vigencia.fin \in Nat
                        /\ fechaActual \in Nat
  BY DEF OfertasInv, FormaOfertas, Oferta
<1>5. (V \cup P) \cap F = {s \in P : oferta[s].vigencia.fin < fechaActual} /\ V \cap P = {}
  BY <1>4 DEF OfertasVigentes, Proximas, Finalizadas, Rige
<1> HIDE DEF V, P, F
<1>6. /\ IsFiniteSet(V \cup P)
      /\ Cardinality(V \cup P) = Cardinality(V) + Cardinality(P) - Cardinality(V \cap P)
  BY ONLY <1>3, FS_Union
<1>7. Cardinality((V \cup P) \cup F)
        = Cardinality(V \cup P) + Cardinality(F) - Cardinality((V \cup P) \cap F)
  BY ONLY <1>3, <1>6, FS_Union
<1>8. Cardinality(V \cap P) = 0  BY <1>5, FS_EmptySet
<1>9. /\ Cardinality(V) \in Nat /\ Cardinality(P) \in Nat /\ Cardinality(F) \in Nat
      /\ Cardinality(V \cup P) \in Nat
  BY ONLY <1>3, <1>6, FS_CardinalityType
<1>10. Cardinality((V \cup P) \cap F) \in Nat
  <2>1. (V \cup P) \cap F \in SUBSET F  OBVIOUS
  <2>2. IsFiniteSet((V \cup P) \cap F)  BY ONLY <1>3, <2>1, FS_Subset
  <2> QED BY ONLY <2>2, FS_CardinalityType
<1>11. Cardinality(V) + Cardinality(P) + Cardinality(F)
         = Cardinality((V \cup P) \cup F) + Cardinality((V \cup P) \cap F)
  BY <1>6, <1>7, <1>8, <1>9, <1>10
<1>12. /\ Resumen.activas = Cardinality(V) /\ Resumen.proximas = Cardinality(P)
       /\ Resumen.finalizadas = Cardinality(F)
  BY DEF Resumen, V, P, F
<1> QED BY <1>5, <1>11, <1>12 DEF V, P, F

LEMMA OfertasEnSuLista == OfertasInv => CadaOfertaEnSuLista
<1> SUFFICES ASSUME OfertasInv PROVE CadaOfertaEnSuLista  OBVIOUS
<1>1. ASSUME NEW s \in Plazas \ cruzadas, oferta[s] # Plano
      PROVE
        /\ s \in retiradas => s \notin Listar
        /\ s \in Sugeridas => s \in OfertasVigentes
        /\ s \in Listar /\ oferta[s].activa /\ oferta[s].vigencia.inicio <= oferta[s].vigencia.fin =>
             Cardinality({L \in {"vigentes", "proximas", "finalizadas"} :
                 CASE L = "vigentes" -> s \in OfertasVigentes
                   [] L = "proximas" -> s \in Proximas
                   [] OTHER -> s \in Finalizadas}) = 1
        /\ s \in ProximasAVencer => s \in OfertasVigentes \cup Proximas
        /\ s \in OfertasVigentes /\ oferta[s].vigencia.fin <= fechaActual + DiasAviso =>
             s \in ProximasAVencer
  <2>1. PICK i \in Nat, f \in Nat, h \in Nat :
             i = oferta[s].vigencia.inicio /\ f = oferta[s].vigencia.fin /\ h = fechaActual
    BY DEF OfertasInv, FormaOfertas, Oferta
  <2>2. /\ s \in Plazas /\ FilaOferta(oferta[s]) /\ oferta[s].estado \in EstadosOferta
        /\ s \in retiradas => oferta[s].estado = "eliminada"
    BY DEF OfertasInv, FormaOfertas, Retiradas, Oferta
  <2>3. s \in retiradas => s \notin Listar  BY <2>2 DEF Listar, OfertaViva
  <2>4. /\ s \in Listar <=> oferta[s].estado = "viva"
        /\ s \in OfertasVigentes <=> oferta[s].estado = "viva" /\ oferta[s].activa /\ i <= h /\ h <= f
        /\ s \in Proximas <=> oferta[s].estado = "viva" /\ oferta[s].activa /\ h < i
        /\ s \in Finalizadas <=> oferta[s].estado = "viva" /\ f < h
        /\ s \in Sugeridas => oferta[s].activa /\ i <= h /\ h < f
    BY <2>1, <2>2 DEF Listar, OfertasVigentes, Proximas, Finalizadas, Sugeridas, OfertaViva, Rige
  <2>5. oferta[s].activa => oferta[s].estado = "viva"  BY <1>1, <2>2 DEF FilaOferta, EstadosOferta
  <2>6. s \in Sugeridas => s \in OfertasVigentes  BY <2>4, <2>5
  <2>7. ASSUME s \in Listar, oferta[s].activa, i <= f
        PROVE  Cardinality({L \in {"vigentes", "proximas", "finalizadas"} :
                   CASE L = "vigentes" -> s \in OfertasVigentes
                     [] L = "proximas" -> s \in Proximas
                     [] OTHER -> s \in Finalizadas}) = 1
    <3> DEFINE T == {L \in {"vigentes", "proximas", "finalizadas"} :
                   CASE L = "vigentes" -> s \in OfertasVigentes
                     [] L = "proximas" -> s \in Proximas
                     [] OTHER -> s \in Finalizadas}
    <3>1. /\ "vigentes" \in T <=> i <= h /\ h <= f
          /\ "proximas" \in T <=> h < i
          /\ "finalizadas" \in T <=> f < h
          /\ T \subseteq {"vigentes", "proximas", "finalizadas"}
      BY <2>4, <2>7
    <3> HIDE DEF T
    <3>2. CASE h < i
      <4>0. "proximas" \in T /\ "vigentes" \notin T /\ "finalizadas" \notin T  BY <2>7, <3>1, <3>2
      <4>1. T = {"proximas"}  BY <3>1, <4>0
      <4> QED BY <4>1, FS_Singleton DEF T
    <3>3. CASE f < h
      <4>0. "finalizadas" \in T /\ "vigentes" \notin T /\ "proximas" \notin T  BY <2>7, <3>1, <3>3
      <4>1. T = {"finalizadas"}  BY <3>1, <4>0
      <4> QED BY <4>1, FS_Singleton DEF T
    <3>4. CASE ~(h < i) /\ ~(f < h)
      <4>0. "vigentes" \in T /\ "proximas" \notin T /\ "finalizadas" \notin T  BY <2>7, <3>1, <3>4
      <4>1. T = {"vigentes"}  BY <3>1, <4>0
      <4> QED BY <4>1, FS_Singleton DEF T
    <3> QED BY <3>2, <3>3, <3>4
  <2>8. s \in ProximasAVencer <=> oferta[s].estado = "viva" /\ oferta[s].activa
                                  /\ h <= f /\ f <= h + DiasAviso
    BY <2>1, <2>2 DEF ProximasAVencer, OfertaViva, DiasAviso
  <2>9. s \in ProximasAVencer => s \in OfertasVigentes \cup Proximas  BY <2>4, <2>8
  <2>10. s \in OfertasVigentes /\ f <= h + DiasAviso => s \in ProximasAVencer  BY <2>4, <2>8
  <2> QED BY <2>1, <2>3, <2>6, <2>7, <2>9, <2>10
<1> QED BY <1>1, ResumenDeOfertas DEF CadaOfertaEnSuLista

LEMMA OfertasInvSiempre ==
    PromosSucursalInit /\ [][PromosSucursalNext]_promosSucursalVars => []OfertasInv
<1>1. OfertasInv /\ [PromosSucursalNext]_promosSucursalVars => OfertasInv'  BY OfertasInvNext
<1> QED BY <1>1, OfertasInvInit, PTL

HIDE PromosSucursalAssumption

--------------------
(* MenuSucursal.  An item has one rule in the branch at the most while its *)
(* calls do not overlap: the one a call has seen is the one it saves.      *)
USE MenuAssumption DEF MenuAssumption

\* What a call at work holds.
Atendida == [item : Articulos, fila : ItemSucursal, visto : Nat]
FormaMenu ==
    /\ articulo \in [Articulos -> Precios \cup {SinPrecio}]
    /\ regla \in [Articulos -> Seq(ItemSucursal)]
    /\ mesero \in [Meseros -> {SinMesero} \cup Atendida]
    /\ pedido \in [Articulos -> ItemSucursal] /\ dobles \subseteq Articulos

\* Of an item that is saved by one call at a time the branch has one rule at the most, the
\* last one saved, and that is the one a call at work has seen.
UnaRegla(i) ==
    /\ \/ regla[i] = <<>> /\ pedido[i] = PorDefecto
       \/ regla[i] = <<pedido[i]>>
    /\ \A m \in SobreEl(i) :
          /\ mesero[m].visto = IF regla[i] = <<>> THEN 0 ELSE 1
          /\ \A n \in SobreEl(i) : n = m
MenuInv == FormaMenu /\ \A i \in Articulos \ dobles : UnaRegla(i)

LEMMA SinMeseroNo == SinMesero \notin Atendida
  BY DEF SinMesero, Atendida

LEMMA PorDefectoTipo == PorDefecto \in ItemSucursal
  BY DEF PorDefecto, ItemSucursal

LEMMA MenuInvInit == MenuInit => MenuInv
<1> SUFFICES ASSUME MenuInit PROVE MenuInv  OBVIOUS
<1>1. FormaMenu  BY PorDefectoTipo DEF MenuInit, FormaMenu
<1>2. \A i \in Articulos : SobreEl(i) = {} /\ regla[i] = <<>> /\ pedido[i] = PorDefecto
  BY DEF MenuInit, SobreEl
<1> QED BY <1>1, <1>2 DEF MenuInv, UnaRegla

LEMMA MenuInvArticulo ==
    ASSUME MenuInv, NEW i \in Articulos, NEW precio \in Precios \cup {SinPrecio},
           articulo' = [articulo EXCEPT ![i] = precio], UNCHANGED <<regla, mesero, pedido, dobles>>
    PROVE  MenuInv'
  BY DEF MenuInv, FormaMenu, UnaRegla, SobreEl

LEMMA MenuInvSet ==
    ASSUME MenuInv, NEW m \in Meseros, NEW i \in Articulos, NEW fila \in ItemSucursal,
           SetDisponibilidad(m, i, fila)
    PROVE  MenuInv'
<1>1. PICK visto \in IF regla[i] = <<>> THEN {0} ELSE DOMAIN regla[i] :
         mesero' = [mesero EXCEPT ![m] = [item |-> i, fila |-> fila, visto |-> visto]]
  BY DEF SetDisponibilidad
<1> DEFINE w == [item |-> i, fila |-> fila, visto |-> visto]
<1>2. /\ mesero[m] = SinMesero /\ UNCHANGED <<articulo, regla, pedido>>
      /\ dobles' = IF SobreEl(i) = {} THEN dobles ELSE dobles \cup {i}
  BY DEF SetDisponibilidad
<1>3. FormaMenu /\ visto \in Nat  BY DEF MenuInv, FormaMenu
<1>4. w \in Atendida /\ w.item = i /\ w.visto = visto /\ w # SinMesero
  BY <1>3, SinMeseroNo DEF Atendida
<1> HIDE DEF w
<1>5. /\ mesero' \in [Meseros -> {SinMesero} \cup Atendida] /\ mesero'[m] = w
      /\ \A n \in Meseros : n # m => mesero'[n] = mesero[n]
  BY <1>1, <1>3, <1>4 DEF FormaMenu, w
<1>6. FormaMenu'  BY <1>2, <1>3, <1>5 DEF FormaMenu
<1>7. ASSUME NEW j \in Articulos \ dobles' PROVE UnaRegla(j)'
  <2>1. UnaRegla(j)  BY <1>2 DEF MenuInv
  <2>2. CASE j # i  BY <1>2, <1>4, <1>5, <2>2, <2>1 DEF SobreEl, UnaRegla
  <2>3. CASE j = i
    <3>1. SobreEl(i) = {}  BY <1>2, <1>7, <2>3
    <3>2. SobreEl(i)' = {m}  BY <1>4, <1>5, <3>1 DEF SobreEl
    <3>3. \/ regla[i] = <<>> /\ visto = 0
          \/ regla[i] = <<pedido[i]>> /\ visto = 1
      BY <1>1, <2>1, <2>3 DEF UnaRegla
    <3>4. regla[i] = <<pedido[i]>> => regla[i] # <<>>  OBVIOUS
    <3> QED BY <1>2, <1>4, <1>5, <2>1, <2>3, <3>2, <3>3, <3>4 DEF UnaRegla
  <2> QED BY <2>2, <2>3
<1> QED BY <1>6, <1>7 DEF MenuInv

LEMMA MenuInvGuarda ==
    ASSUME MenuInv, NEW m \in Meseros, GuardaDisponibilidad(m) PROVE MenuInv'
<1>1. PICK w, i : w = mesero[m] /\ i = w.item  OBVIOUS
<1>2. /\ w # SinMesero /\ mesero' = [mesero EXCEPT ![m] = SinMesero]
      /\ UNCHANGED <<articulo, dobles>>
  BY <1>1 DEF GuardaDisponibilidad
<1>3. FormaMenu /\ w \in Atendida /\ i \in Articulos /\ w.fila \in ItemSucursal /\ w.visto \in Nat
  BY <1>1, <1>2 DEF MenuInv, FormaMenu, Atendida
<1>4. /\ mesero' \in [Meseros -> {SinMesero} \cup Atendida] /\ mesero'[m] = SinMesero
      /\ \A n \in Meseros : n # m => mesero'[n] = mesero[n]
  BY <1>2, <1>3 DEF FormaMenu
<1>5. /\ \A j \in Articulos : SobreEl(j)' = SobreEl(j) \ {m}
      /\ \A j \in Articulos : \A n \in SobreEl(j)' : mesero'[n] = mesero[n]
      /\ m \in SobreEl(i) /\ \A j \in Articulos : j # i => m \notin SobreEl(j)
  BY <1>1, <1>2, <1>4 DEF SobreEl
<1>6. CASE ~Hay(i)
  BY <1>1, <1>6, <1>2, <1>3, <1>4, <1>5 DEF GuardaDisponibilidad, FormaMenu, MenuInv, UnaRegla
<1>7. CASE Hay(i)
  <2> DEFINE r == IF w.visto = 0 THEN Append(regla[i], w.fila)
                  ELSE [regla[i] EXCEPT ![w.visto] = w.fila]
  <2>1. regla' = [regla EXCEPT ![i] = r] /\ pedido' = [pedido EXCEPT ![i] = w.fila]
    BY <1>1, <1>7 DEF GuardaDisponibilidad
  <2>2. regla[i] \in Seq(ItemSucursal)  BY <1>3 DEF FormaMenu
  <2>3. r \in Seq(ItemSucursal)
    <3>1. Append(regla[i], w.fila) \in Seq(ItemSucursal)  BY <1>3, <2>2
    <3>2. [regla[i] EXCEPT ![w.visto] = w.fila] \in Seq(ItemSucursal)
      <4>1. PICK s, v, f : s = regla[i] /\ v = w.visto /\ f = w.fila  OBVIOUS
      <4>2. CASE v \in 1 .. Len(s)  BY <1>3, <2>2, <4>1, <4>2, ExceptSeq
      <4>3. CASE v \notin 1 .. Len(s)
        <5>1. [s EXCEPT ![v] = f] = s  BY <2>2, <4>1, <4>3
        <5> QED BY <2>2, <4>1, <5>1
      <4> QED BY <4>2, <4>3
    <3> QED BY <3>1, <3>2
  <2> HIDE DEF r
  <2>4. /\ regla' \in [Articulos -> Seq(ItemSucursal)] /\ regla'[i] = r
        /\ pedido' \in [Articulos -> ItemSucursal] /\ pedido'[i] = w.fila
        /\ \A j \in Articulos : j # i => regla'[j] = regla[j] /\ pedido'[j] = pedido[j]
    BY <1>3, <2>1, <2>3 DEF FormaMenu
  <2>5. FormaMenu'  BY <1>2, <1>3, <1>4, <2>4 DEF FormaMenu
  <2>6. ASSUME NEW j \in Articulos \ dobles PROVE UnaRegla(j)'
    <3>1. UnaRegla(j)  BY DEF MenuInv
    <3>2. CASE j # i  BY <1>5, <2>4, <3>1, <3>2 DEF UnaRegla
    <3>3. CASE j = i
      <4>1. SobreEl(i)' = {}  BY <1>5, <3>1, <3>3 DEF UnaRegla
      <4>2. r = <<w.fila>>
        <5>1. CASE regla[i] = <<>>  BY <1>1, <1>5, <3>1, <3>3, <5>1 DEF UnaRegla, r
        <5>2. CASE regla[i] # <<>>  BY <1>1, <1>5, <3>1, <3>3, <5>2 DEF UnaRegla, r
        <5> QED BY <5>1, <5>2
      <4> QED BY <2>4, <3>3, <4>1, <4>2 DEF UnaRegla
    <3> QED BY <3>2, <3>3
  <2> QED BY <1>2, <2>5, <2>6 DEF MenuInv
<1> QED BY <1>6, <1>7

LEMMA MenuInvNext ==
    ASSUME MenuInv, [MenuNext]_menuVars PROVE MenuInv'
<1>1. CASE UNCHANGED menuVars  BY <1>1 DEF menuVars, MenuInv, FormaMenu, UnaRegla, SobreEl
<1>2. ASSUME NEW i \in Articulos, EliminarItem(i) PROVE MenuInv'
  BY <1>2, MenuInvArticulo DEF EliminarItem
<1>3. ASSUME NEW i \in Articulos, NEW precio \in Precios,
             CrearItem(i, precio) \/ ActualizarItem(i, precio)
      PROVE  MenuInv'
  BY <1>3, MenuInvArticulo DEF CrearItem, ActualizarItem
<1>4. ASSUME NEW i \in Articulos, NEW m \in Meseros, NEW fila \in ItemSucursal,
             SetDisponibilidad(m, i, fila)
      PROVE  MenuInv'
  BY <1>4, MenuInvSet
<1>5. ASSUME NEW m \in Meseros, GuardaDisponibilidad(m) PROVE MenuInv'  BY <1>5, MenuInvGuarda
<1> QED BY <1>1, <1>2, <1>3, <1>4, <1>5 DEF MenuNext

LEMMA MenuCumple == MenuInv => MenuComoSePidio
<1> SUFFICES ASSUME MenuInv, NEW i \in Articulos \ dobles
             PROVE  Menus(i) = {IF ~Hay(i) \/ ~pedido[i].disponible THEN SinPrecio
                                ELSE IF pedido[i].precioEspecifico = SinPrecio THEN articulo[i]
                                ELSE pedido[i].precioEspecifico}
  BY DEF MenuComoSePidio
<1>1. UnaRegla(i)  BY DEF MenuInv
<1>2. ReglasDe(i) = {pedido[i]}
  <2>1. CASE regla[i] = <<>> /\ pedido[i] = PorDefecto  BY <2>1 DEF ReglasDe
  <2>2. CASE regla[i] = <<pedido[i]>>  BY <2>2 DEF ReglasDe
  <2> QED BY <1>1, <2>1, <2>2 DEF UnaRegla
<1>3. Menus(i) = {IF Hay(i) /\ pedido[i].disponible THEN PrecioFinal(pedido[i], articulo[i])
                  ELSE SinPrecio}
  BY <1>2 DEF Menus
<1>4. pedido[i].disponible \in BOOLEAN  BY DEF MenuInv, FormaMenu, ItemSucursal
<1> QED BY <1>3, <1>4 DEF PrecioFinal

LEMMA MenuInvSiempre == MenuSpec => []MenuInv
<1>1. MenuInv /\ [MenuNext]_menuVars => MenuInv'  BY MenuInvNext
<1> QED BY <1>1, MenuInvInit, PTL DEF MenuSpec

\* A call that found no rule adds one: with those at work, no more than there are calls.
SinRegla(i) == {m \in SobreEl(i) : mesero[m].visto = 0}
MenuTipos ==
    /\ MenuInv
    /\ \A i \in Articulos : Len(regla[i]) + Cardinality(SinRegla(i)) <= Cardinality(Meseros)
    /\ \A m \in Meseros : mesero[m] # SinMesero => mesero[m].visto <= MaxReglas
    /\ ordenes \in 0 .. MaxOrdenes

LEMMA SinReglaFinito ==
    ASSUME NEW i
    PROVE  /\ IsFiniteSet(SinRegla(i)) /\ SinRegla(i) \subseteq Meseros
           /\ Cardinality(SinRegla(i)) \in Nat
<1>1. SinRegla(i) \subseteq Meseros  BY DEF SinRegla, SobreEl
<1> QED BY <1>1, FS_Subset, FS_CardinalityType

LEMMA MenuTiposInit == MenuInit => MenuTipos
<1> SUFFICES ASSUME MenuInit PROVE MenuTipos  OBVIOUS
<1>1. MenuInv  BY MenuInvInit
<1>2. \A m \in Meseros : mesero[m] = SinMesero  BY DEF MenuInit
<1>3. \A i \in Articulos : SinRegla(i) = {} /\ Len(regla[i]) = 0
  BY <1>2 DEF MenuInit, SinRegla, SobreEl
<1>4. Cardinality({}) = 0 /\ Cardinality(Meseros) \in Nat  BY FS_EmptySet, FS_CardinalityType
<1>5. ordenes \in 0 .. MaxOrdenes  BY DEF MenuInit
<1>6. \A i \in Articulos : Len(regla[i]) + Cardinality(SinRegla(i)) <= Cardinality(Meseros)
  <2> SUFFICES ASSUME NEW i \in Articulos
               PROVE  Len(regla[i]) + Cardinality(SinRegla(i)) <= Cardinality(Meseros)
    OBVIOUS
  <2>1. Len(regla[i]) = 0 /\ Cardinality(SinRegla(i)) = 0  BY <1>3, <1>4
  <2> QED BY <1>4, <2>1
<1> QED BY <1>1, <1>2, <1>5, <1>6 DEF MenuTipos

LEMMA MenuTiposSet ==
    ASSUME MenuTipos, NEW m \in Meseros, NEW i \in Articulos, NEW fila \in ItemSucursal,
           SetDisponibilidad(m, i, fila)
    PROVE  MenuTipos'
<1>1. MenuInv'  BY MenuInvSet DEF MenuTipos
<1>2. PICK v \in IF regla[i] = <<>> THEN {0} ELSE DOMAIN regla[i] :
          mesero' = [mesero EXCEPT ![m] = [item |-> i, fila |-> fila, visto |-> v]]
  BY DEF SetDisponibilidad
<1>3. PICK w : w = [item |-> i, fila |-> fila, visto |-> v]  OBVIOUS
<1>4. regla[i] \in Seq(ItemSucursal) /\ mesero \in [Meseros -> {SinMesero} \cup Atendida]
  BY DEF MenuTipos, MenuInv, FormaMenu
<1>5. /\ mesero'[m] = w /\ \A n \in Meseros : n # m => mesero'[n] = mesero[n]
      /\ mesero[m] = SinMesero /\ UNCHANGED regla /\ ordenes' \in 0 .. MaxOrdenes
      /\ w.item = i /\ w.visto = v /\ DOMAIN w = {"item", "fila", "visto"}
  BY <1>2, <1>3, <1>4 DEF SetDisponibilidad, NuevaOrden, MenuTipos
<1>6. w # SinMesero  BY <1>5 DEF SinMesero
<1>7. v \in Nat /\ v <= Len(regla[i]) /\ (v = 0 <=> Len(regla[i]) = 0) /\ Len(regla[i]) \in Nat
  <2>1. CASE regla[i] = <<>>  BY <1>2, <1>4, <2>1
  <2>2. CASE regla[i] # <<>>  BY <1>2, <1>4, <2>2
  <2> QED BY <2>1, <2>2
<1>8. ASSUME NEW j \in Articulos
      PROVE  Len(regla'[j]) + Cardinality(SinRegla(j)') <= Cardinality(Meseros)
  <2>1. SinRegla(j)' \subseteq Meseros  BY DEF SinRegla, SobreEl
  <2>2. Cardinality(SinRegla(j)') <= Cardinality(Meseros) /\ Cardinality(SinRegla(j)') \in Nat
    BY <2>1, FS_Subset, FS_CardinalityType
  <2>3. CASE j = i /\ v = 0  BY <1>5, <1>7, <2>2, <2>3
  <2>4. CASE ~(j = i /\ v = 0)  BY <1>5, <1>6, <2>4 DEF SinRegla, SobreEl, MenuTipos
  <2> QED BY <2>3, <2>4
<1>9. \A n \in Meseros : mesero'[n] # SinMesero => mesero'[n].visto <= MaxReglas
  <2>1. Len(regla[i]) <= MaxReglas
    <3>1. Cardinality(SinRegla(i)) \in Nat /\ Cardinality(Meseros) \in Nat
      BY SinReglaFinito, FS_CardinalityType
    <3>2. PICK a, b, c : a = Len(regla[i]) /\ b = Cardinality(SinRegla(i))
                   /\ c = Cardinality(Meseros)
      OBVIOUS
    <3> QED BY <1>7, <3>1, <3>2 DEF MenuTipos
  <2>2. v <= MaxReglas  BY <1>7, <2>1
  <2> QED BY <1>5, <2>2 DEF MenuTipos
<1> QED BY <1>1, <1>5, <1>8, <1>9 DEF MenuTipos

LEMMA MenuTiposGuarda ==
    ASSUME MenuTipos, NEW m \in Meseros, GuardaDisponibilidad(m) PROVE MenuTipos'
<1>1. MenuInv'  BY MenuInvGuarda DEF MenuTipos
<1>2. PICK w, i : w = mesero[m] /\ i = w.item  OBVIOUS
<1>3. /\ regla \in [Articulos -> Seq(ItemSucursal)]
      /\ mesero \in [Meseros -> {SinMesero} \cup Atendida] /\ w # SinMesero
  BY <1>2 DEF MenuTipos, MenuInv, FormaMenu, GuardaDisponibilidad
<1>4. w \in Atendida /\ i \in Articulos /\ w.fila \in ItemSucursal  BY <1>2, <1>3 DEF Atendida
<1>5. /\ mesero'[m] = SinMesero /\ \A n \in Meseros : n # m => mesero'[n] = mesero[n]
      /\ UNCHANGED ordenes
  BY <1>3 DEF GuardaDisponibilidad
<1>6. /\ \A j \in Articulos : SinRegla(j)' = SinRegla(j) \ {m}
      /\ m \in SinRegla(i) <=> w.visto = 0
  BY <1>2, <1>3, <1>5 DEF SinRegla, SobreEl
<1>7. /\ \A j \in Articulos : j # i => regla'[j] = regla[j]
      /\ \/ regla'[i] = regla[i]
         \/ regla'[i] = IF w.visto = 0 THEN Append(regla[i], w.fila)
                        ELSE [regla[i] EXCEPT ![w.visto] = w.fila]
  BY <1>2, <1>3, <1>4 DEF GuardaDisponibilidad
<1>8. \/ Len(regla'[i]) = Len(regla[i]) + 1 /\ w.visto = 0
      \/ Len(regla'[i]) = Len(regla[i])
  <2>1. regla[i] \in Seq(ItemSucursal)  BY <1>3, <1>4
  <2>2. CASE regla'[i] = regla[i]  BY <2>2
  <2>3. CASE w.visto = 0 /\ regla'[i] = Append(regla[i], w.fila)  BY <1>4, <2>1, <2>3
  <2>4. CASE w.visto # 0 /\ regla'[i] = [regla[i] EXCEPT ![w.visto] = w.fila]
    BY <2>1, <2>4, <1>1, <1>4 DEF MenuInv, FormaMenu
  <2> QED BY <1>7, <2>2, <2>3, <2>4
<1>9. ASSUME NEW j \in Articulos
      PROVE  Len(regla'[j]) + Cardinality(SinRegla(j)') <= Cardinality(Meseros)
  <2>1. PICK S : S = SinRegla(j)  OBVIOUS
  <2>2. IsFiniteSet(S) /\ Cardinality(S) \in Nat /\ Cardinality(Meseros) \in Nat
    BY <2>1, SinReglaFinito, FS_CardinalityType
  <2>3. /\ Cardinality(S \ {m}) \in Nat
        /\ Cardinality(S \ {m}) = IF m \in S THEN Cardinality(S) - 1 ELSE Cardinality(S)
    <3>1. CASE m \in S  BY ONLY <2>2, <3>1, FS_RemoveElement, FS_CardinalityType
    <3>2. CASE m \notin S
      <4>1. S \ {m} = S  BY <3>2
      <4> QED BY <2>2, <3>2, <4>1
    <3> QED BY <3>1, <3>2
  <2>4. PICK a, b, c, d, e : /\ a = Len(regla'[j]) /\ b = Cardinality(S \ {m})
                             /\ c = Len(regla[j]) /\ d = Cardinality(S) /\ e = Cardinality(Meseros)
    OBVIOUS
  <2>5. c + d <= e /\ c \in Nat  BY <1>3, <2>1, <2>4 DEF MenuTipos
  <2>6. SinRegla(j)' = S \ {m}  BY <1>6, <2>1
  <2>7. CASE j # i  BY <1>7, <2>4, <2>7, <2>2, <2>3, <2>5, <2>6
  <2>8. CASE j = i
    <3>1. b <= d /\ b \in Nat /\ d \in Nat /\ e \in Nat /\ (w.visto = 0 => b = d - 1)
      BY <1>6, <2>1, <2>2, <2>3, <2>4, <2>8
    <3>2. (a = c + 1 /\ w.visto = 0) \/ a = c  BY <1>8, <2>4, <2>8
    <3>3. a + b <= e  BY <2>5, <3>1, <3>2
    <3> QED BY <2>4, <2>6, <3>3
  <2> QED BY <2>7, <2>8
<1>10. \A n \in Meseros : mesero'[n] # SinMesero => mesero'[n].visto <= MaxReglas
  BY <1>5 DEF MenuTipos
<1> QED BY <1>1, <1>5, <1>9, <1>10 DEF MenuTipos

LEMMA MenuTiposNext ==
    ASSUME MenuTipos, [MenuNext]_menuVars PROVE MenuTipos'
<1>1. MenuInv'  BY MenuInvNext DEF MenuTipos
<1>2. CASE UNCHANGED <<regla, mesero>> /\ ordenes' \in 0 .. MaxOrdenes
  BY <1>2, <1>1 DEF SinRegla, SobreEl, MenuTipos
<1>3. CASE UNCHANGED menuVars  BY <1>2, <1>3 DEF menuVars, MenuTipos
<1>4. ASSUME NEW i \in Articulos,
             \/ EliminarItem(i)
             \/ \E precio \in Precios : CrearItem(i, precio) \/ ActualizarItem(i, precio)
      PROVE  MenuTipos'
  BY <1>2, <1>4 DEF EliminarItem, CrearItem, ActualizarItem, NuevaOrden, MenuTipos
<1>5. ASSUME NEW i \in Articulos, NEW m \in Meseros, NEW fila \in ItemSucursal,
             SetDisponibilidad(m, i, fila)
      PROVE  MenuTipos'
  BY <1>5, MenuTiposSet
<1>6. ASSUME NEW m \in Meseros, GuardaDisponibilidad(m) PROVE MenuTipos'  BY <1>6, MenuTiposGuarda
<1> QED BY <1>3, <1>4, <1>5, <1>6 DEF MenuNext

LEMMA MenuTiposBastan == MenuTipos => MenuTypeOK
<1> SUFFICES ASSUME MenuTipos PROVE MenuTypeOK  OBVIOUS
<1>1. FormaMenu  BY DEF MenuTipos, MenuInv
<1>2. ASSUME NEW i \in Articulos PROVE regla[i] \in Seq(ItemSucursal) /\ Len(regla[i]) <= MaxReglas
  <2>1. regla[i] \in Seq(ItemSucursal)  BY <1>1 DEF FormaMenu
  <2>2. Len(regla[i]) \in Nat /\ Cardinality(SinRegla(i)) \in Nat /\ Cardinality(Meseros) \in Nat
    BY <2>1, SinReglaFinito, FS_CardinalityType
  <2>3. PICK a, b, c : a = Len(regla[i]) /\ b = Cardinality(SinRegla(i)) /\ c = Cardinality(Meseros)
    OBVIOUS
  <2>4. a + b <= c  BY <2>3 DEF MenuTipos
  <2> QED BY <2>1, <2>2, <2>3, <2>4
<1>3. ASSUME NEW m \in Meseros, mesero[m] # SinMesero
      PROVE  mesero[m] \in [item : Articulos, fila : ItemSucursal, visto : 0 .. MaxReglas]
  BY <1>1, <1>3 DEF FormaMenu, MenuTipos, Atendida
<1> QED BY <1>1, <1>2, <1>3 DEF FormaMenu, MenuTypeOK, MenuTipos

LEMMA MenuTiposSiempre == MenuSpec => []MenuTipos
<1>1. MenuTipos /\ [MenuNext]_menuVars => MenuTipos'  BY MenuTiposNext
<1> QED BY <1>1, MenuTiposInit, PTL DEF MenuSpec

HIDE MenuAssumption

--------------------
(* Caracteristicas.  The query that offers and the check in JavaScript     *)
(* read the same rules; between edits they are the ones last announced.    *)
USE CaracteristicasAssumption DEF CaracteristicasAssumption

ReglasPosibles == (UNION Reglamentos) \cup {Todos}
Manos1 == [op : {"nada", "borra", "inserta", "elimina", "asigna", "alias"},
           reglas : SUBSET ReglasPosibles, s : Locaciones \cup {SinLocacion}]
FormaCaracteristica ==
    /\ caracteristica = Ausente \/ caracteristica \in [estado : {"viva"}, activo : BOOLEAN]
    /\ reglas \subseteq ReglasPosibles /\ aliasFilas \in Nat
    /\ giro \in [Locaciones -> Giros] /\ locacionesVivas \subseteq Locaciones
    /\ mano \in [Manos -> Manos1] /\ revuelto \in BOOLEAN /\ aliasRevuelto \in BOOLEAN

\* While no two edits overlapped and none stopped halfway, the one at work has the rules
\* removed before it writes its own.
ReglasDichas ==
    ~revuelto =>
        /\ \A v, w \in EnEdicion : v = w
        /\ EnEdicion = {} => reglas = dichas /\ (caracteristica = Ausente => reglas = {})
        /\ \A w \in EnEdicion :
              /\ mano[w].op \in {"inserta", "elimina"} => reglas = {}
              /\ mano[w].op \in {"borra", "inserta"} => caracteristica # Ausente
ConAlias == {w \in Manos : mano[w].op = "alias"}
UnAlias ==
    ~aliasRevuelto =>
        /\ aliasFilas <= 1 /\ (ConAlias # {} => aliasFilas = 0)
        /\ \A v, w \in ConAlias : v = w
CaracteristicaInv == FormaCaracteristica /\ ReglasDichas /\ UnAlias

LEMMA Reglamento == \A R \in Reglamentos : R \in SUBSET ReglasPosibles
  BY DEF ReglasPosibles

LEMMA SinManoNada == SinMano \in Manos1 /\ SinMano.op = "nada"
  BY DEF SinMano, Manos1

LEMMA SinManoTipo ==
    /\ \A op \in {"nada", "borra", "inserta", "elimina", "asigna", "alias"},
          R \in SUBSET ReglasPosibles :
          LET m == [SinMano EXCEPT !.op = op, !.reglas = R]
          IN  m \in Manos1 /\ m.op = op /\ m.reglas = R
    /\ \A op \in {"nada", "borra", "inserta", "elimina", "asigna", "alias"} :
          [SinMano EXCEPT !.op = op] \in Manos1 /\ [SinMano EXCEPT !.op = op].op = op
    /\ \A s \in Locaciones :
          LET m == [SinMano EXCEPT !.op = "asigna", !.s = s]
          IN  m \in Manos1 /\ m.op = "asigna"
  BY DEF SinMano, Manos1

LEMMA CaracteristicaInvInit == CaracteristicasInit => CaracteristicaInv
<1> SUFFICES ASSUME CaracteristicasInit PROVE CaracteristicaInv  OBVIOUS
<1>1. FormaCaracteristica  BY SinManoNada DEF CaracteristicasInit, FormaCaracteristica
<1>2. EnEdicion = {} /\ ConAlias = {}
  BY SinManoNada DEF CaracteristicasInit, EnEdicion, Edita, ConAlias
<1> QED BY <1>1, <1>2 DEF CaracteristicasInit, CaracteristicaInv, ReglasDichas, UnAlias

\* One request changes what it does.
LEMMA CambiaUnaMano ==
    ASSUME FormaCaracteristica, NEW w \in Manos, NEW m \in Manos1, mano' = [mano EXCEPT ![w] = m]
    PROVE  /\ mano' \in [Manos -> Manos1] /\ mano'[w] = m
           /\ \A v \in Manos : v # w => mano'[v] = mano[v]
           /\ m.op \in {"borra", "inserta", "elimina"} => EnEdicion' = EnEdicion \cup {w}
           /\ m.op \notin {"borra", "inserta", "elimina"} => EnEdicion' = EnEdicion \ {w}
           /\ m.op = "alias" => ConAlias' = ConAlias \cup {w}
           /\ m.op # "alias" => ConAlias' = ConAlias \ {w}
<1>1. /\ mano' \in [Manos -> Manos1] /\ mano'[w] = m
      /\ \A v \in Manos : v # w => mano'[v] = mano[v]
  BY DEF FormaCaracteristica
<1> QED BY <1>1 DEF EnEdicion, ConAlias, Edita

\* An edit begins.
LEMMA CarInvEdita ==
    ASSUME CaracteristicaInv, NEW w \in Manos, NEW m \in Manos1, TomaMano(w, m),
           m.op \in {"borra", "inserta", "elimina"}, revuelto' = (revuelto \/ EnEdicion # {}),
           caracteristica' = Ausente \/ caracteristica' \in [estado : {"viva"}, activo : BOOLEAN],
           m.op \in {"borra", "inserta"} => caracteristica' # Ausente,
           reglas' \subseteq reglas, m.op = "elimina" => reglas' = {},
           m.op = "inserta" => caracteristica = Ausente,
           aliasFilas' \in {0, aliasFilas},
           UNCHANGED <<aliasRevuelto, giro, locacionesVivas>>
    PROVE  CaracteristicaInv'
<1>1. /\ mano' = [mano EXCEPT ![w] = m] /\ mano[w].op = "nada" /\ FormaCaracteristica
  BY SinManoNada DEF TomaMano, CaracteristicaInv
<1>2. w \notin EnEdicion /\ w \notin ConAlias  BY <1>1 DEF EnEdicion, Edita, ConAlias
<1>3. /\ mano' \in [Manos -> Manos1] /\ mano'[w] = m
      /\ \A v \in Manos : v # w => mano'[v] = mano[v]
      /\ EnEdicion' = EnEdicion \cup {w} /\ ConAlias' = ConAlias
  <2>1. m.op # "alias"  OBVIOUS
  <2>2. ConAlias' = ConAlias \ {w} /\ EnEdicion' = EnEdicion \cup {w}  BY <1>1, <2>1, CambiaUnaMano
  <2>3. mano' \in [Manos -> Manos1] /\ mano'[w] = m /\ \A v \in Manos : v # w => mano'[v] = mano[v]
    BY <1>1, CambiaUnaMano
  <2>4. ConAlias \ {w} = ConAlias  BY <1>2
  <2> QED BY <2>2, <2>3, <2>4
<1>4. FormaCaracteristica'  BY <1>1, <1>3 DEF FormaCaracteristica
<1>5. ReglasDichas'
  <2> SUFFICES ASSUME ~revuelto' PROVE ReglasDichas'  BY DEF ReglasDichas
  <2>1. ~revuelto /\ EnEdicion = {}  BY <1>1 DEF FormaCaracteristica
  <2>2. EnEdicion' = {w}  BY <1>3, <2>1
  <2>3. caracteristica = Ausente => reglas = {}  BY <2>1 DEF CaracteristicaInv, ReglasDichas
  <2>4. m.op \in {"inserta", "elimina"} => reglas' = {}  BY <2>3
  <2> QED BY <1>3, <2>2, <2>4 DEF ReglasDichas
<1>6. UnAlias'  BY <1>1, <1>3 DEF CaracteristicaInv, UnAlias, FormaCaracteristica
<1> QED BY <1>4, <1>5, <1>6 DEF CaracteristicaInv

LEMMA CarInvCrea ==
    ASSUME CaracteristicaInv, NEW w \in Manos, NEW R \in Reglamentos, CreaCaracteristica(w, R)
    PROVE  CaracteristicaInv'
<1>1. PICK Q \in SUBSET ReglasPosibles : Q = IF R = {} THEN {Todos} ELSE R
  BY Reglamento DEF ReglasPosibles
<1> DEFINE m == [SinMano EXCEPT !.op = "inserta", !.reglas = Q]
<1>2. m \in Manos1 /\ m.op = "inserta"  BY <1>1 DEF SinMano, Manos1
<1>3. /\ caracteristica = Ausente /\ caracteristica' = [estado |-> "viva", activo |-> TRUE]
      /\ TomaMano(w, m) /\ revuelto' = (revuelto \/ EnEdicion # {})
      /\ UNCHANGED <<reglas, aliasFilas, aliasRevuelto, giro, locacionesVivas>>
  BY <1>1 DEF CreaCaracteristica, sobreAlias, sobreLocaciones
<1> HIDE DEF m
<1>4. caracteristica' \in [estado : {"viva"}, activo : BOOLEAN] /\ caracteristica' # Ausente
  BY <1>3 DEF Ausente
<1> QED BY <1>2, <1>3, <1>4, CarInvEdita

LEMMA CarInvEditaC ==
    ASSUME CaracteristicaInv, NEW w \in Manos, NEW R \in Reglamentos, NEW activo \in BOOLEAN,
           EditaCaracteristica(w, R, activo)
    PROVE  CaracteristicaInv'
<1> DEFINE m == [SinMano EXCEPT !.op = "borra", !.reglas = R]
<1>1. R \in SUBSET ReglasPosibles  BY Reglamento
<1>2. m \in Manos1 /\ m.op = "borra"  BY <1>1 DEF SinMano, Manos1
<1>3. /\ caracteristica # Ausente /\ caracteristica' = [caracteristica EXCEPT !.activo = activo]
      /\ TomaMano(w, m) /\ revuelto' = (revuelto \/ EnEdicion # {})
      /\ UNCHANGED <<reglas, aliasFilas, aliasRevuelto, giro, locacionesVivas>>
  BY DEF EditaCaracteristica, sobreAlias, sobreLocaciones
<1> HIDE DEF m
<1>4. caracteristica \in [estado : {"viva"}, activo : BOOLEAN]
  BY <1>3 DEF CaracteristicaInv, FormaCaracteristica
<1>5. caracteristica' \in [estado : {"viva"}, activo : BOOLEAN]  BY <1>3, <1>4
<1>6. caracteristica' # Ausente  BY <1>5 DEF Ausente
<1> QED BY <1>2, <1>3, <1>5, <1>6, CarInvEdita

LEMMA CarInvQuita ==
    ASSUME CaracteristicaInv, NEW w \in Manos, QuitaCaracteristica(w)
    PROVE  CaracteristicaInv'
<1> DEFINE m == [SinMano EXCEPT !.op = "elimina"]
<1>1. m \in Manos1 /\ m.op = "elimina"  BY SinManoTipo
<1>2. /\ reglas' = {} /\ aliasFilas' = 0 /\ TomaMano(w, m)
      /\ revuelto' = (revuelto \/ EnEdicion # {})
      /\ UNCHANGED <<caracteristica, aliasRevuelto, giro, locacionesVivas>>
  BY DEF QuitaCaracteristica, sobreLocaciones
<1>3. caracteristica = Ausente \/ caracteristica \in [estado : {"viva"}, activo : BOOLEAN]
  BY DEF CaracteristicaInv, FormaCaracteristica
<1> HIDE DEF m
<1> QED BY <1>1, <1>2, <1>3, CarInvEdita

\* An edit goes on, and ends.
LEMMA CarInvBorra ==
    ASSUME CaracteristicaInv, NEW w \in Manos, BorraReglas(w) PROVE CaracteristicaInv'
<1> DEFINE m == [mano[w] EXCEPT !.op = "inserta"]
<1>1. /\ mano[w].op = "borra" /\ reglas' = {} /\ mano' = [mano EXCEPT ![w] = m]
      /\ UNCHANGED <<caracteristica, dichas, revuelto, aliasFilas, aliasRevuelto, giro, locacionesVivas>>
  BY DEF BorraReglas, sobreAlias, sobreLocaciones
<1>2. FormaCaracteristica /\ mano[w] \in Manos1  BY DEF CaracteristicaInv, FormaCaracteristica
<1>3. m \in Manos1 /\ m.op = "inserta"  BY <1>2 DEF Manos1
<1> HIDE DEF m
<1>4. /\ w \in EnEdicion /\ w \notin ConAlias  BY <1>1 DEF EnEdicion, Edita, ConAlias
<1>5. /\ mano' \in [Manos -> Manos1] /\ mano'[w] = m
      /\ \A v \in Manos : v # w => mano'[v] = mano[v]
      /\ EnEdicion' = EnEdicion /\ ConAlias' = ConAlias
  <2>1. ConAlias' = ConAlias \ {w} /\ EnEdicion' = EnEdicion \cup {w}
    BY <1>1, <1>2, <1>3, CambiaUnaMano
  <2>2. mano' \in [Manos -> Manos1] /\ mano'[w] = m /\ \A v \in Manos : v # w => mano'[v] = mano[v]
    BY <1>1, <1>2, <1>3, CambiaUnaMano
  <2>3. ConAlias \ {w} = ConAlias /\ EnEdicion \cup {w} = EnEdicion  BY <1>4
  <2> QED BY <2>1, <2>2, <2>3
<1>6. FormaCaracteristica'  BY <1>1, <1>2, <1>5 DEF FormaCaracteristica
<1>7. ReglasDichas'  BY <1>1, <1>3, <1>4, <1>5 DEF CaracteristicaInv, ReglasDichas
<1>8. UnAlias'  BY <1>1, <1>5 DEF CaracteristicaInv, UnAlias
<1> QED BY <1>6, <1>7, <1>8 DEF CaracteristicaInv

LEMMA CarInvInserta ==
    ASSUME CaracteristicaInv, NEW w \in Manos, InsertaReglas(w) PROVE CaracteristicaInv'
<1>1. /\ mano[w].op = "inserta" /\ mano' = [mano EXCEPT ![w] = SinMano]
      /\ reglas' = reglas \cup mano[w].reglas /\ dichas' = mano[w].reglas
      /\ UNCHANGED <<caracteristica, revuelto, aliasFilas, aliasRevuelto, giro, locacionesVivas>>
  BY DEF InsertaReglas, Suelta, sobreAlias, sobreLocaciones
<1>2. FormaCaracteristica /\ mano[w].reglas \subseteq ReglasPosibles
  BY DEF CaracteristicaInv, FormaCaracteristica, Manos1
<1>3. w \in EnEdicion /\ w \notin ConAlias  BY <1>1 DEF EnEdicion, Edita, ConAlias
<1>4. /\ mano' \in [Manos -> Manos1]
      /\ EnEdicion' = EnEdicion \ {w} /\ ConAlias' = ConAlias
  <2>1. ConAlias' = ConAlias \ {w} /\ EnEdicion' = EnEdicion \ {w}
    BY <1>1, <1>2, SinManoNada, CambiaUnaMano
  <2>2. mano' \in [Manos -> Manos1]  BY <1>1, <1>2, SinManoNada, CambiaUnaMano
  <2>3. ConAlias \ {w} = ConAlias  BY <1>3
  <2> QED BY <2>1, <2>2, <2>3
<1>5. FormaCaracteristica'  BY <1>1, <1>2, <1>4 DEF FormaCaracteristica
<1>6. ReglasDichas'
  <2> SUFFICES ASSUME ~revuelto PROVE ReglasDichas'  BY <1>1 DEF ReglasDichas
  <2>1. EnEdicion = {w} /\ reglas = {} /\ caracteristica # Ausente
    BY <1>1, <1>3 DEF CaracteristicaInv, ReglasDichas
  <2> QED BY <1>1, <1>4, <2>1 DEF ReglasDichas
<1>7. UnAlias'  BY <1>1, <1>4 DEF CaracteristicaInv, UnAlias
<1> QED BY <1>5, <1>6, <1>7 DEF CaracteristicaInv

LEMMA CarInvElimina ==
    ASSUME CaracteristicaInv, NEW w \in Manos, EliminaCaracteristica(w) PROVE CaracteristicaInv'
<1>1. /\ mano[w].op = "elimina" /\ mano' = [mano EXCEPT ![w] = SinMano]
      /\ caracteristica' = Ausente /\ dichas' = {}
      /\ UNCHANGED <<reglas, revuelto, aliasFilas, aliasRevuelto, giro, locacionesVivas>>
  BY DEF EliminaCaracteristica, Suelta, sobreAlias
<1>2. FormaCaracteristica  BY DEF CaracteristicaInv
<1>3. w \in EnEdicion /\ w \notin ConAlias  BY <1>1 DEF EnEdicion, Edita, ConAlias
<1>4. /\ mano' \in [Manos -> Manos1]
      /\ EnEdicion' = EnEdicion \ {w} /\ ConAlias' = ConAlias
  <2>1. ConAlias' = ConAlias \ {w} /\ EnEdicion' = EnEdicion \ {w}
    BY <1>1, <1>2, SinManoNada, CambiaUnaMano
  <2>2. mano' \in [Manos -> Manos1]  BY <1>1, <1>2, SinManoNada, CambiaUnaMano
  <2>3. ConAlias \ {w} = ConAlias  BY <1>3
  <2> QED BY <2>1, <2>2, <2>3
<1>5. FormaCaracteristica'  BY <1>1, <1>2, <1>4 DEF FormaCaracteristica
<1>6. ReglasDichas'
  <2> SUFFICES ASSUME ~revuelto PROVE ReglasDichas'  BY <1>1 DEF ReglasDichas
  <2>1. EnEdicion = {w} /\ reglas = {}  BY <1>1, <1>3 DEF CaracteristicaInv, ReglasDichas
  <2> QED BY <1>1, <1>4, <2>1 DEF ReglasDichas
<1>7. UnAlias'  BY <1>1, <1>4 DEF CaracteristicaInv, UnAlias
<1> QED BY <1>5, <1>6, <1>7 DEF CaracteristicaInv

\* A step that neither edits the rules nor the alias.
LEMMA CarInvAjeno ==
    ASSUME CaracteristicaInv, UNCHANGED <<caracteristica, reglas, dichas, revuelto>>,
           EnEdicion' = EnEdicion, \A w \in EnEdicion : mano'[w] = mano[w],
           mano' \in [Manos -> Manos1], giro' \in [Locaciones -> Giros],
           locacionesVivas' \subseteq Locaciones, aliasFilas' \in Nat,
           aliasRevuelto' \in BOOLEAN, UnAlias'
    PROVE  CaracteristicaInv'
<1>1. FormaCaracteristica'  BY DEF CaracteristicaInv, FormaCaracteristica
<1>2. ReglasDichas'  BY DEF CaracteristicaInv, ReglasDichas
<1> QED BY <1>1, <1>2 DEF CaracteristicaInv

LEMMA CarInvAlias ==
    ASSUME CaracteristicaInv, NEW w \in Manos,
           PideAlias(w) \/ GuardaAlias(w) \/ GuardaAsignada(w)
             \/ \E s \in Locaciones : AsignaCaracteristica(w, s)
    PROVE  CaracteristicaInv'
<1>1. /\ FormaCaracteristica /\ mano[w] \in Manos1
      /\ UNCHANGED <<caracteristica, reglas, dichas, revuelto, giro, locacionesVivas>>
  BY DEF PideAlias, GuardaAlias, GuardaAsignada, AsignaCaracteristica, CaracteristicaInv,
     FormaCaracteristica, sobreReglas, sobreLocaciones
<1>2. PICK m \in Manos1 : /\ mano' = [mano EXCEPT ![w] = m]
                          /\ m.op \in {"nada", "alias", "asigna"}
                          /\ mano[w].op \in {"nada", "alias", "asigna"}
                          /\ PideAlias(w) => m.op = "alias"
                          /\ ~PideAlias(w) => m.op # "alias"
  <2>1. CASE PideAlias(w)
    <3> DEFINE m == [SinMano EXCEPT !.op = "alias"]
    <3>1. m \in Manos1 /\ m.op = "alias"  BY SinManoTipo
    <3>2. mano' = [mano EXCEPT ![w] = m] /\ mano[w].op = "nada"
      BY <2>1, SinManoNada DEF PideAlias, TomaMano
    <3> QED BY <2>1, <3>1, <3>2
  <2>2. CASE ~PideAlias(w) /\ (GuardaAlias(w) \/ GuardaAsignada(w))
    BY <2>2, SinManoNada DEF GuardaAlias, GuardaAsignada, Suelta
  <2>3. CASE ~PideAlias(w) /\ \E s \in Locaciones : AsignaCaracteristica(w, s)
    <3>1. PICK s \in Locaciones : AsignaCaracteristica(w, s)  BY <2>3
    <3> DEFINE m == [SinMano EXCEPT !.op = "asigna", !.s = s]
    <3>2. m \in Manos1 /\ m.op = "asigna"  BY SinManoTipo
    <3>3. mano' = [mano EXCEPT ![w] = m] /\ mano[w].op = "nada"
      BY <3>1, SinManoNada DEF AsignaCaracteristica, TomaMano
    <3> QED BY <2>3, <3>2, <3>3
  <2> QED BY <2>1, <2>2, <2>3
<1>3. w \notin EnEdicion /\ m.op \notin {"borra", "inserta", "elimina"}
  BY <1>2 DEF EnEdicion, Edita
<1>4. /\ mano' \in [Manos -> Manos1] /\ EnEdicion' = EnEdicion
      /\ \A v \in EnEdicion : mano'[v] = mano[v]
      /\ PideAlias(w) => ConAlias' = ConAlias \cup {w}
      /\ ~PideAlias(w) => ConAlias' = ConAlias \ {w}
  <2>1. EnEdicion' = EnEdicion \ {w}  BY <1>1, <1>2, <1>3, CambiaUnaMano
  <2>2. /\ PideAlias(w) => ConAlias' = ConAlias \cup {w}
        /\ ~PideAlias(w) => ConAlias' = ConAlias \ {w}
    BY <1>1, <1>2, CambiaUnaMano
  <2>3. mano' \in [Manos -> Manos1] /\ \A v \in Manos : v # w => mano'[v] = mano[v]
    BY <1>1, <1>2, CambiaUnaMano
  <2> QED BY <1>3, <2>1, <2>2, <2>3 DEF EnEdicion
<1>5. aliasFilas \in Nat /\ aliasRevuelto \in BOOLEAN /\ giro \in [Locaciones -> Giros]
      /\ locacionesVivas \subseteq Locaciones
  BY <1>1 DEF FormaCaracteristica
<1>6. aliasFilas' \in Nat /\ aliasRevuelto' \in BOOLEAN /\ UnAlias'
  <2>1. CASE PideAlias(w)
    <3>1. /\ aliasFilas = 0 /\ aliasFilas' = 0
          /\ aliasRevuelto' = (aliasRevuelto \/ ConAlias # {})
      BY <2>1 DEF PideAlias, ConAlias
    <3>2. ConAlias' = ConAlias \cup {w}  BY <1>4, <2>1
    <3>3. ~aliasRevuelto' => ConAlias' = {w}  BY <1>5, <3>1, <3>2
    <3> QED BY <1>5, <3>1, <3>3 DEF UnAlias
  <2>2. CASE GuardaAlias(w)
    BY <2>2, <1>5, <1>4 DEF GuardaAlias, ConAlias, PideAlias, CaracteristicaInv, UnAlias
  <2>3. CASE ~PideAlias(w) /\ ~GuardaAlias(w)
    BY <2>3, <1>4, <1>5 DEF GuardaAsignada, AsignaCaracteristica, sobreAlias, CaracteristicaInv,
       UnAlias
  <2> QED BY <2>1, <2>2, <2>3
<1> QED BY <1>1, <1>4, <1>5, <1>6, CarInvAjeno

LEMMA CarInvFalla ==
    ASSUME CaracteristicaInv, NEW w \in Manos, FallaMano(w) PROVE CaracteristicaInv'
<1>1. /\ mano' = [mano EXCEPT ![w] = SinMano] /\ revuelto' = (revuelto \/ w \in EnEdicion)
      /\ UNCHANGED <<caracteristica, reglas, dichas, aliasFilas, aliasRevuelto, giro, locacionesVivas>>
  BY DEF FallaMano, Suelta, EnEdicion, sobreAlias, sobreLocaciones
<1>2. FormaCaracteristica  BY DEF CaracteristicaInv
<1>3. /\ mano' \in [Manos -> Manos1] /\ EnEdicion' = EnEdicion \ {w} /\ ConAlias' = ConAlias \ {w}
      /\ \A v \in Manos : v # w => mano'[v] = mano[v]
  BY <1>1, <1>2, SinManoNada, CambiaUnaMano
<1>4. FormaCaracteristica'  BY <1>1, <1>2, <1>3 DEF FormaCaracteristica
<1>5. ReglasDichas'
  <2> SUFFICES ASSUME ~revuelto' PROVE ReglasDichas'  BY DEF ReglasDichas
  <2>1. ~revuelto /\ EnEdicion' = EnEdicion  BY <1>1, <1>3
  <2>2. \A v \in EnEdicion : mano'[v] = mano[v]  BY <1>3, <2>1 DEF EnEdicion
  <2> QED BY <1>1, <2>1, <2>2 DEF CaracteristicaInv, ReglasDichas
<1>6. UnAlias'  BY <1>1, <1>3 DEF CaracteristicaInv, UnAlias
<1> QED BY <1>4, <1>5, <1>6 DEF CaracteristicaInv

LEMMA CaracteristicaInvNext ==
    ASSUME CaracteristicaInv, [CaracteristicasNext]_caracteristicasVars PROVE CaracteristicaInv'
<1>1. CASE UNCHANGED caracteristicasVars
  BY <1>1 DEF caracteristicasVars, CaracteristicaInv, FormaCaracteristica, ReglasDichas, UnAlias,
     EnEdicion, Edita, ConAlias
<1>2. CASE \/ QuitaAlias
           \/ \E s \in Locaciones : \/ QuitaAsignada(s) \/ EliminaLocacion(s)
                                    \/ \E g \in Giros : CambiaGiro(s, g)
  <2>1. /\ UNCHANGED <<caracteristica, reglas, dichas, revuelto, mano, aliasRevuelto>>
        /\ giro' \in [Locaciones -> Giros] /\ locacionesVivas' \subseteq Locaciones
        /\ aliasFilas' \in Nat /\ aliasFilas' <= aliasFilas /\ aliasFilas \in Nat
    BY <1>2 DEF QuitaAlias, QuitaAsignada, EliminaLocacion, CambiaGiro, CaracteristicaInv,
       FormaCaracteristica, sobreReglas, sobreAlias, sobreLocaciones
  <2>2. EnEdicion' = EnEdicion /\ ConAlias' = ConAlias  BY <2>1 DEF EnEdicion, Edita, ConAlias
  <2>3. UnAlias'  BY <2>1, <2>2 DEF CaracteristicaInv, UnAlias
  <2>4. mano' \in [Manos -> Manos1] /\ aliasRevuelto' \in BOOLEAN
    BY <2>1 DEF CaracteristicaInv, FormaCaracteristica
  <2> QED BY <2>1, <2>2, <2>3, <2>4, CarInvAjeno
<1>3. ASSUME NEW w \in Manos, NEW R \in Reglamentos,
             CreaCaracteristica(w, R) \/ \E a \in BOOLEAN : EditaCaracteristica(w, R, a)
      PROVE  CaracteristicaInv'
  BY <1>3, CarInvCrea, CarInvEditaC
<1>4. ASSUME NEW w \in Manos,
             \/ \E s \in Locaciones : AsignaCaracteristica(w, s)
             \/ PideAlias(w) \/ GuardaAlias(w) \/ GuardaAsignada(w)
      PROVE  CaracteristicaInv'
  BY <1>4, CarInvAlias
<1>5. ASSUME NEW w \in Manos,
             \/ BorraReglas(w) \/ InsertaReglas(w) \/ QuitaCaracteristica(w)
             \/ EliminaCaracteristica(w) \/ FallaMano(w)
      PROVE  CaracteristicaInv'
  BY <1>5, CarInvBorra, CarInvInserta, CarInvQuita, CarInvElimina, CarInvFalla
<1> QED BY <1>1, <1>2, <1>3, <1>4, <1>5 DEF CaracteristicasNext

\* The query and the check in JavaScript agree on every set of rules.
LEMMA Concuerdan ==
    ASSUME NEW g \in Giros, NEW R, R \subseteq ReglasPosibles
    PROVE  R \cap Condiciones(g) # {} <=> CumpleAlguna(g, R)
<1>1. ASSUME NEW r \in R
      PROVE  r \in Condiciones(g) <=> CASE r.nivel = "todos" -> TRUE
                   [] r.nivel = "categoria" -> r.ref = g.categoria
                   [] r.nivel = "subcategoria" -> r.ref = g.subcategoria
                   [] OTHER -> FALSE
  <2>1. r \in [nivel : Niveles, ref : Nat] /\ (r.nivel = "todos" <=> r.ref = 0)
    BY <1>1, CaracteristicasAssumption DEF Todos, Niveles, ReglasPosibles, CaracteristicasAssumption
  <2>2. r = [nivel |-> r.nivel, ref |-> r.ref]  BY <2>1
  <2>3. PICK n, f : n = r.nivel /\ f = r.ref /\ r = [nivel |-> n, ref |-> f]  BY <2>2
  <2>4. \A nn, ff : r = [nivel |-> nn, ref |-> ff] <=> n = nn /\ f = ff  BY <2>3
  <2>5. r \in Condiciones(g) <=>
           \/ n = "todos" /\ f = 0
           \/ g.categoria # 0 /\ n = "categoria" /\ f = g.categoria
           \/ g.subcategoria # 0 /\ n = "subcategoria" /\ f = g.subcategoria
    BY <2>4 DEF Condiciones, Todos
  <2> QED BY <2>1, <2>3, <2>5
<1> QED BY <1>1 DEF CumpleAlguna

LEMMA Ofrecen == CaracteristicaInv => OfreceLoQueAcepta
<1> SUFFICES ASSUME CaracteristicaInv PROVE OfreceLoQueAcepta  OBVIOUS
<1>1. ASSUME NEW s \in locacionesVivas
      PROVE  /\ Ofrece(giro[s]) <=> AceptaRegla(s)
             /\ revuelto \/ EnEdicion # {} \/ (Ofrece(giro[s]) <=>
                  caracteristica.activo /\ (dichas = {} \/ CumpleAlguna(giro[s], dichas)))
  <2>1. giro[s] \in Giros /\ reglas \subseteq ReglasPosibles
    BY DEF CaracteristicaInv, FormaCaracteristica
  <2>2. Ofrece(giro[s]) <=> caracteristica.activo /\ (reglas = {} \/ CumpleAlguna(giro[s], reglas))
    BY <2>1, Concuerdan DEF Ofrece
  <2>3. Ofrece(giro[s]) <=> AceptaRegla(s)  BY <1>1, <2>2 DEF AceptaRegla, Aplica
  <2>4. ~revuelto /\ EnEdicion = {} => reglas = dichas  BY DEF CaracteristicaInv, ReglasDichas
  <2> QED BY <2>2, <2>3, <2>4
<1>2. aliasRevuelto \/ aliasFilas <= 1  BY DEF CaracteristicaInv, UnAlias
<1> QED BY <1>1, <1>2 DEF OfreceLoQueAcepta

LEMMA CaracteristicaInvSiempre ==
    CaracteristicasInit /\ [][CaracteristicasNext]_caracteristicasVars => []CaracteristicaInv
<1>1. CaracteristicaInv /\ [CaracteristicasNext]_caracteristicasVars => CaracteristicaInv'
  BY CaracteristicaInvNext
<1> QED BY <1>1, CaracteristicaInvInit, PTL

\* Whoever is about to save a characteristic of a branch names one, and who removes the
\* characteristic takes what was assigned with it.
CaracteristicasTipos ==
    /\ CaracteristicasTypeOK
    /\ \A w \in Manos : mano[w].op = "asigna" => mano[w].s \in Locaciones
    /\ caracteristica = Ausente \/ caracteristica.estado = "viva"

\* A request takes a record of its own, or lets it go.
LEMMA ManoTomada ==
    ASSUME CaracteristicasTipos, NEW w \in Manos, NEW m \in Mano,
           m.op = "asigna" => m.s \in Locaciones,
           mano' = [mano EXCEPT ![w] = m]
    PROVE  /\ mano' \in [Manos -> Mano]
           /\ \A v \in Manos : mano'[v].op = "asigna" => mano'[v].s \in Locaciones
  BY DEF CaracteristicasTipos, CaracteristicasTypeOK

LEMMA ManoSinNada == SinMano \in Mano /\ SinMano.op = "nada"
  BY DEF SinMano, Mano

LEMMA ManoNueva ==
    ASSUME NEW op \in {"borra", "inserta", "elimina", "alias"}, NEW R \in Reglamentos \cup {{Todos}}
    PROVE  LET m == [SinMano EXCEPT !.op = op, !.reglas = R] IN m \in Mano /\ m.op = op
  BY DEF SinMano, Mano

LEMMA ManoDe ==
    ASSUME NEW op \in {"elimina", "alias"}
    PROVE  LET m == [SinMano EXCEPT !.op = op] IN m \in Mano /\ m.op = op
  BY DEF SinMano, Mano

LEMMA ManoAsigna ==
    ASSUME NEW s \in Locaciones
    PROVE  LET m == [SinMano EXCEPT !.op = "asigna", !.s = s] IN m \in Mano /\ m.s = s
  BY DEF SinMano, Mano

LEMMA ReglamentoCabe ==
    ASSUME NEW R \in Reglamentos \cup {{Todos}} PROVE R \subseteq (UNION Reglamentos) \cup {Todos}
  OBVIOUS

LEMMA CaracteristicasTiposInit == CaracteristicasInit => CaracteristicasTipos
<1> SUFFICES ASSUME CaracteristicasInit PROVE CaracteristicasTipos  OBVIOUS
<1>1. Ausente \in [estado : {"libre", "viva"}, activo : BOOLEAN]  BY DEF Ausente
<1>2. /\ mano \in [Manos -> Mano]
      /\ \A w \in Manos : mano[w].op = "asigna" => mano[w].s \in Locaciones
  BY ManoSinNada DEF CaracteristicasInit
<1>3. /\ caracteristica = Ausente /\ reglas = {} /\ dichas = {} /\ aliasFilas \in 0 .. MaxAlias
      /\ giro \in [Locaciones -> Giros] /\ locacionesVivas = Locaciones /\ asignadas = {}
      /\ revuelto \in BOOLEAN /\ aliasRevuelto \in BOOLEAN
  <2>1. aliasFilas = 0 /\ giro \in [Locaciones -> Giros] /\ locacionesVivas = Locaciones
    BY DEF CaracteristicasInit
  <2>2. caracteristica = Ausente /\ reglas = {} /\ dichas = {} /\ asignadas = {}
    BY DEF CaracteristicasInit
  <2>3. revuelto = FALSE /\ aliasRevuelto = FALSE  BY DEF CaracteristicasInit
  <2>4. 0 \in 0 .. MaxAlias  OBVIOUS
  <2> QED BY <2>1, <2>2, <2>3, <2>4
<1>4. CaracteristicasTypeOK  BY <1>1, <1>3, <1>2 DEF CaracteristicasTypeOK
<1> QED BY <1>2, <1>3, <1>4 DEF CaracteristicasTipos

LEMMA CaracteristicasTiposNext ==
    ASSUME CaracteristicasTipos, [CaracteristicasNext]_caracteristicasVars
    PROVE  CaracteristicasTipos'
<1>0. /\ caracteristica \in [estado : {"libre", "viva"}, activo : BOOLEAN]
      /\ reglas \subseteq (UNION Reglamentos) \cup {Todos}
      /\ dichas \subseteq (UNION Reglamentos) \cup {Todos}
      /\ aliasFilas \in 0 .. MaxAlias /\ giro \in [Locaciones -> Giros]
      /\ locacionesVivas \subseteq Locaciones /\ asignadas \subseteq Locaciones
      /\ mano \in [Manos -> Mano] /\ revuelto \in BOOLEAN /\ aliasRevuelto \in BOOLEAN
      /\ caracteristica = Ausente => asignadas = {}
      /\ \A w \in Manos : mano[w].op = "asigna" => mano[w].s \in Locaciones
      /\ caracteristica = Ausente \/ caracteristica.estado = "viva"
  BY DEF CaracteristicasTipos, CaracteristicasTypeOK
<1>00. \A w \in Manos : mano[w].reglas \in Reglamentos \cup {{Todos}}  BY <1>0 DEF Mano
<1>1. CASE UNCHANGED caracteristicasVars
  BY <1>0, <1>1 DEF caracteristicasVars, CaracteristicasTipos, CaracteristicasTypeOK
<1>2. CASE QuitaAlias
  BY <1>0, <1>2 DEF QuitaAlias, sobreReglas, sobreLocaciones, CaracteristicasTipos,
                    CaracteristicasTypeOK
<1>3. ASSUME NEW s \in Locaciones,
             QuitaAsignada(s) \/ EliminaLocacion(s) \/ \E g \in Giros : CambiaGiro(s, g)
      PROVE  CaracteristicasTipos'
  BY <1>0, <1>3 DEF QuitaAsignada, EliminaLocacion, CambiaGiro, sobreReglas, sobreAlias,
                    CaracteristicasTipos, CaracteristicasTypeOK
<1>4. ASSUME NEW w \in Manos, NEW R \in Reglamentos, CreaCaracteristica(w, R)
      PROVE  CaracteristicasTipos'
  <2>1. PICK m : m = [SinMano EXCEPT !.op = "inserta", !.reglas = IF R = {} THEN {Todos} ELSE R]
    OBVIOUS
  <2>2. m \in Mano /\ m.op = "inserta"  BY <2>1, ManoNueva
  <2>3. mano' = [mano EXCEPT ![w] = m]  BY <1>4, <2>1 DEF CreaCaracteristica, TomaMano
  <2>4. /\ mano' \in [Manos -> Mano]
        /\ \A v \in Manos : mano'[v].op = "asigna" => mano'[v].s \in Locaciones
    BY <2>2, <2>3, ManoTomada
  <2>5. caracteristica' \in [estado : {"libre", "viva"}, activo : BOOLEAN]
        /\ caracteristica' # Ausente /\ caracteristica'.estado = "viva" /\ revuelto' \in BOOLEAN
    BY <1>0, <1>4 DEF CreaCaracteristica, Ausente
  <2> QED BY <1>0, <1>4, <2>4, <2>5 DEF CreaCaracteristica, sobreAlias, sobreLocaciones,
              CaracteristicasTipos, CaracteristicasTypeOK
<1>5. ASSUME NEW w \in Manos, NEW R \in Reglamentos, NEW a \in BOOLEAN,
             EditaCaracteristica(w, R, a)
      PROVE  CaracteristicasTipos'
  <2>1. PICK m : m = [SinMano EXCEPT !.op = "borra", !.reglas = R]  OBVIOUS
  <2>2. m \in Mano /\ m.op = "borra"  BY <2>1, ManoNueva
  <2>3. mano' = [mano EXCEPT ![w] = m]  BY <1>5, <2>1 DEF EditaCaracteristica, TomaMano
  <2>4. /\ mano' \in [Manos -> Mano]
        /\ \A v \in Manos : mano'[v].op = "asigna" => mano'[v].s \in Locaciones
    BY <2>2, <2>3, ManoTomada
  <2>5. caracteristica' \in [estado : {"libre", "viva"}, activo : BOOLEAN]
        /\ caracteristica' # Ausente /\ caracteristica'.estado = "viva" /\ revuelto' \in BOOLEAN
    BY <1>0, <1>5 DEF EditaCaracteristica, Ausente
  <2> QED BY <1>0, <1>5, <2>4, <2>5 DEF EditaCaracteristica, sobreAlias, sobreLocaciones,
              CaracteristicasTipos, CaracteristicasTypeOK
<1>6. ASSUME NEW w \in Manos, NEW s \in Locaciones, AsignaCaracteristica(w, s)
      PROVE  CaracteristicasTipos'
  <2>1. PICK m : m = [SinMano EXCEPT !.op = "asigna", !.s = s]  OBVIOUS
  <2>2. m \in Mano /\ m.s \in Locaciones  BY <2>1, ManoAsigna
  <2>3. mano' = [mano EXCEPT ![w] = m]  BY <1>6, <2>1 DEF AsignaCaracteristica, TomaMano
  <2>4. /\ mano' \in [Manos -> Mano]
        /\ \A v \in Manos : mano'[v].op = "asigna" => mano'[v].s \in Locaciones
    BY <2>2, <2>3, ManoTomada
  <2> QED BY <1>0, <1>6, <2>4 DEF AsignaCaracteristica, sobreReglas, sobreAlias, sobreLocaciones,
              CaracteristicasTipos, CaracteristicasTypeOK
<1>7. ASSUME NEW w \in Manos, BorraReglas(w) PROVE CaracteristicasTipos'
  <2>1. PICK m : m = [mano[w] EXCEPT !.op = "inserta"]  OBVIOUS
  <2>2. m \in Mano /\ m.op = "inserta" /\ mano' = [mano EXCEPT ![w] = m]
    BY <1>0, <1>7, <2>1 DEF Mano, BorraReglas
  <2>3. /\ mano' \in [Manos -> Mano]
        /\ \A v \in Manos : mano'[v].op = "asigna" => mano'[v].s \in Locaciones
    BY <2>2, ManoTomada
  <2> QED BY <1>0, <1>7, <2>3 DEF BorraReglas, sobreAlias, sobreLocaciones,
              CaracteristicasTipos, CaracteristicasTypeOK
<1>8. ASSUME NEW w \in Manos, Suelta(w)
      PROVE  /\ mano' \in [Manos -> Mano]
             /\ \A v \in Manos : mano'[v].op = "asigna" => mano'[v].s \in Locaciones
  BY <1>8, ManoSinNada, ManoTomada DEF Suelta
<1>9. ASSUME NEW w \in Manos, InsertaReglas(w) PROVE CaracteristicasTipos'
  <2>1. mano[w].reglas \subseteq (UNION Reglamentos) \cup {Todos}  BY <1>00, ReglamentoCabe
  <2>2. Suelta(w)  BY <1>9 DEF InsertaReglas
  <2> QED BY <1>0, <1>8, <1>9, <2>1, <2>2 DEF InsertaReglas, sobreAlias, sobreLocaciones,
              CaracteristicasTipos, CaracteristicasTypeOK
<1>10. ASSUME NEW w \in Manos, QuitaCaracteristica(w) PROVE CaracteristicasTipos'
  <2>1. PICK m : m = [SinMano EXCEPT !.op = "elimina"]  OBVIOUS
  <2>2. m \in Mano /\ m.op = "elimina"  BY <2>1, ManoDe
  <2>3. mano' = [mano EXCEPT ![w] = m]  BY <1>10, <2>1 DEF QuitaCaracteristica, TomaMano
  <2>4. /\ mano' \in [Manos -> Mano]
        /\ \A v \in Manos : mano'[v].op = "asigna" => mano'[v].s \in Locaciones
    BY <2>2, <2>3, ManoTomada
  <2>5. aliasFilas' \in 0 .. MaxAlias /\ revuelto' \in BOOLEAN /\ reglas' = {}
    BY <1>0, <1>10 DEF QuitaCaracteristica
  <2> QED BY <1>0, <1>10, <2>4, <2>5 DEF QuitaCaracteristica, sobreLocaciones,
              CaracteristicasTipos, CaracteristicasTypeOK
<1>11. ASSUME NEW w \in Manos, EliminaCaracteristica(w) PROVE CaracteristicasTipos'
  BY <1>11, <1>0, <1>8 DEF EliminaCaracteristica, Ausente, sobreAlias, CaracteristicasTipos,
     CaracteristicasTypeOK
<1>12. ASSUME NEW w \in Manos, PideAlias(w) PROVE CaracteristicasTipos'
  <2>1. PICK m : m = [SinMano EXCEPT !.op = "alias"]  OBVIOUS
  <2>2. m \in Mano /\ m.op = "alias"  BY <2>1, ManoDe
  <2>3. mano' = [mano EXCEPT ![w] = m]  BY <1>12, <2>1 DEF PideAlias, TomaMano
  <2>4. /\ mano' \in [Manos -> Mano]
        /\ \A v \in Manos : mano'[v].op = "asigna" => mano'[v].s \in Locaciones
    BY <2>2, <2>3, ManoTomada
  <2> QED BY <1>0, <1>12, <2>4 DEF PideAlias, sobreReglas, sobreLocaciones,
              CaracteristicasTipos, CaracteristicasTypeOK
<1>13. ASSUME NEW w \in Manos, GuardaAlias(w) \/ GuardaAsignada(w) \/ FallaMano(w)
       PROVE  CaracteristicasTipos'
  <2>1. Suelta(w)  BY <1>13 DEF GuardaAlias, GuardaAsignada, FallaMano
  <2>2. CASE GuardaAlias(w)
    BY <1>0, <1>8, <2>1, <2>2 DEF GuardaAlias, sobreReglas, sobreLocaciones,
       CaracteristicasTipos, CaracteristicasTypeOK
  <2>3. CASE GuardaAsignada(w)
    BY <1>0, <1>8, <2>1, <2>3 DEF GuardaAsignada, sobreReglas, sobreAlias,
       CaracteristicasTipos, CaracteristicasTypeOK
  <2>4. CASE FallaMano(w)
    BY <1>0, <1>8, <2>1, <2>4 DEF FallaMano, sobreAlias, sobreLocaciones,
       CaracteristicasTipos, CaracteristicasTypeOK
  <2> QED BY <1>13, <2>2, <2>3, <2>4
<1> QED BY <1>1, <1>2, <1>3, <1>4, <1>5, <1>6, <1>7, <1>9, <1>10, <1>11, <1>12, <1>13
        DEF CaracteristicasNext

LEMMA CaracteristicasTiposSiempre ==
    CaracteristicasInit /\ [][CaracteristicasNext]_caracteristicasVars => []CaracteristicasTipos
<1>1. CaracteristicasTipos /\ [CaracteristicasNext]_caracteristicasVars => CaracteristicasTipos'
  BY CaracteristicasTiposNext
<1> QED BY <1>1, CaracteristicasTiposInit, PTL

HIDE CaracteristicasAssumption

--------------------
(* Metricas.  Each count is the sum of what was written, and of what the   *)
(* requests at work have still to write.                                   *)
USE MetricasAssumption DEF MetricasAssumption

LEMMA EventosSuman == ASSUME NEW f, NEW S PROVE SumaEventos(f, S) = Sumatoria(f, S)
  BY DEF SumaEventos, Sumatoria

Contables == Tiendas \cup Empresas

LEMMA ContablesFinitos == IsFiniteSet(Contables)
  BY FS_Union DEF Contables

LEMMA OtraEmpresaEs == OtraEmpresa \in Empresas
  BY DEF OtraEmpresa

MetricasTipos ==
    /\ contador \in [Contables -> Nat] /\ detalle \in [Contables -> Nat]
    /\ tablaPromo \in Seq(Nat) /\ contadas \in Nat /\ promoEventos \in [Tiendas \X Empresas -> Nat]
    /\ empresaDe \in [Tiendas -> Empresas] /\ movidas \subseteq Tiendas
    /\ eliminadas \subseteq Empresas /\ historico \in [Filas -> Nat \cup {SinFila}]
    /\ semanal \in [1 .. MaxDia \div Semana -> Int]
    /\ diaMetrica \in 0 .. MaxDia /\ hora \in {0, 1, 2} /\ toque \in [Toques -> Toque]
    /\ eventos \in Cuantos /\ cortes \in Nat /\ carreraVista \in BOOLEAN

\* The requests that are about to write.
ConDetalle == {w \in Toques : toque[w].op = "detalle"}
DetalleDe(e) == {w \in ConDetalle : toque[w].e = e}
ConVista == {w \in Toques : toque[w].op = "escribe"}
ConFilaNueva == {w \in ConVista : ~toque[w].existe}
ConEvento == {w \in Toques : toque[w].op = "evento"}
EventoDe(s, n) == {w \in ConEvento : toque[w].e = s /\ toque[w].n = n}

\* No count goes past the events there were.
CuentasCaben ==
    /\ \A e \in Contables : contador[e] <= eventos
           /\ detalle[e] + Cardinality(DetalleDe(e)) <= eventos
    /\ cortes + Cardinality(ConDetalle) <= eventos
    /\ contadas + Cardinality(ConVista) <= eventos
    /\ \A s \in Tiendas, n \in Empresas : promoEventos[<<s, n>>] + Cardinality(EventoDe(s, n)) <=
           eventos
    /\ \A k \in DOMAIN tablaPromo : tablaPromo[k] <= contadas
    /\ Len(tablaPromo) + Cardinality(ConFilaNueva) <= Cardinality(Toques)
    /\ SumaEventos(contador, Contables) <= eventos

EventosEnRegla ==
    SumaEventos(contador, Contables) = SumaEventos(detalle, Contables) + cortes
        + Cardinality(ConDetalle)

VistasEnRegla ==
    carreraVista \/
        /\ (tablaPromo = <<>> /\ contadas = 0) \/ tablaPromo = <<contadas>>
        /\ tablaPromo = <<>> => /\ \A v \in ConVista : ~toque[v].existe
                                /\ \A v \in ConVista, w \in ConVista : v = w
        /\ tablaPromo # <<>> => \A v \in ConVista : toque[v].existe

EmpresasEnRegla ==
    movidas = {} =>
        /\ \A s \in Tiendas : empresaDe[s] = OtraEmpresa
        /\ \A s \in Tiendas, n \in Empresas : n # OtraEmpresa => promoEventos[<<s, n>>] = 0
        /\ \A w \in ConEvento : toque[w].n = OtraEmpresa

HistoricoEnRegla ==
    /\ \A d \in 0 .. MaxDia, n \in Empresas : historico[<<d, n>>] # SinFila =>
           /\ d < diaMetrica /\ (hora < 2 => d < diaMetrica - 1)
           /\ historico[<<d, n>>] <= contador[n]
    /\ \A n \in Empresas, d \in 0 .. MaxDia, e \in 0 .. MaxDia :
           d < e /\ historico[<<d, n>>] # SinFila /\ historico[<<e, n>>] # SinFila
               => historico[<<d, n>>] <= historico[<<e, n>>]

\* The rows the summary of a week added up: those of its last day came after.
DeLaSemana(s) == {p \in FilasDe(s) : p[1] # s * Semana - 1}

SemanalEnRegla ==
    \A s \in 1 .. MaxDia \div Semana : semanal[s] # SinFila =>
        /\ s * Semana <= diaMetrica /\ (s * Semana = diaMetrica => hora # 0)
        /\ semanal[s] = SumaEventos(historico, DeLaSemana(s))

MetricasInv ==
    /\ MetricasTipos /\ CuentasCaben /\ EventosEnRegla /\ VistasEnRegla /\ EmpresasEnRegla
    /\ HistoricoEnRegla /\ SemanalEnRegla

\* A request comes, or is answered.
LEMMA ToqueCambia ==
    ASSUME MetricasTipos, NEW w \in Toques, NEW t, toque' = [toque EXCEPT ![w] = t]
    PROVE  toque'[w] = t /\ \A v \in Toques : v # w => toque'[v] = toque[v]
  BY DEF MetricasTipos

LEMMA ToqueTipos ==
    /\ SinToque \in Toque
    /\ \A op \in {"nada", "detalle", "escribe", "evento"}, x \in BOOLEAN,
          e \in Tiendas \cup Empresas, n \in Empresas :
          [op |-> op, existe |-> x, e |-> e, n |-> n] \in Toque
  BY OtraEmpresaEs DEF SinToque, Toque

LEMMA PendientesFinitos ==
    /\ IsFiniteSet(ConDetalle) /\ IsFiniteSet(ConVista) /\ IsFiniteSet(ConFilaNueva)
           /\ IsFiniteSet(ConEvento)
    /\ \A e : IsFiniteSet(DetalleDe(e))
    /\ \A s, n : IsFiniteSet(EventoDe(s, n))
<1>1. ConDetalle \subseteq Toques /\ ConVista \subseteq Toques /\ ConFilaNueva \subseteq Toques
          /\ ConEvento \subseteq Toques
  BY DEF ConDetalle, ConVista, ConFilaNueva, ConEvento
<1>2. \A e : DetalleDe(e) \subseteq Toques  BY DEF DetalleDe, ConDetalle
<1>3. \A s, n : EventoDe(s, n) \subseteq Toques  BY DEF EventoDe, ConEvento
<1> QED BY <1>1, <1>2, <1>3, FS_Subset

LEMMA PendientesCuenta ==
    /\ Cardinality(ConDetalle) \in Nat /\ Cardinality(ConVista) \in Nat
    /\ Cardinality(ConFilaNueva) \in Nat /\ Cardinality(ConEvento) \in Nat
    /\ \A e : Cardinality(DetalleDe(e)) \in Nat
    /\ \A s, n : Cardinality(EventoDe(s, n)) \in Nat
  BY PendientesFinitos, FS_CardinalityType

LEMMA PendientesCuentaPrima ==
    /\ Cardinality(ConDetalle)' \in Nat /\ Cardinality(ConVista)' \in Nat
    /\ Cardinality(ConFilaNueva)' \in Nat /\ Cardinality(ConEvento)' \in Nat
    /\ \A e : Cardinality(DetalleDe(e))' \in Nat
    /\ \A s, n : Cardinality(EventoDe(s, n))' \in Nat
<1>1. /\ ConDetalle' \subseteq Toques /\ ConVista' \subseteq Toques
             /\ ConFilaNueva' \subseteq Toques
      /\ ConEvento' \subseteq Toques
  BY DEF ConDetalle, ConVista, ConFilaNueva, ConEvento
<1>2. \A e : DetalleDe(e)' \subseteq Toques  BY DEF DetalleDe, ConDetalle
<1>3. \A s, n : EventoDe(s, n)' \subseteq Toques  BY DEF EventoDe, ConEvento
<1> QED BY <1>1, <1>2, <1>3, FS_Subset, FS_CardinalityType

\* One request more, or one less.
LEMMA UnoMas ==
    ASSUME NEW S, IsFiniteSet(S), NEW w
    PROVE  /\ w \notin S => Cardinality(S \cup {w}) = Cardinality(S) + 1
           /\ w \in S => Cardinality(S \ {w}) = Cardinality(S) - 1
           /\ Cardinality(S) \in Nat
           /\ w \in S => Cardinality(S) >= 1
<1>1. w \notin S => Cardinality(S \cup {w}) = Cardinality(S) + 1  BY FS_AddElement
<1>2. w \in S => Cardinality(S \ {w}) = Cardinality(S) - 1  BY FS_RemoveElement
<1>3. Cardinality(S) \in Nat /\ Cardinality(S \ {w}) \in Nat
  BY FS_RemoveElement, FS_CardinalityType
<1> QED BY <1>1, <1>2, <1>3

LEMMA MetricasInvInit == MetricasInit => MetricasInv
<1> SUFFICES ASSUME MetricasInit PROVE MetricasInv  OBVIOUS
<1>1. PICK z : z = [e \in Contables |-> 0]  OBVIOUS
<1>2. contador = z /\ detalle = z /\ tablaPromo = <<>> /\ contadas = 0 /\ cortes = 0 /\ eventos = 0
  BY <1>1 DEF MetricasInit, Contables
<1>3. MetricasTipos
  <2>1. contador \in [Contables -> Nat] /\ detalle \in [Contables -> Nat] /\ tablaPromo \in Seq(Nat)
    BY <1>1, <1>2
  <2>2. toque \in [Toques -> Toque]  BY ToqueTipos DEF MetricasInit
  <2>3. historico \in [Filas -> Nat \cup {SinFila}]
            /\ semanal \in [1 .. MaxDia \div Semana -> Int]
    BY DEF MetricasInit, SinFila
  <2>4. empresaDe \in [Tiendas -> Empresas] /\ promoEventos \in [Tiendas \X Empresas -> Nat]
    BY OtraEmpresaEs DEF MetricasInit
  <2>5. diaMetrica \in 0 .. MaxDia /\ hora \in {0, 1, 2} /\ eventos \in Cuantos
    BY DEF MetricasInit, Cuantos
  <2>6. movidas \subseteq Tiendas /\ eliminadas \subseteq Empresas /\ contadas \in Nat /\ cortes \in Nat /\ carreraVista \in BOOLEAN
    BY DEF MetricasInit
  <2> QED BY <2>1, <2>2, <2>3, <2>4, <2>5, <2>6 DEF MetricasTipos
<1>4. /\ ConDetalle = {} /\ ConVista = {} /\ ConFilaNueva = {} /\ ConEvento = {}
      /\ (\A e : DetalleDe(e) = {}) /\ (\A s, n : EventoDe(s, n) = {})
  BY DEF MetricasInit, SinToque, ConDetalle, ConVista, ConFilaNueva, ConEvento, DetalleDe, EventoDe
<1>5. Cardinality({}) = 0 /\ Cardinality(Toques) \in Nat  BY FS_EmptySet, FS_CardinalityType
<1>6. SumaEventos(z, Contables) = 0  BY <1>1, ContablesFinitos, SumaCeros, EventosSuman
<1>7. CuentasCaben
  <2>1. \A e \in Contables : contador[e] = 0 /\ detalle[e] = 0  BY <1>1, <1>2
  <2>2. \A s \in Tiendas, n \in Empresas : promoEventos[<<s, n>>] = 0  BY DEF MetricasInit
  <2>3. Len(tablaPromo) = 0 /\ DOMAIN tablaPromo = {}  BY <1>2
  <2>4. \A e \in Contables : contador[e] <= eventos
            /\ detalle[e] + Cardinality(DetalleDe(e)) <= eventos
    <3>1. \A e \in Contables : Cardinality(DetalleDe(e)) = 0  BY <1>4, <1>5
    <3> QED BY <1>2, <2>1, <3>1
  <2>5. \A s \in Tiendas, n \in Empresas :
            promoEventos[<<s, n>>] + Cardinality(EventoDe(s, n)) <= eventos
    <3>1. \A s \in Tiendas, n \in Empresas : Cardinality(EventoDe(s, n)) = 0  BY <1>4, <1>5
    <3> SUFFICES ASSUME NEW s \in Tiendas, NEW n \in Empresas
                 PROVE  promoEventos[<<s, n>>] + Cardinality(EventoDe(s, n)) <= eventos
      OBVIOUS
    <3>2. promoEventos[<<s, n>>] = 0 /\ Cardinality(EventoDe(s, n)) = 0 /\ eventos = 0
      BY <1>2, <2>2, <3>1
    <3> QED BY <3>2
  <2>6. SumaEventos(contador, Contables) <= eventos  BY <1>2, <1>6
  <2>7. cortes + Cardinality(ConDetalle) <= eventos /\ contadas + Cardinality(ConVista) <= eventos
    BY <1>2, <1>4, <1>5
  <2>8. Len(tablaPromo) + Cardinality(ConFilaNueva) <= Cardinality(Toques)  BY <1>4, <1>5, <2>3
  <2> QED BY <2>3, <2>4, <2>5, <2>6, <2>7, <2>8 DEF CuentasCaben
<1>8. EventosEnRegla  BY <1>2, <1>4, <1>5, <1>6 DEF EventosEnRegla
<1>9. VistasEnRegla  BY <1>2, <1>4 DEF VistasEnRegla
<1>10. EmpresasEnRegla  BY <1>4 DEF EmpresasEnRegla, MetricasInit
<1>11. HistoricoEnRegla /\ SemanalEnRegla
  BY DEF HistoricoEnRegla, SemanalEnRegla, MetricasInit, Filas
<1> QED BY <1>3, <1>7, <1>8, <1>9, <1>10, <1>11 DEF MetricasInv

--------------------
(* A request comes, or is answered.                                        *)

LEMMA ToqueLlega ==
    ASSUME MetricasTipos, NEW w \in Toques, NEW t \in Toque, t.op # "nada", LlegaToque(w, t)
    PROVE  /\ toque' \in [Toques -> Toque] /\ eventos' \in Cuantos /\ eventos' = eventos + 1
           /\ toque'[w] = t /\ (\A v \in Toques : v # w => toque'[v] = toque[v])
           /\ w \notin ConDetalle /\ w \notin ConVista /\ w \notin ConEvento
           /\ ConDetalle' = (IF t.op = "detalle" THEN ConDetalle \cup {w} ELSE ConDetalle)
           /\ ConVista' = (IF t.op = "escribe" THEN ConVista \cup {w} ELSE ConVista)
           /\ ConEvento' = (IF t.op = "evento" THEN ConEvento \cup {w} ELSE ConEvento)
<1>1. toque' = [toque EXCEPT ![w] = t] /\ eventos' = eventos + 1 /\ eventos < MaxEventos
          /\ toque[w] = SinToque
  BY DEF LlegaToque
<1>2. toque'[w] = t /\ (\A v \in Toques : v # w => toque'[v] = toque[v])
          /\ toque' \in [Toques -> Toque]
  BY <1>1 DEF MetricasTipos
<1>3. toque[w].op = "nada"  BY <1>1 DEF SinToque
<1>4. w \notin ConDetalle /\ w \notin ConVista /\ w \notin ConEvento
  BY <1>3 DEF ConDetalle, ConVista, ConEvento
<1>5. eventos' \in Cuantos  BY <1>1 DEF MetricasTipos, Cuantos
<1>6. ConDetalle' = (IF t.op = "detalle" THEN ConDetalle \cup {w} ELSE ConDetalle)
  BY <1>2, <1>3 DEF ConDetalle
<1>7. ConVista' = (IF t.op = "escribe" THEN ConVista \cup {w} ELSE ConVista)
  BY <1>2, <1>3 DEF ConVista
<1>8. ConEvento' = (IF t.op = "evento" THEN ConEvento \cup {w} ELSE ConEvento)
  BY <1>2, <1>3 DEF ConEvento
<1> QED BY <1>1, <1>2, <1>4, <1>5, <1>6, <1>7, <1>8

LEMMA LlegaCuenta ==
    ASSUME MetricasTipos, NEW w \in Toques, NEW t \in Toque, t.op # "nada", LlegaToque(w, t)
    PROVE  /\ Cardinality(ConDetalle') = Cardinality(ConDetalle)
                  + (IF t.op = "detalle" THEN 1 ELSE 0)
           /\ Cardinality(ConVista') = Cardinality(ConVista) + (IF t.op = "escribe" THEN 1 ELSE 0)
           /\ Cardinality(ConFilaNueva') =
                  Cardinality(ConFilaNueva) + (IF t.op = "escribe" /\ ~t.existe THEN 1 ELSE 0)
           /\ \A e : Cardinality(DetalleDe(e)') \in Nat
                     /\ Cardinality(DetalleDe(e)') <= Cardinality(DetalleDe(e)) + 1
           /\ \A s, n : Cardinality(EventoDe(s, n)') \in Nat
                        /\ Cardinality(EventoDe(s, n)') <= Cardinality(EventoDe(s, n)) + 1
<1>1. /\ toque'[w] = t /\ (\A v \in Toques : v # w => toque'[v] = toque[v])
      /\ w \notin ConDetalle /\ w \notin ConVista /\ w \notin ConEvento
      /\ ConDetalle' = (IF t.op = "detalle" THEN ConDetalle \cup {w} ELSE ConDetalle)
      /\ ConVista' = (IF t.op = "escribe" THEN ConVista \cup {w} ELSE ConVista)
      /\ ConEvento' = (IF t.op = "evento" THEN ConEvento \cup {w} ELSE ConEvento)
  BY ToqueLlega
<1>2. Cardinality(ConDetalle') = Cardinality(ConDetalle) + (IF t.op = "detalle" THEN 1 ELSE 0)
  <2>1. PICK S : S = ConDetalle  OBVIOUS
  <2>2. IsFiniteSet(S) /\ w \notin S  BY <1>1, <2>1, PendientesFinitos
  <2>3. Cardinality(S \cup {w}) = Cardinality(S) + 1 /\ Cardinality(S) \in Nat  BY <2>2, UnoMas
  <2>4. CASE t.op = "detalle"  BY <1>1, <2>1, <2>3, <2>4
  <2>5. CASE ~(t.op = "detalle")  BY <1>1, <2>1, <2>5, <2>3
  <2> QED BY <2>4, <2>5
<1>3. Cardinality(ConVista') = Cardinality(ConVista) + (IF t.op = "escribe" THEN 1 ELSE 0)
  <2>1. PICK S : S = ConVista  OBVIOUS
  <2>2. IsFiniteSet(S) /\ w \notin S  BY <1>1, <2>1, PendientesFinitos
  <2>3. Cardinality(S \cup {w}) = Cardinality(S) + 1 /\ Cardinality(S) \in Nat  BY <2>2, UnoMas
  <2>4. CASE t.op = "escribe"  BY <1>1, <2>1, <2>3, <2>4
  <2>5. CASE ~(t.op = "escribe")  BY <1>1, <2>1, <2>5, <2>3
  <2> QED BY <2>4, <2>5
<1>4. ConFilaNueva' = (IF t.op = "escribe"
          /\ ~t.existe THEN ConFilaNueva \cup {w} ELSE ConFilaNueva)
      /\ w \notin ConFilaNueva
  BY <1>1 DEF ConFilaNueva, ConVista
<1>5. Cardinality(ConFilaNueva') =
          Cardinality(ConFilaNueva) + (IF t.op = "escribe" /\ ~t.existe THEN 1 ELSE 0)
  <2>1. PICK S : S = ConFilaNueva  OBVIOUS
  <2>2. IsFiniteSet(S) /\ w \notin S  BY <1>4, <2>1, PendientesFinitos
  <2>3. Cardinality(S \cup {w}) = Cardinality(S) + 1 /\ Cardinality(S) \in Nat  BY <2>2, UnoMas
  <2>4. CASE t.op = "escribe" /\ ~t.existe  BY <1>4, <2>1, <2>3, <2>4
  <2>5. CASE ~(t.op = "escribe" /\ ~t.existe)  BY <1>4, <2>1, <2>5, <2>3
  <2> QED BY <2>4, <2>5
<1>6. ASSUME NEW e
      PROVE  Cardinality(DetalleDe(e)') \in Nat
                 /\ Cardinality(DetalleDe(e)') <= Cardinality(DetalleDe(e)) + 1
  <2>1. w \notin DetalleDe(e) /\ (DetalleDe(e)' = DetalleDe(e)
            \/ DetalleDe(e)' = DetalleDe(e) \cup {w})
    BY <1>1 DEF DetalleDe, ConDetalle
  <2>2. PICK S : S = DetalleDe(e)  OBVIOUS
  <2>3. IsFiniteSet(S)  BY <2>2, PendientesFinitos
  <2>4. Cardinality(S \cup {w}) = Cardinality(S) + 1 /\ Cardinality(S) \in Nat
    BY <2>1, <2>2, <2>3, UnoMas
  <2>5. Cardinality(DetalleDe(e)') = Cardinality(S)
            \/ Cardinality(DetalleDe(e)') = Cardinality(S) + 1
    BY <2>1, <2>2, <2>4
  <2> QED BY <2>2, <2>4, <2>5
<1>7. ASSUME NEW s, NEW n
      PROVE  Cardinality(EventoDe(s, n)') \in Nat
             /\ Cardinality(EventoDe(s, n)') <= Cardinality(EventoDe(s, n)) + 1
  <2>1. w \notin EventoDe(s, n)
        /\ (EventoDe(s, n)' = EventoDe(s, n) \/ EventoDe(s, n)' = EventoDe(s, n) \cup {w})
    BY <1>1 DEF EventoDe, ConEvento
  <2>2. PICK S : S = EventoDe(s, n)  OBVIOUS
  <2>3. IsFiniteSet(S)  BY <2>2, PendientesFinitos
  <2>4. Cardinality(S \cup {w}) = Cardinality(S) + 1 /\ Cardinality(S) \in Nat
    BY <2>1, <2>2, <2>3, UnoMas
  <2>5. Cardinality(EventoDe(s, n)') = Cardinality(S)
            \/ Cardinality(EventoDe(s, n)') = Cardinality(S) + 1
    BY <2>1, <2>2, <2>4
  <2> QED BY <2>2, <2>4, <2>5
<1> QED BY <1>2, <1>3, <1>5, <1>6, <1>7

LEMMA ToqueContesta ==
    ASSUME MetricasTipos, NEW w \in Toques, ContestaToque(w)
    PROVE  /\ toque' \in [Toques -> Toque] /\ eventos' = eventos
           /\ toque'[w] = SinToque /\ (\A v \in Toques : v # w => toque'[v] = toque[v])
           /\ ConDetalle' = ConDetalle \ {w} /\ ConVista' = ConVista \ {w}
           /\ ConFilaNueva' = ConFilaNueva \ {w} /\ ConEvento' = ConEvento \ {w}
           /\ (\A e : DetalleDe(e)' = DetalleDe(e) \ {w})
           /\ (\A s, n : EventoDe(s, n)' = EventoDe(s, n) \ {w})
<1>1. /\ toque' \in [Toques -> Toque] /\ eventos' = eventos
      /\ toque'[w] = SinToque /\ (\A v \in Toques : v # w => toque'[v] = toque[v])
  BY ToqueTipos DEF MetricasTipos, ContestaToque
<1>2. toque'[w].op = "nada"  BY <1>1 DEF SinToque
<1>3. ConDetalle' = ConDetalle \ {w} /\ ConVista' = ConVista \ {w} /\ ConEvento' = ConEvento \ {w}
  BY <1>1, <1>2 DEF ConDetalle, ConVista, ConEvento
<1>4. ConFilaNueva' = ConFilaNueva \ {w}  BY <1>1, <1>3 DEF ConFilaNueva, ConVista
<1>5. \A e : DetalleDe(e)' = DetalleDe(e) \ {w}  BY <1>1, <1>3 DEF DetalleDe, ConDetalle
<1>6. \A s, n : EventoDe(s, n)' = EventoDe(s, n) \ {w}  BY <1>1, <1>3 DEF EventoDe, ConEvento
<1> QED BY <1>1, <1>3, <1>4, <1>5, <1>6

LEMMA QuitaUno ==
    ASSUME NEW S, IsFiniteSet(S), NEW w
    PROVE  /\ w \in S => Cardinality(S \ {w}) = Cardinality(S) - 1
           /\ w \notin S => S \ {w} = S
           /\ Cardinality(S \ {w}) \in Nat /\ Cardinality(S \ {w}) <= Cardinality(S)
           /\ Cardinality(S) \in Nat
<1>1. (w \in S => Cardinality(S \ {w}) = Cardinality(S) - 1) /\ Cardinality(S) \in Nat  BY UnoMas
<1>2. w \notin S => S \ {w} = S  OBVIOUS
<1>3. Cardinality(S \ {w}) \in Nat  BY FS_RemoveElement, FS_CardinalityType
<1>4. Cardinality(S \ {w}) <= Cardinality(S)  BY <1>1, <1>2
<1> QED BY <1>1, <1>2, <1>3, <1>4

LEMMA ContestaCuenta ==
    ASSUME MetricasTipos, NEW w \in Toques, ContestaToque(w)
    PROVE  /\ Cardinality(ConDetalle') = Cardinality(ConDetalle) - (IF toque[w].op =
                  "detalle" THEN 1 ELSE 0)
           /\ Cardinality(ConVista') = Cardinality(ConVista) - (IF toque[w].op =
                  "escribe" THEN 1 ELSE 0)
           /\ Cardinality(ConFilaNueva') = Cardinality(ConFilaNueva)
                  - (IF toque[w].op = "escribe" /\ ~toque[w].existe THEN 1 ELSE 0)
           /\ \A e : /\ Cardinality(DetalleDe(e)') \in Nat
                     /\ Cardinality(DetalleDe(e)') <= Cardinality(DetalleDe(e))
                     /\ toque[w].op = "detalle" /\ e = toque[w].e
                            => Cardinality(DetalleDe(e)') = Cardinality(DetalleDe(e)) - 1
           /\ \A s, n : /\ Cardinality(EventoDe(s, n)') \in Nat
                        /\ Cardinality(EventoDe(s, n)') <= Cardinality(EventoDe(s, n))
                        /\ toque[w].op = "evento" /\ s = toque[w].e /\ n = toque[w].n
                               => Cardinality(EventoDe(s, n)') = Cardinality(EventoDe(s, n)) - 1
<1>1. /\ ConDetalle' = ConDetalle \ {w} /\ ConVista' = ConVista \ {w}
      /\ ConFilaNueva' = ConFilaNueva \ {w}
      /\ (\A e : DetalleDe(e)' = DetalleDe(e) \ {w})
      /\ (\A s, n : EventoDe(s, n)' = EventoDe(s, n) \ {w})
  BY ToqueContesta
<1>2. /\ w \in ConDetalle <=> toque[w].op = "detalle"
      /\ w \in ConVista <=> toque[w].op = "escribe"
      /\ w \in ConFilaNueva <=> toque[w].op = "escribe" /\ ~toque[w].existe
  BY DEF ConDetalle, ConVista, ConFilaNueva
<1>3. Cardinality(ConDetalle') = Cardinality(ConDetalle) - (IF toque[w].op =
          "detalle" THEN 1 ELSE 0)
  <2>1. PICK S : S = ConDetalle  OBVIOUS
  <2>2. IsFiniteSet(S) /\ (w \in S <=> toque[w].op = "detalle") /\ ConDetalle' = S \ {w}
    BY <1>1, <1>2, <2>1, PendientesFinitos
  <2>3. Cardinality(S) \in Nat  BY <2>2, QuitaUno
  <2>4. CASE toque[w].op = "detalle"  BY <2>2, <2>4, QuitaUno, <2>1
  <2>5. CASE ~(toque[w].op = "detalle")
    <3>1. ConDetalle' = S  BY <2>2, <2>5
    <3>2. Cardinality(ConDetalle') = Cardinality(S) - 0  BY <2>3, <3>1
    <3> QED BY <2>1, <2>5, <3>2
  <2> QED BY <2>4, <2>5
<1>4. Cardinality(ConVista') = Cardinality(ConVista) - (IF toque[w].op = "escribe" THEN 1 ELSE 0)
  <2>1. PICK S : S = ConVista  OBVIOUS
  <2>2. IsFiniteSet(S) /\ (w \in S <=> toque[w].op = "escribe") /\ ConVista' = S \ {w}
    BY <1>1, <1>2, <2>1, PendientesFinitos
  <2>3. Cardinality(S) \in Nat  BY <2>2, QuitaUno
  <2>4. CASE toque[w].op = "escribe"  BY <2>2, <2>4, QuitaUno, <2>1
  <2>5. CASE ~(toque[w].op = "escribe")
    <3>1. ConVista' = S  BY <2>2, <2>5
    <3>2. Cardinality(ConVista') = Cardinality(S) - 0  BY <2>3, <3>1
    <3> QED BY <2>1, <2>5, <3>2
  <2> QED BY <2>4, <2>5
<1>5. Cardinality(ConFilaNueva') = Cardinality(ConFilaNueva)
          - (IF toque[w].op = "escribe" /\ ~toque[w].existe THEN 1 ELSE 0)
  <2>1. PICK S : S = ConFilaNueva  OBVIOUS
  <2>2. IsFiniteSet(S) /\ (w \in S <=> toque[w].op = "escribe" /\ ~toque[w].existe)
            /\ ConFilaNueva' = S \ {w}
    BY <1>1, <1>2, <2>1, PendientesFinitos
  <2>3. Cardinality(S) \in Nat  BY <2>2, QuitaUno
  <2>4. CASE toque[w].op = "escribe" /\ ~toque[w].existe  BY <2>2, <2>4, QuitaUno, <2>1
  <2>5. CASE ~(toque[w].op = "escribe" /\ ~toque[w].existe)
    <3>1. ConFilaNueva' = S  BY <2>2, <2>5
    <3>2. Cardinality(ConFilaNueva') = Cardinality(S) - 0  BY <2>3, <3>1
    <3> QED BY <2>1, <2>5, <3>2
  <2> QED BY <2>4, <2>5
<1>6. ASSUME NEW e
      PROVE  /\ Cardinality(DetalleDe(e)') \in Nat
             /\ Cardinality(DetalleDe(e)') <= Cardinality(DetalleDe(e))
             /\ toque[w].op = "detalle" /\ e = toque[w].e
                    => Cardinality(DetalleDe(e)') = Cardinality(DetalleDe(e)) - 1
  <2>1. IsFiniteSet(DetalleDe(e)) /\ DetalleDe(e)' = DetalleDe(e) \ {w}  BY <1>1, PendientesFinitos
  <2>2. toque[w].op = "detalle" /\ e = toque[w].e => w \in DetalleDe(e)
    BY DEF DetalleDe, ConDetalle
  <2> QED BY <2>1, <2>2, QuitaUno
<1>7. ASSUME NEW s, NEW n
      PROVE  /\ Cardinality(EventoDe(s, n)') \in Nat
             /\ Cardinality(EventoDe(s, n)') <= Cardinality(EventoDe(s, n))
             /\ toque[w].op = "evento" /\ s = toque[w].e /\ n = toque[w].n
                    => Cardinality(EventoDe(s, n)') = Cardinality(EventoDe(s, n)) - 1
  <2>1. IsFiniteSet(EventoDe(s, n)) /\ EventoDe(s, n)' = EventoDe(s, n) \ {w}
    BY <1>1, PendientesFinitos
  <2>2. toque[w].op = "evento" /\ s = toque[w].e /\ n = toque[w].n => w \in EventoDe(s, n)
    BY DEF EventoDe, ConEvento
  <2> QED BY <2>1, <2>2, QuitaUno
<1> QED BY <1>3, <1>4, <1>5, <1>6, <1>7

--------------------
(* No count goes past the events there were.                               *)

LEMMA SumasTipo ==
    ASSUME MetricasTipos
    PROVE  /\ SumaEventos(contador, Contables) \in Nat /\ SumaEventos(detalle, Contables) \in Nat
           /\ SumaEventos(contador, Empresas) \in Nat
           /\ SumaEventos(contador, Empresas) <= SumaEventos(contador, Contables)
<1>1. (\A e \in Contables : contador[e] \in Nat) /\ (\A e \in Contables : detalle[e] \in Nat)
  BY DEF MetricasTipos
<1>2. IsFiniteSet(Contables) /\ Empresas \subseteq Contables  BY ContablesFinitos DEF Contables
<1>3. Sumatoria(detalle, Contables) \in Nat  BY <1>1, <1>2, SumaNat
<1>4. /\ Sumatoria(contador, Empresas) <= Sumatoria(contador, Contables)
      /\ Sumatoria(contador, Empresas) \in Nat /\ Sumatoria(contador, Contables) \in Nat
  BY <1>1, <1>2, SumaParte
<1> QED BY <1>3, <1>4, EventosSuman

\* One more event in a counter.
LEMMA SumaUnMas ==
    ASSUME NEW f \in [Contables -> Nat], NEW e \in Contables, NEW h \in [Contables -> Nat],
           h[e] = f[e] + 1, \A x \in Contables : x # e => h[x] = f[x]
    PROVE  /\ SumaEventos(h, Contables) = SumaEventos(f, Contables) + 1
           /\ SumaEventos(f, Empresas) <= SumaEventos(h, Empresas)
           /\ SumaEventos(f, Empresas) \in Nat /\ SumaEventos(h, Empresas) \in Nat
<1>1. h[e] = f[e] + 1 /\ (\A x \in Contables : x # e => h[x] = f[x])  OBVIOUS
<1>2. \A x \in Contables : f[x] \in Int /\ h[x] \in Int /\ f[x] \in Nat /\ h[x] \in Nat  BY <1>1
<1>3. Sumatoria(h, Contables) = Sumatoria(f, Contables) - f[e] + h[e]
  <2>1. \A x \in Contables : f[x] \in Int /\ h[x] \in Int  BY <1>2
  <2>2. \A x \in Contables : x # e => f[x] = h[x]  BY <1>1
  <2> QED BY ONLY <2>1, <2>2, e \in Contables, ContablesFinitos, SumaCambia
<1>4. Sumatoria(f, Contables) \in Nat  BY <1>2, ContablesFinitos, SumaNat
<1>5. Sumatoria(h, Contables) = Sumatoria(f, Contables) + 1
  <2>1. PICK a, b : a = Sumatoria(f, Contables) /\ b = f[e]  OBVIOUS
  <2>2. a \in Nat /\ b \in Nat /\ h[e] = b + 1  BY <1>1, <1>2, <1>4, <2>1
  <2>3. a - b + (b + 1) = a + 1  BY <2>2
  <2> QED BY <1>3, <2>1, <2>2, <2>3
<1>6. Sumatoria(f, Empresas) <= Sumatoria(h, Empresas)
  <2>1. \A x \in Empresas : f[x] \in Int /\ h[x] \in Int  BY <1>2 DEF Contables
  <2>2. \A x \in Empresas : f[x] <= h[x]
    <3> SUFFICES ASSUME NEW x \in Empresas PROVE f[x] <= h[x]  OBVIOUS
    <3>1. x \in Contables /\ f[x] \in Nat  BY <1>2 DEF Contables
    <3>2. h[x] = f[x] \/ h[x] = f[x] + 1  BY <1>1, <3>1
    <3> QED BY <3>1, <3>2
  <2> QED BY <2>1, <2>2, SumaMonotona
<1>7. Sumatoria(f, Empresas) \in Nat /\ Sumatoria(h, Empresas) \in Nat
  BY <1>2, SumaNat DEF Contables
<1> QED BY <1>5, <1>6, <1>7, EventosSuman

LEMMA CuentasTipo ==
    ASSUME MetricasTipos
    PROVE  /\ \A e \in Contables : contador[e] \in Nat /\ detalle[e] \in Nat
           /\ \A s \in Tiendas, n \in Empresas : promoEventos[<<s, n>>] \in Nat
           /\ Len(tablaPromo) \in Nat /\ (\A k \in DOMAIN tablaPromo : tablaPromo[k] \in Nat)
           /\ eventos \in Nat /\ contadas \in Nat /\ cortes \in Nat
<1>1. \A s \in Tiendas, n \in Empresas : promoEventos[<<s, n>>] \in Nat  BY DEF MetricasTipos
<1>2. Len(tablaPromo) \in Nat /\ (\A k \in DOMAIN tablaPromo : tablaPromo[k] \in Nat)
  BY DEF MetricasTipos
<1> QED BY <1>1, <1>2 DEF MetricasTipos, Cuantos

LEMMA NuevasCaben ==
    ASSUME MetricasTipos
    PROVE  /\ Cardinality(ConFilaNueva) <= Cardinality(Toques) /\ Cardinality(Toques) \in Nat
           /\ Cardinality(ConFilaNueva') <= Cardinality(Toques)
<1>1. ConFilaNueva \subseteq Toques /\ ConFilaNueva' \subseteq Toques  BY DEF ConFilaNueva, ConVista
<1> QED BY <1>1, FS_Subset, FS_CardinalityType

LEMMA CuentasLlega ==
    ASSUME MetricasTipos, CuentasCaben, NEW w \in Toques, NEW t \in Toque, t.op # "nada",
               LlegaToque(w, t),
           \A e \in Contables : contador'[e] \in Nat /\ contador'[e] <= contador[e] + 1,
           SumaEventos(contador', Contables) <= SumaEventos(contador, Contables) + 1,
           SumaEventos(contador', Contables) \in Nat,
           UNCHANGED <<detalle, cortes, contadas, promoEventos, tablaPromo>>,
           t.op = "escribe" /\ ~t.existe => tablaPromo = <<>>
    PROVE  CuentasCaben'
<1>1. eventos' = eventos + 1 /\ eventos \in Nat  BY ToqueLlega, CuentasTipo
<1>2. \A e \in Contables : contador'[e] <= eventos'
          /\ detalle'[e] + Cardinality(DetalleDe(e)') <= eventos'
  <2> SUFFICES ASSUME NEW e \in Contables
               PROVE  contador'[e] <= eventos'
                          /\ detalle'[e] + Cardinality(DetalleDe(e)') <= eventos'
    OBVIOUS
  <2>1. PICK c, d, m, x, y :
          c = contador[e] /\ d = detalle[e] /\ m = Cardinality(DetalleDe(e)')
          /\ x = contador'[e] /\ y = Cardinality(DetalleDe(e))
    OBVIOUS
  <2>2. /\ c \in Nat /\ d \in Nat /\ m \in Nat /\ x \in Nat /\ y \in Nat
        /\ c <= eventos /\ d + y <= eventos /\ x <= c + 1 /\ m <= y + 1
    BY <2>1, CuentasTipo, PendientesCuenta, LlegaCuenta DEF CuentasCaben
  <2>3. x <= eventos + 1 /\ d + m <= eventos + 1  BY <1>1, <2>2
  <2> QED BY <1>1, <2>1, <2>3
<1>3. cortes' + Cardinality(ConDetalle') <= eventos'
  <2>1. Cardinality(ConDetalle') = Cardinality(ConDetalle) + 1
        \/ Cardinality(ConDetalle') = Cardinality(ConDetalle)
    BY LlegaCuenta, PendientesCuenta
  <2>2. cortes + Cardinality(ConDetalle) <= eventos  BY DEF CuentasCaben
  <2> QED BY <1>1, <2>1, <2>2, CuentasTipo, PendientesCuenta
<1>4. contadas' + Cardinality(ConVista') <= eventos'
  BY LlegaCuenta, PendientesCuenta, <1>1, CuentasTipo DEF CuentasCaben
<1>5. \A s \in Tiendas, n \in Empresas : promoEventos'[<<s, n>>] + Cardinality(EventoDe(s, n)') <=
          eventos'
  <2> SUFFICES ASSUME NEW s \in Tiendas, NEW n \in Empresas
               PROVE  promoEventos'[<<s, n>>] + Cardinality(EventoDe(s, n)') <= eventos'
    OBVIOUS
  <2>1. PICK p, m, y :
          p = promoEventos[<<s, n>>] /\ m = Cardinality(EventoDe(s, n)')
              /\ y = Cardinality(EventoDe(s, n))
    OBVIOUS
  <2>2. p \in Nat /\ m \in Nat /\ y \in Nat /\ p + y <= eventos /\ m <= y + 1
    BY <2>1, CuentasTipo, PendientesCuenta, LlegaCuenta DEF CuentasCaben
  <2>3. p + m <= eventos + 1  BY <1>1, <2>2
  <2> QED BY <1>1, <2>1, <2>3
<1>6. \A k \in DOMAIN tablaPromo' : tablaPromo'[k] <= contadas'  BY DEF CuentasCaben
<1>7. Len(tablaPromo') + Cardinality(ConFilaNueva') <= Cardinality(Toques)
  <2>1. CASE t.op = "escribe" /\ ~t.existe
    <3>1. Len(tablaPromo') = 0  BY <2>1
    <3> QED BY <3>1, NuevasCaben, PendientesCuentaPrima
  <2>2. CASE ~(t.op = "escribe" /\ ~t.existe)
    BY <2>2, LlegaCuenta, PendientesCuenta DEF CuentasCaben
  <2> QED BY <2>1, <2>2
<1>8. SumaEventos(contador', Contables) <= eventos'  BY <1>1, SumasTipo DEF CuentasCaben
<1> QED BY <1>2, <1>3, <1>4, <1>5, <1>6, <1>7, <1>8 DEF CuentasCaben

\* What does not look at the requests that came or were answered.
LEMMA OtrasCuentas ==
    ASSUME CuentasCaben, UNCHANGED <<contador, detalle, cortes, contadas, promoEventos, tablaPromo,
               toque, eventos>>
    PROVE  CuentasCaben'
<1>1. ConDetalle' = ConDetalle /\ ConVista' = ConVista /\ ConEvento' = ConEvento
  BY DEF ConDetalle, ConVista, ConEvento
<1>2. ConFilaNueva' = ConFilaNueva /\ (\A e : DetalleDe(e)' = DetalleDe(e))
          /\ (\A s, n : EventoDe(s, n)' = EventoDe(s, n))
  BY <1>1 DEF ConFilaNueva, DetalleDe, EventoDe
<1> QED BY <1>1, <1>2 DEF CuentasCaben

--------------------
(* An event is recorded, or read.                                          *)

LEMMA VistasIgual ==
    ASSUME VistasEnRegla, UNCHANGED promocionesVistas, ConVista' \subseteq ConVista,
           \A v \in ConVista' : toque'[v] = toque[v]
    PROVE  VistasEnRegla'
  BY DEF VistasEnRegla, promocionesVistas

LEMMA EmpresasIgual ==
    ASSUME EmpresasEnRegla, UNCHANGED vistasPromo, ConEvento' \subseteq ConEvento,
           \A v \in ConEvento' : toque'[v] = toque[v]
    PROVE  EmpresasEnRegla'
  BY DEF EmpresasEnRegla, vistasPromo

LEMMA CalendarioIgual ==
    ASSUME MetricasTipos, HistoricoEnRegla, SemanalEnRegla, UNCHANGED calendario,
           \A n \in Empresas : contador'[n] \in Nat /\ contador[n] <= contador'[n]
    PROVE  HistoricoEnRegla' /\ SemanalEnRegla'
<1>1. historico' = historico /\ semanal' = semanal /\ diaMetrica' = diaMetrica /\ hora' = hora
  BY DEF calendario
<1>2. \A s : DeLaSemana(s)' = DeLaSemana(s)  BY <1>1 DEF FilasDe, DeLaSemana
<1>3. SemanalEnRegla'  BY <1>1, <1>2 DEF SemanalEnRegla
<1>4. \A d \in 0 .. MaxDia, n \in Empresas : historico[<<d, n>>] # SinFila =>
          historico[<<d, n>>] \in Nat /\ historico[<<d, n>>] <= contador[n] /\ contador[n] \in Nat
  BY DEF HistoricoEnRegla, MetricasTipos, Filas, Contables
<1>5. \A d \in 0 .. MaxDia, n \in Empresas : historico[<<d, n>>] # SinFila =>
          historico[<<d, n>>] <= contador'[n]
  BY <1>4
<1>6. HistoricoEnRegla'  BY <1>1, <1>5 DEF HistoricoEnRegla
<1> QED BY <1>3, <1>6

LEMMA EventosIgual ==
    ASSUME EventosEnRegla, UNCHANGED cuentasEventos, Cardinality(ConDetalle') =
               Cardinality(ConDetalle)
    PROVE  EventosEnRegla'
  BY DEF EventosEnRegla, cuentasEventos

LEMMA SumaQuieta ==
    ASSUME MetricasTipos, UNCHANGED contador
    PROVE  /\ \A n \in Empresas : contador'[n] \in Nat /\ contador[n] <= contador'[n]
           /\ SumaEventos(contador', Contables) \in Nat
           /\ SumaEventos(contador', Contables) = SumaEventos(contador, Contables)
  BY SumasTipo DEF MetricasTipos, Contables

LEMMA InvRegistraEvento ==
    ASSUME MetricasInv, NEW w \in Toques, NEW e \in Contables, RegistraEvento(w, e)
    PROVE MetricasInv'
<1>0. MetricasTipos /\ CuentasCaben /\ EventosEnRegla /\ VistasEnRegla /\ EmpresasEnRegla
      /\ HistoricoEnRegla /\ SemanalEnRegla
  BY DEF MetricasInv
<1>1. PICK t : t = [SinToque EXCEPT !.op = "detalle", !.e = e]  OBVIOUS
<1>2. t \in Toque /\ t.op = "detalle" /\ t =
          [op |-> "detalle", existe |-> FALSE, e |-> e, n |-> OtraEmpresa]
  BY <1>1, OtraEmpresaEs, ToqueTipos DEF SinToque, Contables
<1>3. LlegaToque(w, t) /\ contador' = [contador EXCEPT ![e] = @ + 1]
      /\ UNCHANGED <<detalle, cortes>> /\ UNCHANGED promocionesVistas /\ UNCHANGED vistasPromo
      /\ UNCHANGED calendario
  BY <1>1 DEF RegistraEvento
<1>4. /\ toque' \in [Toques -> Toque] /\ eventos' \in Cuantos /\ eventos' = eventos + 1
      /\ (\A v \in Toques : v # w => toque'[v] = toque[v])
      /\ w \notin ConVista /\ w \notin ConEvento /\ ConVista' = ConVista /\ ConEvento' = ConEvento
  BY <1>0, <1>2, <1>3, ToqueLlega
<1>5. Cardinality(ConDetalle') = Cardinality(ConDetalle) + 1  BY <1>0, <1>2, <1>3, LlegaCuenta
<1>6. contador \in [Contables -> Nat]  BY <1>0 DEF MetricasTipos
<1>7. /\ contador' \in [Contables -> Nat] /\ contador'[e] = contador[e] + 1
      /\ (\A x \in Contables : x # e => contador'[x] = contador[x])
      /\ SumaEventos(contador', Contables) = SumaEventos(contador, Contables) + 1
  <2>1. PICK f, h : f = contador /\ h = contador'  OBVIOUS
  <2>2. f \in [Contables -> Nat] /\ h \in [Contables -> Nat] /\ h[e] = f[e] + 1
        /\ (\A x \in Contables : x # e => h[x] = f[x])
    BY <1>3, <1>6, <2>1
  <2>3. /\ SumaEventos(h, Contables) = SumaEventos(f, Contables) + 1
    BY <2>2, SumaUnMas
  <2> QED BY <2>1, <2>2, <2>3
<1>8. MetricasTipos'
  BY <1>0, <1>3, <1>4, <1>7 DEF MetricasTipos, promocionesVistas, vistasPromo, calendario
<1>9. CuentasCaben'
  <2>1. \A x \in Contables : contador'[x] \in Nat /\ contador'[x] <= contador[x] + 1
    <3> SUFFICES ASSUME NEW x \in Contables
                 PROVE  contador'[x] \in Nat /\ contador'[x] <= contador[x] + 1
      OBVIOUS
    <3>1. contador[x] \in Nat /\ (contador'[x] = contador[x] \/ contador'[x] = contador[x] + 1)
      BY <1>6, <1>7
    <3> QED BY <3>1
  <2>2. SumaEventos(contador', Contables) <= SumaEventos(contador, Contables) + 1
        /\ SumaEventos(contador', Contables) \in Nat
    BY <1>0, <1>7, SumasTipo
  <2>3. UNCHANGED <<detalle, cortes, contadas, promoEventos, tablaPromo>>
    BY <1>3 DEF promocionesVistas, vistasPromo
  <2>4. t.op = "escribe" /\ ~t.existe => tablaPromo = <<>>  BY <1>2
  <2>5. t.op # "nada"  BY <1>2
  <2> QED BY <1>0, <1>2, <1>3, <2>1, <2>2, <2>3, <2>4, <2>5, CuentasLlega
<1>10. EventosEnRegla'
  <2>1. PICK a, b, c, d :
          a = SumaEventos(contador, Contables) /\ b = SumaEventos(detalle, Contables)
          /\ c = cortes /\ d = Cardinality(ConDetalle)
    OBVIOUS
  <2>2. a = b + c + d /\ b \in Nat /\ c \in Nat /\ d \in Nat
    BY <1>0, <2>1, SumasTipo, CuentasTipo, PendientesCuenta DEF EventosEnRegla
  <2>3. a + 1 = b + c + (d + 1)  BY <2>2
  <2>4. SumaEventos(contador', Contables) = a + 1 /\ SumaEventos(detalle', Contables) = b
        /\ cortes' = c /\ Cardinality(ConDetalle') = d + 1
    BY <1>3, <1>5, <1>7, <2>1
  <2>5. SumaEventos(contador', Contables) =
            SumaEventos(detalle', Contables) + cortes' + Cardinality(ConDetalle')
    BY <2>3, <2>4
  <2> QED BY <2>5 DEF EventosEnRegla
<1>11. \A v \in ConVista \cup ConEvento : toque'[v] = toque[v]  BY <1>4 DEF ConVista, ConEvento
<1>12. VistasEnRegla' /\ EmpresasEnRegla'  BY <1>0, <1>3, <1>4, <1>11, VistasIgual, EmpresasIgual
<1>13. HistoricoEnRegla' /\ SemanalEnRegla'
  <2>1. \A x \in Contables : contador'[x] \in Nat /\ contador[x] <= contador'[x]
    <3> SUFFICES ASSUME NEW x \in Contables
                 PROVE  contador'[x] \in Nat /\ contador[x] <= contador'[x]
      OBVIOUS
    <3>1. contador[x] \in Nat /\ (contador'[x] = contador[x] \/ contador'[x] = contador[x] + 1)
      BY <1>6, <1>7
    <3> QED BY <3>1
  <2>2. \A n \in Empresas : contador'[n] \in Nat /\ contador[n] <= contador'[n]
    BY <2>1 DEF Contables
  <2> QED BY <1>0, <1>3, <2>2, CalendarioIgual
<1> QED BY <1>8, <1>9, <1>10, <1>12, <1>13 DEF MetricasInv

LEMMA InvMiraVista ==
    ASSUME MetricasInv, NEW w \in Toques, MiraVista(w) PROVE MetricasInv'
<1>0. MetricasTipos /\ CuentasCaben /\ EventosEnRegla /\ VistasEnRegla /\ EmpresasEnRegla
      /\ HistoricoEnRegla /\ SemanalEnRegla
  BY DEF MetricasInv
<1>1. PICK t : t = [SinToque EXCEPT !.op = "escribe", !.existe = tablaPromo # <<>>]  OBVIOUS
<1>2. t \in Toque /\ t.op = "escribe" /\ t.existe = (tablaPromo # <<>>)
  <2>1. t = [op |-> "escribe", existe |-> tablaPromo # <<>>, e |-> OtraEmpresa, n |-> OtraEmpresa]
    BY <1>1 DEF SinToque
  <2>2. OtraEmpresa \in Tiendas \cup Empresas /\ OtraEmpresa \in Empresas
            /\ (tablaPromo # <<>>) \in BOOLEAN
    BY OtraEmpresaEs
  <2> QED BY <2>1, <2>2, ToqueTipos
<1>3. LlegaToque(w, t) /\ UNCHANGED <<tablaPromo, contadas>> /\ UNCHANGED cuentasEventos
      /\ UNCHANGED vistasPromo /\ UNCHANGED calendario
  BY <1>1 DEF MiraVista
<1>4. /\ toque' \in [Toques -> Toque] /\ eventos' \in Cuantos /\ toque'[w] = t
      /\ (\A v \in Toques : v # w => toque'[v] = toque[v])
      /\ w \notin ConVista /\ w \notin ConEvento /\ ConVista' = ConVista \cup {w}
             /\ ConEvento' = ConEvento
  BY <1>0, <1>2, <1>3, ToqueLlega
<1>5. Cardinality(ConDetalle') = Cardinality(ConDetalle)
  BY <1>0, <1>2, <1>3, LlegaCuenta, PendientesCuenta
<1>6. MetricasTipos'
  BY <1>0, <1>3, <1>4 DEF MiraVista, MetricasTipos, cuentasEventos, vistasPromo, calendario
<1>7. CuentasCaben'
  <2>1. \A x \in Contables : contador'[x] \in Nat /\ contador'[x] <= contador[x] + 1
    BY <1>0, <1>3, CuentasTipo DEF cuentasEventos
  <2>2. SumaEventos(contador', Contables) <= SumaEventos(contador, Contables) + 1
        /\ SumaEventos(contador', Contables) \in Nat
    BY <1>0, <1>3, SumasTipo DEF cuentasEventos
  <2>3. UNCHANGED <<detalle, cortes, contadas, promoEventos, tablaPromo>>
    BY <1>3 DEF cuentasEventos, vistasPromo
  <2>4. (t.op = "escribe" /\ ~t.existe => tablaPromo = <<>>) /\ t.op # "nada"  BY <1>2
  <2> QED BY <1>0, <1>2, <1>3, <2>1, <2>2, <2>3, <2>4, CuentasLlega
<1>8. EventosEnRegla'  BY <1>0, <1>3, <1>5, EventosIgual
<1>9. \A v \in ConVista \cup ConEvento : toque'[v] = toque[v]  BY <1>4 DEF ConVista, ConEvento
<1>10. VistasEnRegla'
  <2> SUFFICES ASSUME ~carreraVista' PROVE VistasEnRegla'  BY DEF VistasEnRegla
  <2>1. ~carreraVista /\ ~(\E v \in Toques : toque[v].op = "escribe" /\ tablaPromo = <<>>)
    BY <1>0 DEF MiraVista, MetricasTipos
  <2>2. tablaPromo = <<>> => ConVista = {}  BY <2>1 DEF ConVista
  <2>3. tablaPromo = <<>> => /\ \A v \in ConVista' : ~toque'[v].existe
                             /\ \A v \in ConVista', u \in ConVista' : v = u
    BY <1>2, <1>4, <2>2
  <2>4. tablaPromo # <<>> => \A v \in ConVista' : toque'[v].existe
    BY <1>0, <1>2, <1>4, <1>9, <2>1 DEF VistasEnRegla
  <2>5. (tablaPromo = <<>> /\ contadas = 0) \/ tablaPromo = <<contadas>>
    BY <1>0, <2>1 DEF VistasEnRegla
  <2> QED BY <1>3, <2>3, <2>4, <2>5 DEF VistasEnRegla
<1>11. EmpresasEnRegla'  BY <1>0, <1>3, <1>4, <1>9, EmpresasIgual
<1>12. HistoricoEnRegla' /\ SemanalEnRegla'
  BY <1>0, <1>3, SumaQuieta, CalendarioIgual DEF cuentasEventos
<1> QED BY <1>6, <1>7, <1>8, <1>10, <1>11, <1>12 DEF MetricasInv

LEMMA InvLeePromocionVista ==
    ASSUME MetricasInv, NEW w \in Toques, NEW s \in Tiendas, LeePromocionVista(w, s)
    PROVE MetricasInv'
<1>0. MetricasTipos /\ CuentasCaben /\ EventosEnRegla /\ VistasEnRegla /\ EmpresasEnRegla
      /\ HistoricoEnRegla /\ SemanalEnRegla
  BY DEF MetricasInv
<1>1. PICK t : t = [SinToque EXCEPT !.op = "evento", !.e = s, !.n = empresaDe[s]]  OBVIOUS
<1>2. t \in Toque /\ t.op = "evento" /\ t.n = empresaDe[s]
  <2>1. t = [op |-> "evento", existe |-> FALSE, e |-> s, n |-> empresaDe[s]]  BY <1>1 DEF SinToque
  <2>2. s \in Tiendas \cup Empresas /\ empresaDe[s] \in Empresas  BY <1>0 DEF MetricasTipos
  <2> QED BY <2>1, <2>2, ToqueTipos
<1>3. LlegaToque(w, t) /\ UNCHANGED cuentasEventos /\ UNCHANGED promocionesVistas
      /\ UNCHANGED vistasPromo /\ UNCHANGED calendario
  BY <1>1 DEF LeePromocionVista
<1>4. /\ toque' \in [Toques -> Toque] /\ eventos' \in Cuantos /\ toque'[w] = t
      /\ (\A v \in Toques : v # w => toque'[v] = toque[v])
      /\ w \notin ConVista /\ w \notin ConEvento /\ ConVista' = ConVista
             /\ ConEvento' = ConEvento \cup {w}
  BY <1>0, <1>2, <1>3, ToqueLlega
<1>5. Cardinality(ConDetalle') = Cardinality(ConDetalle)
  BY <1>0, <1>2, <1>3, LlegaCuenta, PendientesCuenta
<1>6. MetricasTipos'
  BY <1>0, <1>3, <1>4 DEF MetricasTipos, cuentasEventos, promocionesVistas, vistasPromo, calendario
<1>7. CuentasCaben'
  <2>1. \A x \in Contables : contador'[x] \in Nat /\ contador'[x] <= contador[x] + 1
    BY <1>0, <1>3, CuentasTipo DEF cuentasEventos
  <2>2. SumaEventos(contador', Contables) <= SumaEventos(contador, Contables) + 1
        /\ SumaEventos(contador', Contables) \in Nat
    BY <1>0, <1>3, SumasTipo DEF cuentasEventos
  <2>3. UNCHANGED <<detalle, cortes, contadas, promoEventos, tablaPromo>>
    BY <1>3 DEF cuentasEventos, vistasPromo, promocionesVistas
  <2>4. (t.op = "escribe" /\ ~t.existe => tablaPromo = <<>>) /\ t.op # "nada"  BY <1>2
  <2> QED BY <1>0, <1>2, <1>3, <2>1, <2>2, <2>3, <2>4, CuentasLlega
<1>8. EventosEnRegla'  BY <1>0, <1>3, <1>5, EventosIgual
<1>9. \A v \in ConVista \cup ConEvento : toque'[v] = toque[v]  BY <1>4 DEF ConVista, ConEvento
<1>10. VistasEnRegla'  BY <1>0, <1>3, <1>4, <1>9, VistasIgual
<1>11. EmpresasEnRegla'  BY <1>0, <1>2, <1>4, <1>3, <1>9 DEF EmpresasEnRegla, vistasPromo
<1>12. HistoricoEnRegla' /\ SemanalEnRegla'
  BY <1>0, <1>3, SumaQuieta, CalendarioIgual DEF cuentasEventos
<1> QED BY <1>6, <1>7, <1>8, <1>10, <1>11, <1>12 DEF MetricasInv

--------------------
(* An event is written: its detail.                                        *)

\* The counts when a request is answered: what it adds it no longer owes.
LEMMA CuentasContesta ==
    ASSUME MetricasTipos, CuentasCaben, NEW w \in Toques, ContestaToque(w), UNCHANGED contador,
           \A e \in Contables :
               detalle'[e] + Cardinality(DetalleDe(e)') <= detalle[e] + Cardinality(DetalleDe(e)),
           cortes' + Cardinality(ConDetalle') <= cortes + Cardinality(ConDetalle),
           contadas' + Cardinality(ConVista') <= contadas + Cardinality(ConVista),
           \A s \in Tiendas, n \in Empresas :
               promoEventos'[<<s, n>>] + Cardinality(EventoDe(s, n)')
                   <= promoEventos[<<s, n>>] + Cardinality(EventoDe(s, n)),
           \A k \in DOMAIN tablaPromo' : tablaPromo'[k] <= contadas',
           Len(tablaPromo') + Cardinality(ConFilaNueva') <=
               Len(tablaPromo) + Cardinality(ConFilaNueva),
           MetricasTipos'
    PROVE  CuentasCaben'
<1>1. eventos' = eventos /\ eventos \in Nat  BY ToqueContesta, CuentasTipo
<1>2. \A e \in Contables : contador'[e] <= eventos'
          /\ detalle'[e] + Cardinality(DetalleDe(e)') <= eventos'
  <2> SUFFICES ASSUME NEW e \in Contables
               PROVE  contador'[e] <= eventos'
                          /\ detalle'[e] + Cardinality(DetalleDe(e)') <= eventos'
    OBVIOUS
  <2>1. PICK a, b, c, d : a = detalle'[e] /\ b = Cardinality(DetalleDe(e)') /\ c = detalle[e]
          /\ d = Cardinality(DetalleDe(e))
    OBVIOUS
  <2>2. a \in Nat /\ c \in Nat  BY <2>1 DEF MetricasTipos
  <2>3. b \in Nat /\ d \in Nat  BY <2>1, PendientesCuenta, ContestaCuenta
  <2>4. a + b <= c + d /\ c + d <= eventos  BY <2>1 DEF CuentasCaben
  <2>5. a + b <= eventos  BY <1>1, <2>2, <2>3, <2>4
  <2> QED BY <1>1, <2>1, <2>5 DEF CuentasCaben
<1>3. cortes' + Cardinality(ConDetalle') <= eventos'
          /\ contadas' + Cardinality(ConVista') <= eventos'
  <2>1. PICK a, b, c, d : a = cortes' /\ b = Cardinality(ConDetalle') /\ c = cortes
                 /\ d = Cardinality(ConDetalle)
    OBVIOUS
  <2>2. PICK m, n, x, y : m = contadas' /\ n = Cardinality(ConVista') /\ x = contadas
                 /\ y = Cardinality(ConVista)
    OBVIOUS
  <2>3. a \in Nat /\ c \in Nat /\ m \in Nat /\ x \in Nat  BY <2>1, <2>2 DEF MetricasTipos
  <2>4. b \in Nat /\ d \in Nat /\ n \in Nat /\ y \in Nat
    BY <2>1, <2>2, PendientesCuenta, PendientesCuentaPrima
  <2>5. a + b <= c + d /\ c + d <= eventos /\ m + n <= x + y /\ x + y <= eventos
    BY <2>1, <2>2 DEF CuentasCaben
  <2>6. a + b <= eventos /\ m + n <= eventos  BY <1>1, <2>3, <2>4, <2>5
  <2> QED BY <1>1, <2>1, <2>2, <2>6
<1>4. \A s \in Tiendas, n \in Empresas : promoEventos'[<<s, n>>] + Cardinality(EventoDe(s, n)') <=
          eventos'
  <2> SUFFICES ASSUME NEW s \in Tiendas, NEW n \in Empresas
               PROVE  promoEventos'[<<s, n>>] + Cardinality(EventoDe(s, n)') <= eventos'
    OBVIOUS
  <2>1. PICK a, b, c, d : a = promoEventos'[<<s, n>>] /\ b = Cardinality(EventoDe(s, n)')
          /\ c = promoEventos[<<s, n>>] /\ d = Cardinality(EventoDe(s, n))
    OBVIOUS
  <2>2. a \in Nat /\ c \in Nat  BY <2>1 DEF MetricasTipos
  <2>3. b \in Nat /\ d \in Nat  BY <2>1, PendientesCuenta, ContestaCuenta
  <2>4. a + b <= c + d /\ c + d <= eventos  BY <2>1 DEF CuentasCaben
  <2>5. a + b <= eventos  BY <1>1, <2>2, <2>3, <2>4
  <2> QED BY <1>1, <2>1, <2>5
<1>5. Len(tablaPromo') + Cardinality(ConFilaNueva') <= Cardinality(Toques)
  <2>1. PICK a, b, c, d : a = Len(tablaPromo') /\ b = Cardinality(ConFilaNueva')
                 /\ c = Len(tablaPromo)
          /\ d = Cardinality(ConFilaNueva)
    OBVIOUS
  <2>2. a \in Nat /\ c \in Nat  BY <2>1 DEF MetricasTipos
  <2>3. b \in Nat /\ d \in Nat  BY <2>1, PendientesCuenta, PendientesCuentaPrima
  <2>4. a + b <= c + d /\ c + d <= Cardinality(Toques)  BY <2>1 DEF CuentasCaben
  <2> QED BY <2>1, <2>2, <2>3, <2>4, NuevasCaben
<1>6. SumaEventos(contador', Contables) <= eventos'  BY <1>1 DEF CuentasCaben
<1> QED BY <1>2, <1>3, <1>4, <1>5, <1>6 DEF CuentasCaben

\* What nobody adds to is owed no more than before.
LEMMA NadieDebeMas ==
    ASSUME MetricasTipos, NEW w \in Toques, ContestaToque(w)
    PROVE  /\ UNCHANGED detalle => \A e \in Contables :
                detalle'[e] + Cardinality(DetalleDe(e)') <= detalle[e] + Cardinality(DetalleDe(e))
           /\ UNCHANGED promoEventos => \A s \in Tiendas, n \in Empresas :
                promoEventos'[<<s, n>>] + Cardinality(EventoDe(s, n)')
                    <= promoEventos[<<s, n>>] + Cardinality(EventoDe(s, n))
           /\ UNCHANGED contadas => contadas' + Cardinality(ConVista') <=
                  contadas + Cardinality(ConVista)
           /\ UNCHANGED cortes => cortes' + Cardinality(ConDetalle') <=
                  cortes + Cardinality(ConDetalle)
           /\ UNCHANGED tablaPromo =>
                Len(tablaPromo') + Cardinality(ConFilaNueva') <=
                    Len(tablaPromo) + Cardinality(ConFilaNueva)
<1>1. ASSUME UNCHANGED detalle, NEW e \in Contables
      PROVE  detalle'[e] + Cardinality(DetalleDe(e)') <= detalle[e] + Cardinality(DetalleDe(e))
  <2>1. PICK a, b, c : a = detalle[e] /\ b = Cardinality(DetalleDe(e)')
                 /\ c = Cardinality(DetalleDe(e))
    OBVIOUS
  <2>2. a \in Nat /\ b \in Nat /\ c \in Nat /\ b <= c
    BY <2>1, CuentasTipo, PendientesCuenta, ContestaCuenta
  <2> QED BY <1>1, <2>1, <2>2
<1>2. ASSUME UNCHANGED promoEventos, NEW s \in Tiendas, NEW n \in Empresas
      PROVE  promoEventos'[<<s, n>>] + Cardinality(EventoDe(s, n)')
                    <= promoEventos[<<s, n>>] + Cardinality(EventoDe(s, n))
  <2>1. PICK a, b, c : a = promoEventos[<<s, n>>] /\ b = Cardinality(EventoDe(s, n)')
                 /\ c = Cardinality(EventoDe(s, n))
    OBVIOUS
  <2>2. a \in Nat /\ b \in Nat /\ c \in Nat /\ b <= c
    BY <2>1, CuentasTipo, PendientesCuenta, ContestaCuenta
  <2> QED BY <1>2, <2>1, <2>2
<1>3. /\ Cardinality(ConVista') <= Cardinality(ConVista)
      /\ Cardinality(ConDetalle') <= Cardinality(ConDetalle)
      /\ Cardinality(ConFilaNueva') <= Cardinality(ConFilaNueva)
  BY ContestaCuenta, PendientesCuenta
<1>4. UNCHANGED contadas => contadas' + Cardinality(ConVista') <= contadas + Cardinality(ConVista)
  BY <1>3, CuentasTipo, PendientesCuenta, PendientesCuentaPrima
<1>5. UNCHANGED cortes => cortes' + Cardinality(ConDetalle') <= cortes + Cardinality(ConDetalle)
  BY <1>3, CuentasTipo, PendientesCuenta, PendientesCuentaPrima
<1>6. UNCHANGED tablaPromo =>
         Len(tablaPromo') + Cardinality(ConFilaNueva') <=
             Len(tablaPromo) + Cardinality(ConFilaNueva)
  <2> SUFFICES ASSUME UNCHANGED tablaPromo
               PROVE Len(tablaPromo) + Cardinality(ConFilaNueva') <=
                         Len(tablaPromo) + Cardinality(ConFilaNueva)
    OBVIOUS
  <2> QED BY <1>3, CuentasTipo, PendientesCuenta, PendientesCuentaPrima
<1> QED BY <1>1, <1>2, <1>4, <1>5, <1>6

LEMMA QuedanIgual ==
    ASSUME MetricasTipos, NEW w \in Toques, ContestaToque(w)
    PROVE  /\ ConVista' \subseteq ConVista /\ ConEvento' \subseteq ConEvento
           /\ (\A v \in ConVista' : toque'[v] = toque[v])
           /\ (\A v \in ConEvento' : toque'[v] = toque[v])
<1>1. /\ ConVista' = ConVista \ {w} /\ ConEvento' = ConEvento \ {w}
      /\ (\A v \in Toques : v # w => toque'[v] = toque[v])
  BY ToqueContesta
<1>2. ConVista \subseteq Toques /\ ConEvento \subseteq Toques  BY DEF ConVista, ConEvento
<1> QED BY <1>1, <1>2

LEMMA InvFallaToque ==
    ASSUME MetricasInv, NEW w \in Toques, FallaToque(w) PROVE MetricasInv'
<1>0. MetricasTipos /\ CuentasCaben /\ EventosEnRegla /\ VistasEnRegla /\ EmpresasEnRegla
      /\ HistoricoEnRegla /\ SemanalEnRegla
  BY DEF MetricasInv
<1>1. /\ ContestaToque(w) /\ UNCHANGED <<contador, detalle>> /\ UNCHANGED promocionesVistas
      /\ UNCHANGED vistasPromo /\ UNCHANGED calendario
      /\ cortes' = cortes + IF toque[w].op = "detalle" THEN 1 ELSE 0
  BY DEF FallaToque
<1>2. PICK c, d, x, y : c = cortes /\ d = Cardinality(ConDetalle) /\ x = cortes'
               /\ y = Cardinality(ConDetalle')
  OBVIOUS
<1>3. c \in Nat /\ d \in Nat /\ x \in Nat /\ y \in Nat /\ x + y = c + d
  <2>1. y = d - (IF toque[w].op = "detalle" THEN 1 ELSE 0)  BY <1>0, <1>1, <1>2, ContestaCuenta
  <2>2. c \in Nat /\ d \in Nat /\ y \in Nat
    BY <1>0, <1>2, CuentasTipo, PendientesCuenta, PendientesCuentaPrima
  <2>3. CASE toque[w].op = "detalle"
    <3>1. y = d - 1 /\ x = c + 1  BY <1>1, <1>2, <2>1, <2>3
    <3> QED BY <2>2, <3>1
  <2>4. CASE toque[w].op # "detalle"
    <3>1. y = d - 0 /\ x = c + 0  BY <1>1, <1>2, <2>1, <2>4
    <3> QED BY <2>2, <3>1
  <2> QED BY <2>3, <2>4
<1>4. toque' \in [Toques -> Toque] /\ eventos' = eventos  BY <1>0, <1>1, ToqueContesta
<1>5. MetricasTipos'
  BY <1>0, <1>1, <1>2, <1>3, <1>4 DEF MetricasTipos, promocionesVistas, vistasPromo, calendario
<1>6. cortes' + Cardinality(ConDetalle') <= cortes + Cardinality(ConDetalle)  BY <1>2, <1>3
<1>7. UNCHANGED <<contador, detalle, promoEventos, contadas, tablaPromo>>
  BY <1>1 DEF promocionesVistas, vistasPromo
<1>8. \A k \in DOMAIN tablaPromo' : tablaPromo'[k] <= contadas'  BY <1>0, <1>7 DEF CuentasCaben
<1>9. CuentasCaben'  BY <1>0, <1>1, <1>5, <1>6, <1>7, <1>8, CuentasContesta, NadieDebeMas
<1>10. EventosEnRegla'
  <2>1. PICK a, b : a = SumaEventos(contador, Contables) /\ b = SumaEventos(detalle, Contables)
    OBVIOUS
  <2>2. a = b + c + d /\ b \in Nat  BY <1>0, <1>2, <2>1, SumasTipo DEF EventosEnRegla
  <2>3. a = b + x + y  BY <1>3, <2>2
  <2> QED BY <1>1, <1>2, <2>1, <2>3 DEF EventosEnRegla
<1>11. VistasEnRegla' /\ EmpresasEnRegla'  BY <1>0, <1>1, QuedanIgual, VistasIgual, EmpresasIgual
<1>12. HistoricoEnRegla' /\ SemanalEnRegla'  BY <1>0, <1>1, SumaQuieta, CalendarioIgual
<1> QED BY <1>5, <1>9, <1>10, <1>11, <1>12 DEF MetricasInv

LEMMA InvRegistraDetalle ==
    ASSUME MetricasInv, NEW w \in Toques, RegistraDetalle(w) PROVE MetricasInv'
<1>0. MetricasTipos /\ CuentasCaben /\ EventosEnRegla /\ VistasEnRegla /\ EmpresasEnRegla
      /\ HistoricoEnRegla /\ SemanalEnRegla
  BY DEF MetricasInv
<1>1. PICK e : e = toque[w].e  OBVIOUS
<1>2. /\ toque[w].op = "detalle" /\ ContestaToque(w) /\ UNCHANGED <<contador, cortes>>
      /\ UNCHANGED promocionesVistas /\ UNCHANGED vistasPromo /\ UNCHANGED calendario
      /\ detalle' = [detalle EXCEPT ![e] = @ + 1]
  BY <1>1 DEF RegistraDetalle
<1>3. e \in Contables /\ detalle \in [Contables -> Nat]
  BY <1>0, <1>1 DEF MetricasTipos, Toque, Contables
<1>4. PICK f, h : f = detalle /\ h = detalle'  OBVIOUS
<1>5. /\ h \in [Contables -> Nat] /\ h[e] = f[e] + 1 /\ (\A x \in Contables : x # e => h[x] = f[x])
      /\ SumaEventos(h, Contables) = SumaEventos(f, Contables) + 1
  <2>1. f \in [Contables -> Nat] /\ h \in [Contables -> Nat] /\ h[e] = f[e] + 1
        /\ (\A x \in Contables : x # e => h[x] = f[x])
    BY <1>2, <1>3, <1>4
  <2> QED BY <1>3, <2>1, SumaUnMas
<1>6. toque' \in [Toques -> Toque] /\ eventos' = eventos  BY <1>0, <1>2, ToqueContesta
<1>7. MetricasTipos'
  BY <1>0, <1>2, <1>4, <1>5, <1>6 DEF MetricasTipos, promocionesVistas, vistasPromo, calendario
<1>8. \A x \in Contables : detalle'[x] + Cardinality(DetalleDe(x)') <=
          detalle[x] + Cardinality(DetalleDe(x))
  <2> SUFFICES ASSUME NEW x \in Contables
               PROVE  detalle'[x] + Cardinality(DetalleDe(x)') <=
                          detalle[x] + Cardinality(DetalleDe(x))
    OBVIOUS
  <2>1. PICK a, b, c, d : a = h[x] /\ b = Cardinality(DetalleDe(x)') /\ c = f[x]
                 /\ d = Cardinality(DetalleDe(x))
    OBVIOUS
  <2>2. a \in Nat /\ b \in Nat /\ c \in Nat /\ d \in Nat /\ b <= d /\ (x = e => b = d - 1)
    BY <1>3, <1>4, <1>5, <2>1, <1>0, <1>1, <1>2, ContestaCuenta, PendientesCuenta
  <2>3. (x = e => a = c + 1) /\ (x # e => a = c)  BY <1>5, <2>1
  <2>4. a + b <= c + d  BY <2>2, <2>3
  <2> QED BY <1>4, <2>1, <2>4
<1>9. UNCHANGED <<contador, cortes, promoEventos, contadas, tablaPromo>>
  BY <1>2 DEF promocionesVistas, vistasPromo
<1>10. \A k \in DOMAIN tablaPromo' : tablaPromo'[k] <= contadas'  BY <1>0, <1>9 DEF CuentasCaben
<1>11. CuentasCaben'  BY <1>0, <1>2, <1>7, <1>8, <1>9, <1>10, CuentasContesta, NadieDebeMas
<1>12. EventosEnRegla'
  <2>1. PICK a, b, c, d, y : a = SumaEventos(contador, Contables)
                 /\ b = SumaEventos(detalle, Contables)
            /\ c = cortes /\ d = Cardinality(ConDetalle) /\ y = Cardinality(ConDetalle')
    OBVIOUS
  <2>2. a = b + c + d /\ b \in Nat /\ c \in Nat /\ d \in Nat
    BY <1>0, <2>1, SumasTipo, CuentasTipo, PendientesCuenta DEF EventosEnRegla
  <2>3. y = d - 1  BY <1>0, <1>2, <2>1, ContestaCuenta
  <2>4. a = (b + 1) + c + y  BY <2>2, <2>3
  <2> QED BY <1>2, <1>4, <1>5, <2>1, <2>4 DEF EventosEnRegla
<1>13. VistasEnRegla' /\ EmpresasEnRegla'  BY <1>0, <1>2, QuedanIgual, VistasIgual, EmpresasIgual
<1>14. HistoricoEnRegla' /\ SemanalEnRegla'  BY <1>0, <1>2, SumaQuieta, CalendarioIgual
<1> QED BY <1>7, <1>11, <1>12, <1>13, <1>14 DEF MetricasInv

--------------------
(* An event is written: of a promotion, or of its views.                   *)

LEMMA InvGuardaPromocionVista ==
    ASSUME MetricasInv, NEW w \in Toques, GuardaPromocionVista(w) PROVE MetricasInv'
<1>0. MetricasTipos /\ CuentasCaben /\ EventosEnRegla /\ VistasEnRegla /\ EmpresasEnRegla
      /\ HistoricoEnRegla /\ SemanalEnRegla
  BY DEF MetricasInv
<1>1. PICK e, m : e = toque[w].e /\ m = toque[w].n  OBVIOUS
<1>2. /\ toque[w].op = "evento" /\ ContestaToque(w) /\ UNCHANGED <<empresaDe, movidas>>
      /\ UNCHANGED cuentasEventos /\ UNCHANGED promocionesVistas /\ UNCHANGED calendario
      /\ promoEventos' = [promoEventos EXCEPT ![<<e, m>>] = @ + 1]
  BY <1>1 DEF GuardaPromocionVista
<1>3. promoEventos \in [Tiendas \X Empresas -> Nat] /\ w \in ConEvento
  BY <1>0, <1>2 DEF MetricasTipos, ConEvento
<1>4. /\ promoEventos' \in [Tiendas \X Empresas -> Nat]
      /\ \A s \in Tiendas, n \in Empresas : <<s, n>> # <<e, m>> =>
             promoEventos'[<<s, n>>] = promoEventos[<<s, n>>]
      /\ \A s \in Tiendas, n \in Empresas : s = e /\ n = m =>
             promoEventos'[<<s, n>>] = promoEventos[<<s, n>>] + 1
  <2>1. PICK p : p = <<e, m>>  OBVIOUS
  <2>2. PICK g, h : g = promoEventos /\ h = promoEventos'  OBVIOUS
  <2>3. g \in [Tiendas \X Empresas -> Nat] /\ h = [g EXCEPT ![p] = @ + 1]  BY <1>2, <1>3, <2>1, <2>2
  <2>4. h \in [Tiendas \X Empresas -> Nat]
            /\ \A q \in Tiendas \X Empresas : h[q] = IF q = p THEN g[q] + 1 ELSE g[q]
    <3>1. PICK D : D = Tiendas \X Empresas  OBVIOUS
    <3>2. g \in [D -> Nat] /\ h = [g EXCEPT ![p] = @ + 1]  BY <2>3, <3>1
    <3>3. h \in [D -> Nat] /\ \A q \in D : h[q] = IF q = p THEN g[q] + 1 ELSE g[q]
      <4>1. CASE p \in D
        <5>1. g[p] \in Nat  BY <3>2, <4>1
        <5>2. g[p] + 1 \in Nat  BY <5>1
        <5>3. PICK x : x = g[p] + 1  OBVIOUS
        <5>4. h = [g EXCEPT ![p] = x] /\ x \in Nat  BY <3>2, <5>2, <5>3
        <5>5. h \in [D -> Nat] /\ \A q \in D : h[q] = IF q = p THEN x ELSE g[q]  BY <3>2, <5>4
        <5> QED BY <5>3, <5>5
      <4>2. CASE p \notin D
        <5>1. h = g  BY <3>2, <4>2
        <5> QED BY <3>2, <4>2, <5>1
      <4> QED BY <4>1, <4>2
    <3> QED BY <3>1, <3>3
  <2>5. \A s \in Tiendas, n \in Empresas : <<s, n>> \in Tiendas \X Empresas
            /\ (<<s, n>> = p <=> s = e /\ n = m)
    BY <2>1
  <2> QED BY <2>1, <2>2, <2>4, <2>5
<1>5. toque' \in [Toques -> Toque] /\ eventos' = eventos  BY <1>0, <1>2, ToqueContesta
<1>6. MetricasTipos'
  BY <1>0, <1>2, <1>4, <1>5 DEF MetricasTipos, promocionesVistas, cuentasEventos, calendario
<1>7. \A s \in Tiendas, n \in Empresas :
          promoEventos'[<<s, n>>] + Cardinality(EventoDe(s, n)')
              <= promoEventos[<<s, n>>] + Cardinality(EventoDe(s, n))
  <2> SUFFICES ASSUME NEW s \in Tiendas, NEW n \in Empresas
               PROVE  promoEventos'[<<s, n>>] + Cardinality(EventoDe(s, n)')
                          <= promoEventos[<<s, n>>] + Cardinality(EventoDe(s, n))
    OBVIOUS
  <2>1. PICK a, b, c, d : a = promoEventos'[<<s, n>>] /\ b = Cardinality(EventoDe(s, n)')
            /\ c = promoEventos[<<s, n>>] /\ d = Cardinality(EventoDe(s, n))
    OBVIOUS
  <2>2. a \in Nat /\ c \in Nat  BY <1>3, <1>4, <2>1
  <2>3. b \in Nat /\ d \in Nat /\ b <= d /\ (s = e /\ n = m => b = d - 1)
    BY <1>0, <1>1, <1>2, <2>1, ContestaCuenta, PendientesCuenta
  <2>4. (s = e /\ n = m => a = c + 1) /\ (~(s = e /\ n = m) => a = c)  BY <1>4, <2>1
  <2>5. a + b <= c + d  BY <2>2, <2>3, <2>4
  <2> QED BY <2>1, <2>5
<1>8. UNCHANGED <<contador, detalle, cortes, contadas, tablaPromo>>
  BY <1>2 DEF promocionesVistas, cuentasEventos
<1>9. \A k \in DOMAIN tablaPromo' : tablaPromo'[k] <= contadas'  BY <1>0, <1>8 DEF CuentasCaben
<1>10. CuentasCaben'  BY <1>0, <1>2, <1>6, <1>7, <1>8, <1>9, CuentasContesta, NadieDebeMas
<1>11. EventosEnRegla'  BY <1>0, <1>2, ContestaCuenta, PendientesCuenta, EventosIgual
<1>12. VistasEnRegla'  BY <1>0, <1>2, QuedanIgual, VistasIgual
<1>13. EmpresasEnRegla'
  <2> SUFFICES ASSUME movidas = {} PROVE EmpresasEnRegla'  BY <1>2 DEF EmpresasEnRegla
  <2>1. m = OtraEmpresa  BY <1>0, <1>1, <1>3 DEF EmpresasEnRegla
  <2>2. \A s \in Tiendas, n \in Empresas : n # OtraEmpresa => promoEventos'[<<s, n>>] = 0
    BY <1>0, <1>4, <2>1 DEF EmpresasEnRegla
  <2>3. \A v \in ConEvento' : toque'[v].n = OtraEmpresa
    BY <1>0, <1>2, QuedanIgual DEF EmpresasEnRegla
  <2> QED BY <1>0, <1>2, <2>2, <2>3 DEF EmpresasEnRegla
<1>14. HistoricoEnRegla' /\ SemanalEnRegla'  BY <1>0, <1>2, <1>8, SumaQuieta, CalendarioIgual
<1> QED BY <1>6, <1>10, <1>11, <1>12, <1>13, <1>14 DEF MetricasInv

LEMMA InvEscribeVista ==
    ASSUME MetricasInv, NEW w \in Toques, EscribeVista(w) PROVE MetricasInv'
<1>0. MetricasTipos /\ CuentasCaben /\ EventosEnRegla /\ VistasEnRegla /\ EmpresasEnRegla
      /\ HistoricoEnRegla /\ SemanalEnRegla
  BY DEF MetricasInv
<1>1. /\ toque[w].op = "escribe" /\ ContestaToque(w) /\ UNCHANGED carreraVista
      /\ UNCHANGED cuentasEventos /\ UNCHANGED vistasPromo /\ UNCHANGED calendario
      /\ contadas' = contadas + 1
  BY DEF EscribeVista
<1>2. tablaPromo \in Seq(Nat) /\ contadas \in Nat /\ w \in ConVista
  BY <1>0, <1>1 DEF MetricasTipos, ConVista
<1>3. PICK N : N = Len(tablaPromo)  OBVIOUS
<1>4. N \in Nat /\ DOMAIN tablaPromo = 1 .. N
          /\ (\A k \in 1 .. N : tablaPromo[k] \in Nat /\ tablaPromo[k] <= contadas)
  BY <1>0, <1>2, <1>3 DEF CuentasCaben
<1>5. ASSUME toque[w].existe
      PROVE  /\ tablaPromo' \in Seq(Nat) /\ (\A k \in DOMAIN tablaPromo' : tablaPromo'[k] <=
                    contadas')
             /\ Len(tablaPromo') + Cardinality(ConFilaNueva') <=
                    Len(tablaPromo) + Cardinality(ConFilaNueva)
             /\ carreraVista \/ tablaPromo' = <<contadas'>>
             /\ carreraVista \/ \A v \in ConVista' : toque'[v].existe
  <2>1. tablaPromo' = [k \in 1 .. N |-> tablaPromo[k] + 1]  BY <1>4, <1>5 DEF EscribeVista
  <2>2. tablaPromo' \in Seq(Nat) /\ Len(tablaPromo') = N /\ DOMAIN tablaPromo' = 1 .. N
    BY <1>4, <2>1
  <2>3. \A k \in DOMAIN tablaPromo' : tablaPromo'[k] <= contadas'  BY <1>1, <1>2, <1>4, <2>1, <2>2
  <2>4. tablaPromo = <<contadas>> => tablaPromo' = <<contadas'>>
    <3> SUFFICES ASSUME tablaPromo = <<contadas>> PROVE tablaPromo' = <<contadas'>>  OBVIOUS
    <3>1. N = 1 /\ tablaPromo[1] = contadas  BY <1>3
    <3> QED BY <1>1, <2>1, <3>1
  <2>5. Cardinality(ConFilaNueva') = Cardinality(ConFilaNueva)
    BY <1>0, <1>1, <1>5, ContestaCuenta, PendientesCuenta
  <2>6. Len(tablaPromo') + Cardinality(ConFilaNueva') <= Len(tablaPromo) + Cardinality(ConFilaNueva)
    BY <1>3, <1>4, <2>2, <2>5, PendientesCuenta
  <2>7. carreraVista \/ (tablaPromo' = <<contadas'>> /\ tablaPromo # <<>>)
    BY <1>0, <1>2, <1>5, <2>4 DEF VistasEnRegla
  <2>8. carreraVista \/ \A v \in ConVista' : toque'[v].existe
    BY <1>0, <2>7, <1>1, QuedanIgual DEF VistasEnRegla
  <2> QED BY <2>2, <2>3, <2>6, <2>7, <2>8
<1>6. ASSUME ~toque[w].existe
      PROVE  /\ tablaPromo' \in Seq(Nat) /\ (\A k \in DOMAIN tablaPromo' : tablaPromo'[k] <=
                    contadas')
             /\ Len(tablaPromo') + Cardinality(ConFilaNueva') <=
                    Len(tablaPromo) + Cardinality(ConFilaNueva)
             /\ carreraVista \/ tablaPromo' = <<contadas'>>
             /\ carreraVista \/ \A v \in ConVista' : toque'[v].existe
  <2>1. tablaPromo' = tablaPromo \o <<1>>  BY <1>6 DEF EscribeVista, FilaVista
  <2>2. /\ tablaPromo' \in Seq(Nat) /\ Len(tablaPromo') = N + 1 /\ DOMAIN tablaPromo' = 1 .. N + 1
        /\ tablaPromo'[N + 1] = 1 /\ \A k \in 1 .. N : tablaPromo'[k] = tablaPromo[k]
    BY <1>2, <1>3, <1>4, <2>1
  <2>3. \A k \in DOMAIN tablaPromo' : tablaPromo'[k] <= contadas'
    <3> SUFFICES ASSUME NEW k \in 1 .. N + 1 PROVE tablaPromo'[k] <= contadas + 1  BY <1>1, <2>2
    <3>1. CASE k = N + 1  BY <1>2, <2>2, <3>1
    <3>2. CASE k # N + 1  BY <1>4, <3>2, <2>2, <1>2
    <3> QED BY <3>1, <3>2
  <2>4. Cardinality(ConFilaNueva') = Cardinality(ConFilaNueva) - 1
    BY <1>0, <1>1, <1>6, ContestaCuenta
  <2>5. Len(tablaPromo') + Cardinality(ConFilaNueva') <= Len(tablaPromo) + Cardinality(ConFilaNueva)
    BY <1>3, <1>4, <2>2, <2>4, PendientesCuenta
  <2>6. carreraVista \/ (tablaPromo = <<>> /\ contadas = 0 /\ \A v \in ConVista : v = w)
    <3>1. carreraVista \/ tablaPromo = <<>>  BY <1>0, <1>2, <1>6 DEF VistasEnRegla
    <3>2. <<contadas>> # <<>>  OBVIOUS
    <3> QED BY <1>0, <1>2, <3>1, <3>2 DEF VistasEnRegla
  <2>7. carreraVista \/ tablaPromo' = <<contadas'>>
    <3> SUFFICES ASSUME tablaPromo = <<>>, contadas = 0 PROVE tablaPromo' = <<contadas'>>  BY <2>6
    <3>1. contadas' = 1  BY <1>1
    <3>2. tablaPromo' = <<1>>  BY <2>1
    <3> QED BY <3>1, <3>2
  <2>8. carreraVista \/ \A v \in ConVista' : toque'[v].existe
    <3>1. ConVista' = ConVista \ {w}  BY <1>0, <1>1, ToqueContesta
    <3> QED BY <2>6, <3>1
  <2> QED BY <2>2, <2>3, <2>5, <2>7, <2>8
<1>7. /\ tablaPromo' \in Seq(Nat) /\ (\A k \in DOMAIN tablaPromo' : tablaPromo'[k] <= contadas')
      /\ Len(tablaPromo') + Cardinality(ConFilaNueva') <=
             Len(tablaPromo) + Cardinality(ConFilaNueva)
      /\ carreraVista \/ tablaPromo' = <<contadas'>>
      /\ carreraVista \/ \A v \in ConVista' : toque'[v].existe
  BY <1>5, <1>6
<1>8. toque' \in [Toques -> Toque] /\ eventos' = eventos  BY <1>0, <1>1, ToqueContesta
<1>9. MetricasTipos'
  <2>1. contadas' \in Nat  BY <1>1, <1>2
  <2> QED BY <1>0, <1>1, <1>7, <1>8, <2>1 DEF MetricasTipos, vistasPromo, cuentasEventos, calendario
<1>10. UNCHANGED <<contador, detalle, cortes, promoEventos>>
  BY <1>1 DEF vistasPromo, cuentasEventos
<1>11. contadas' + Cardinality(ConVista') <= contadas + Cardinality(ConVista)
  BY <1>0, <1>1, ContestaCuenta, <1>2, PendientesCuenta
<1>12. CuentasCaben'  BY <1>0, <1>1, <1>7, <1>9, <1>10, <1>11, CuentasContesta, NadieDebeMas
<1>13. EventosEnRegla'  BY <1>0, <1>1, ContestaCuenta, PendientesCuenta, EventosIgual
<1>14. EmpresasEnRegla'  BY <1>0, <1>1, QuedanIgual, EmpresasIgual
<1>15. VistasEnRegla'
  <2>1. <<contadas'>> # <<>>  OBVIOUS
  <2> QED BY <1>1, <1>7, <2>1 DEF VistasEnRegla
<1>16. HistoricoEnRegla' /\ SemanalEnRegla'  BY <1>0, <1>1, <1>10, SumaQuieta, CalendarioIgual
<1> QED BY <1>9, <1>12, <1>13, <1>14, <1>15, <1>16 DEF MetricasInv

--------------------
(* The crons; every action.                                                *)

LEMMA NadaPendiente ==
    ASSUME UNCHANGED toque
    PROVE  /\ ConDetalle' = ConDetalle /\ ConVista' = ConVista /\ ConEvento' = ConEvento
           /\ Cardinality(ConDetalle') = Cardinality(ConDetalle)
           /\ (\A v \in ConVista' : toque'[v] = toque[v])
                  /\ (\A v \in ConEvento' : toque'[v] = toque[v])
<1>1. ConDetalle' = ConDetalle /\ ConVista' = ConVista /\ ConEvento' = ConEvento
  BY DEF ConDetalle, ConVista, ConEvento
<1> QED BY <1>1

LEMMA InvMueveTienda ==
    ASSUME MetricasInv, NEW s \in Tiendas, NEW n \in Empresas, MueveTienda(s, n) PROVE MetricasInv'
<1>0. MetricasTipos /\ CuentasCaben /\ EventosEnRegla /\ VistasEnRegla /\ EmpresasEnRegla
      /\ HistoricoEnRegla /\ SemanalEnRegla
  BY DEF MetricasInv
<1>1. /\ UNCHANGED promoEventos /\ UNCHANGED cuentasEventos /\ UNCHANGED promocionesVistas
      /\ UNCHANGED calendario /\ UNCHANGED toque /\ UNCHANGED eventos
      /\ empresaDe' = [empresaDe EXCEPT ![s] = n] /\ movidas' = movidas \cup {s}
  BY DEF MueveTienda
<1>2. MetricasTipos'  BY <1>0, <1>1 DEF MetricasTipos, cuentasEventos, promocionesVistas, calendario
<1>3. CuentasCaben'  BY <1>0, <1>1, OtrasCuentas DEF cuentasEventos, promocionesVistas
<1>4. EventosEnRegla' /\ VistasEnRegla'  BY <1>0, <1>1, NadaPendiente, EventosIgual, VistasIgual
<1>5. EmpresasEnRegla'  BY <1>1 DEF EmpresasEnRegla
<1>6. HistoricoEnRegla' /\ SemanalEnRegla'
  BY <1>0, <1>1, SumaQuieta, CalendarioIgual DEF cuentasEventos
<1> QED BY <1>2, <1>3, <1>4, <1>5, <1>6 DEF MetricasInv

LEMMA LosDemas ==
    ASSUME MetricasInv, UNCHANGED cuentasEventos, UNCHANGED promocionesVistas,
               UNCHANGED vistasPromo,
           UNCHANGED <<toque, eventos>>
    PROVE  CuentasCaben' /\ EventosEnRegla' /\ VistasEnRegla' /\ EmpresasEnRegla'
<1>0. CuentasCaben /\ EventosEnRegla /\ VistasEnRegla /\ EmpresasEnRegla  BY DEF MetricasInv
<1>1. CuentasCaben'  BY <1>0, OtrasCuentas DEF cuentasEventos, promocionesVistas, vistasPromo
<1> QED BY <1>0, <1>1, NadaPendiente, EventosIgual, VistasIgual, EmpresasIgual

LEMMA SemanaEs ==
    ASSUME NEW d \in Nat, d % Semana = 0
    PROVE  (d \div Semana) * Semana = d /\ d \div Semana \in Nat
<1>1. d = Semana * (d \div Semana) + (d % Semana) /\ d \div Semana \in Int  OBVIOUS
<1>2. PICK q : q = d \div Semana  OBVIOUS
<1>3. q \in Int /\ d = Semana * q  BY <1>1, <1>2
<1>4. q >= 0  BY <1>3
<1>5. q * Semana = Semana * q  BY <1>3
<1> QED BY <1>2, <1>3, <1>4, <1>5

\* The rows of a week that has ended are rows of the table.
LEMMA FilasEstan ==
    ASSUME MetricasTipos, NEW s \in Nat, s > 0, s * Semana <= diaMetrica
    PROVE  /\ IsFiniteSet(FilasDe(s)) /\ FilasDe(s) \subseteq Filas /\ s * Semana \in Nat
           /\ \A p \in FilasDe(s) : p[1] < s * Semana
<1>1. PICK a, b : a = (s - 1) * Semana /\ b = s * Semana  OBVIOUS
<1>2. a \in Nat /\ b \in Nat
  <2>1. s - 1 \in Nat  OBVIOUS
  <2> QED BY <1>1, <2>1
<1>3. FilasDe(s) = {p \in Filas : p[1] \in a .. b - 1 /\ historico[p] # SinFila}
  BY <1>1 DEF FilasDe
<1>4. IsFiniteSet(Filas)
  <2>1. IsFiniteSet(0 .. MaxDia)  BY FS_Interval
  <2> QED BY <2>1, FS_Product DEF Filas
<1>5. IsFiniteSet(FilasDe(s)) /\ FilasDe(s) \subseteq Filas  BY <1>3, <1>4, FS_Subset
<1>6. \A p \in FilasDe(s) : p[1] < b  BY <1>2, <1>3
<1> QED BY <1>1, <1>2, <1>5, <1>6

LEMMA InvGeneraResumenSemanal ==
    ASSUME MetricasInv, GeneraResumenSemanal PROVE MetricasInv'
<1>0. MetricasTipos /\ HistoricoEnRegla /\ SemanalEnRegla /\ diaMetrica \in Nat
  BY DEF MetricasInv, MetricasTipos
<1>1. /\ hora = 0 /\ hora' = 1 /\ UNCHANGED eliminadas /\ UNCHANGED historico /\ UNCHANGED diaMetrica
      /\ UNCHANGED cuentasEventos /\ UNCHANGED promocionesVistas /\ UNCHANGED vistasPromo
      /\ UNCHANGED <<toque, eventos>>
  BY DEF GeneraResumenSemanal
<1>2. PICK s : s = diaMetrica \div Semana  OBVIOUS
<1>3. \/ UNCHANGED semanal
      \/ /\ diaMetrica % Semana = 0 /\ s > 0
         /\ semanal' = [semanal EXCEPT ![s] = SumaEventos(historico, FilasDe(s))]
  BY <1>2 DEF GeneraResumenSemanal
<1>4. CuentasCaben' /\ EventosEnRegla' /\ VistasEnRegla' /\ EmpresasEnRegla'  BY <1>1, LosDemas
<1>5. \A r : DeLaSemana(r)' = DeLaSemana(r)  BY <1>1 DEF FilasDe, DeLaSemana
<1>6. HistoricoEnRegla'  BY <1>1, <1>0 DEF cuentasEventos, HistoricoEnRegla
<1>7. ASSUME diaMetrica % Semana = 0, s > 0
      PROVE  /\ s * Semana = diaMetrica /\ SumaEventos(historico, FilasDe(s)) \in Int
             /\ DeLaSemana(s) = FilasDe(s)
  <2>1. s * Semana = diaMetrica /\ s \in Nat  BY <1>0, <1>2, <1>7, SemanaEs
  <2>2. /\ IsFiniteSet(FilasDe(s)) /\ FilasDe(s) \subseteq Filas  BY <1>0, <1>7, <2>1, FilasEstan
  <2>3. \A p \in FilasDe(s) : historico[p] # SinFila  BY DEF FilasDe
  <2>4. \A p \in FilasDe(s) : historico[p] \in Int
    <3>1. \A p \in Filas : historico[p] \in Nat \cup {SinFila}  BY <1>0 DEF MetricasTipos
    <3>2. \A p \in FilasDe(s) : historico[p] \in Nat  BY <2>2, <2>3, <3>1
    <3> QED BY <3>2
  <2>5. Sumatoria(historico, FilasDe(s)) \in Int  BY <2>2, <2>4, SumaInt
  <2>6. \A p \in FilasDe(s) : p[1] # diaMetrica - 1
    <3> SUFFICES ASSUME NEW p \in FilasDe(s) PROVE p[1] # diaMetrica - 1  OBVIOUS
    <3>1. PICK d \in 0 .. MaxDia, n \in Empresas : p = <<d, n>>  BY <2>2 DEF Filas
    <3>2. d < diaMetrica - 1  BY <1>0, <1>1, <2>3, <3>1 DEF HistoricoEnRegla
    <3>3. p[1] = d /\ d \in Int  BY <3>1
    <3> QED BY <1>0, <3>2, <3>3
  <2> QED BY <2>1, <2>5, <2>6, EventosSuman DEF DeLaSemana
<1>8. semanal' \in [1 .. MaxDia \div Semana -> Int]  BY <1>0, <1>3, <1>7 DEF MetricasTipos
<1>9. MetricasTipos'
  BY <1>0, <1>1, <1>8 DEF MetricasTipos, cuentasEventos, promocionesVistas, vistasPromo
<1>10. SemanalEnRegla'
  <2> SUFFICES ASSUME NEW r \in 1 .. MaxDia \div Semana, semanal'[r] # SinFila
               PROVE  /\ r * Semana <= diaMetrica
                      /\ semanal'[r] = SumaEventos(historico, DeLaSemana(r))
    BY <1>1, <1>5 DEF SemanalEnRegla
  <2>1. CASE semanal'[r] = semanal[r]  BY <1>0, <2>1 DEF SemanalEnRegla
  <2>2. CASE semanal'[r] # semanal[r]
    <3>1. r = s /\ diaMetrica % Semana = 0 /\ s > 0
              /\ semanal'[r] = SumaEventos(historico, FilasDe(s))
      BY <1>0, <1>3, <2>2 DEF MetricasTipos
    <3>2. r * Semana = diaMetrica /\ DeLaSemana(r) = FilasDe(r)
      BY <1>7, <3>1
    <3> QED BY <1>0, <3>1, <3>2
  <2> QED BY <2>1, <2>2
<1> QED BY <1>4, <1>6, <1>9, <1>10 DEF MetricasInv

LEMMA InvGeneraDiarias ==
    ASSUME MetricasInv, GeneraDiarias PROVE MetricasInv'
<1>0. MetricasTipos /\ HistoricoEnRegla /\ SemanalEnRegla /\ diaMetrica \in Nat
          /\ diaMetrica <= MaxDia
  BY DEF MetricasInv, MetricasTipos
<1>1. /\ hora < 2 /\ hora' = 2 /\ diaMetrica > 0 /\ UNCHANGED <<eliminadas, semanal>>
      /\ UNCHANGED diaMetrica
      /\ UNCHANGED cuentasEventos /\ UNCHANGED promocionesVistas /\ UNCHANGED vistasPromo
      /\ UNCHANGED <<toque, eventos>>
  BY DEF GeneraDiarias
<1>2. PICK t : t = diaMetrica - 1  OBVIOUS
<1>3. t \in 0 .. MaxDia /\ t \in Nat  BY <1>0, <1>1, <1>2
<1>4. historico' = [p \in Filas |-> IF p[1] = t /\ p[2] \notin eliminadas
                                    THEN contador[p[2]] ELSE historico[p]]
  BY <1>2 DEF GeneraDiarias
<1>14. /\ historico \in [Filas -> Nat \cup {SinFila}]
       /\ \A n \in Empresas : contador[n] \in Nat /\ contador'[n] = contador[n]
  BY <1>0, <1>1 DEF MetricasTipos, Contables, cuentasEventos
<1>5. CuentasCaben' /\ EventosEnRegla' /\ VistasEnRegla' /\ EmpresasEnRegla'  BY <1>1, LosDemas
<1>6. /\ historico' \in [Filas -> Nat \cup {SinFila}]
      /\ \A d \in 0 .. MaxDia, n \in Empresas :
           historico'[<<d, n>>] = IF d = t /\ n \notin eliminadas THEN contador[n]
                                  ELSE historico[<<d, n>>]
  <2>1. \A d \in 0 .. MaxDia, n \in Empresas :
           historico'[<<d, n>>] = IF d = t /\ n \notin eliminadas THEN contador[n]
                                  ELSE historico[<<d, n>>]
    BY <1>4 DEF Filas
  <2>2. \A p \in Filas : historico'[p] \in Nat \cup {SinFila}
    <3> SUFFICES ASSUME NEW p \in Filas PROVE historico'[p] \in Nat \cup {SinFila}  OBVIOUS
    <3>1. PICK d \in 0 .. MaxDia, n \in Empresas : p = <<d, n>>  BY DEF Filas
    <3> QED BY <1>14, <2>1, <3>1
  <2>3. historico' = [p \in Filas |-> historico'[p]]  BY <1>4
  <2> QED BY <2>1, <2>2, <2>3
<1>7. MetricasTipos'
  BY <1>0, <1>1, <1>6 DEF MetricasTipos, cuentasEventos, promocionesVistas, vistasPromo
<1>9. \A d \in 0 .. MaxDia, n \in Empresas : historico[<<d, n>>] # SinFila =>
          d < t /\ historico[<<d, n>>] <= contador[n] /\ historico[<<d, n>>] \in Nat
  BY <1>0, <1>1, <1>2, <1>14 DEF HistoricoEnRegla, Filas
<1>10. \A d \in 0 .. MaxDia, n \in Empresas : historico'[<<d, n>>] # SinFila =>
          d <= t /\ historico'[<<d, n>>] <= contador[n]
  <2> SUFFICES ASSUME NEW d \in 0 .. MaxDia, NEW n \in Empresas, historico'[<<d, n>>] # SinFila
               PROVE d <= t /\ historico'[<<d, n>>] <= contador[n]
    OBVIOUS
  <2>1. CASE d = t /\ n \notin eliminadas  BY <1>3, <1>6, <1>14, <2>1
  <2>2. CASE ~(d = t /\ n \notin eliminadas)
    <3>1. historico'[<<d, n>>] = historico[<<d, n>>]  BY <1>6, <2>2
    <3> QED BY <1>3, <1>9, <3>1
  <2> QED BY <2>1, <2>2
<1>11. HistoricoEnRegla'
  <2>1. ASSUME NEW n \in Empresas, NEW d \in 0 .. MaxDia, NEW e \in 0 .. MaxDia,
               d < e, historico'[<<d, n>>] # SinFila, historico'[<<e, n>>] # SinFila
        PROVE  historico'[<<d, n>>] <= historico'[<<e, n>>]
    <3>1. CASE e = t /\ n \notin eliminadas  BY <1>6, <1>10, <2>1, <3>1
    <3>2. CASE ~(e = t /\ n \notin eliminadas)
      <4>1. historico'[<<e, n>>] = historico[<<e, n>>]  BY <1>6, <3>2
      <4>2. e < t  BY <1>9, <2>1, <4>1
      <4>3. d # t  BY <1>3, <2>1, <4>2
      <4>4. historico'[<<d, n>>] = historico[<<d, n>>]  BY <1>6, <4>3
      <4> QED BY <1>0, <2>1, <4>1, <4>4 DEF HistoricoEnRegla
    <3> QED BY <3>1, <3>2
  <2>2. \A d \in 0 .. MaxDia : d <= t => d < diaMetrica  BY <1>0, <1>2
  <2> QED BY <1>1, <1>10, <1>14, <2>1, <2>2 DEF HistoricoEnRegla
<1>12. SemanalEnRegla'
  <2> SUFFICES ASSUME NEW r \in 1 .. MaxDia \div Semana, semanal[r] # SinFila
               PROVE  /\ r * Semana <= diaMetrica
                      /\ semanal[r] = SumaEventos(historico', DeLaSemana(r)')
    BY <1>1 DEF SemanalEnRegla
  <2>1. r * Semana <= diaMetrica
        /\ semanal[r] = SumaEventos(historico, DeLaSemana(r))
    BY <1>0 DEF SemanalEnRegla
  <2>2. r \in Nat /\ r > 0  OBVIOUS
  <2>3. /\ IsFiniteSet(FilasDe(r)) /\ FilasDe(r) \subseteq Filas /\ r * Semana \in Nat
        /\ \A p \in FilasDe(r) : p[1] < r * Semana
    BY <1>0, <2>1, <2>2, FilasEstan
  <2>5. PICK R : R = DeLaSemana(r)  OBVIOUS
  <2>10. PICK a, b : a = (r - 1) * Semana /\ b = r * Semana  OBVIOUS
  <2>11. a \in Nat /\ b \in Nat /\ b <= diaMetrica
    <3>1. r - 1 \in Nat  OBVIOUS
    <3> QED BY <2>1, <2>10, <3>1
  <2>6. \A p \in Filas : p[1] \in a .. b - 1 /\ p[1] # b - 1 => historico'[p] = historico[p]
    <3> SUFFICES ASSUME NEW p \in Filas, p[1] \in a .. b - 1, p[1] # b - 1
                 PROVE  historico'[p] = historico[p]
      OBVIOUS
    <3>1. PICK d \in 0 .. MaxDia, n \in Empresas : p = <<d, n>>  BY DEF Filas
    <3>2. d # t  BY <1>0, <1>2, <2>11, <3>1
    <3> QED BY <1>6, <3>1, <3>2
  <2>7. DeLaSemana(r)' = R
    <3>1. \A p : p \in FilasDe(r) <=> p \in Filas /\ p[1] \in a .. b - 1 /\ historico[p] # SinFila
      BY <2>10 DEF FilasDe
    <3>2. \A p : p \in FilasDe(r)' <=> p \in Filas /\ p[1] \in a .. b - 1 /\ historico'[p] # SinFila
      BY <2>10 DEF FilasDe
    <3> QED BY <2>5, <2>6, <2>10, <3>1, <3>2 DEF DeLaSemana
  <2>8. IsFiniteSet(R) /\ \A p \in R : historico'[p] = historico[p]
    <3>1. \A p \in R : p \in Filas /\ p[1] \in a .. b - 1 /\ p[1] # b - 1
      BY <2>5, <2>10 DEF FilasDe, DeLaSemana
    <3> QED BY <2>3, <2>5, <2>6, <3>1, FS_Subset DEF DeLaSemana
  <2>9. SumaEventos(historico', R) = SumaEventos(historico, R)  BY <2>8, SumaIgual, EventosSuman
  <2> QED BY <2>1, <2>5, <2>7, <2>9
<1> QED BY <1>5, <1>7, <1>11, <1>12 DEF MetricasInv

LEMMA InvEliminaEmpresa ==
    ASSUME MetricasInv, NEW n \in Empresas, EliminaEmpresa(n) PROVE MetricasInv'
<1>0. MetricasTipos /\ HistoricoEnRegla /\ SemanalEnRegla  BY DEF MetricasInv
<1>1. /\ eliminadas' = eliminadas \cup {n} /\ UNCHANGED <<historico, semanal, diaMetrica, hora>>
      /\ UNCHANGED cuentasEventos /\ UNCHANGED promocionesVistas /\ UNCHANGED vistasPromo
      /\ UNCHANGED <<toque, eventos>>
  BY DEF EliminaEmpresa
<1>2. MetricasTipos'
  BY <1>0, <1>1 DEF MetricasTipos, cuentasEventos, promocionesVistas, vistasPromo
<1>3. \A s : DeLaSemana(s)' = DeLaSemana(s)  BY <1>1 DEF FilasDe, DeLaSemana
<1>4. HistoricoEnRegla' /\ SemanalEnRegla'
  BY <1>0, <1>1, <1>3 DEF cuentasEventos, HistoricoEnRegla, SemanalEnRegla
<1> QED BY <1>1, <1>2, <1>4, LosDemas DEF MetricasInv

LEMMA InvPasaDia ==
    ASSUME MetricasInv, PasaDiaMetricas PROVE MetricasInv'
<1>0. MetricasTipos /\ HistoricoEnRegla /\ SemanalEnRegla /\ diaMetrica \in Nat
  BY DEF MetricasInv, MetricasTipos
<1>1. /\ diaMetrica < MaxDia /\ diaMetrica' = diaMetrica + 1 /\ hora' = 0
             /\ UNCHANGED <<eliminadas, historico, semanal>>
      /\ UNCHANGED cuentasEventos /\ UNCHANGED promocionesVistas /\ UNCHANGED vistasPromo
      /\ UNCHANGED <<toque, eventos>>
  BY DEF PasaDiaMetricas
<1>2. CuentasCaben' /\ EventosEnRegla' /\ VistasEnRegla' /\ EmpresasEnRegla'  BY <1>1, LosDemas
<1>3. MetricasTipos'
  BY <1>0, <1>1 DEF MetricasTipos, cuentasEventos, promocionesVistas, vistasPromo
<1>4. HistoricoEnRegla'  BY <1>1, <1>0 DEF cuentasEventos, HistoricoEnRegla
<1>5. \A r : DeLaSemana(r)' = DeLaSemana(r)  BY <1>1 DEF FilasDe, DeLaSemana
<1>6. \A r \in 1 .. MaxDia \div Semana : r * Semana <= diaMetrica =>
          r * Semana <= diaMetrica' /\ r * Semana # diaMetrica'
  <2> SUFFICES ASSUME NEW r \in 1 .. MaxDia \div Semana, r * Semana <= diaMetrica
               PROVE  r * Semana <= diaMetrica' /\ r * Semana # diaMetrica'
    OBVIOUS
  <2>1. PICK a : a = r * Semana  OBVIOUS
  <2>2. a \in Nat /\ a <= diaMetrica  BY <2>1
  <2> QED BY <1>0, <1>1, <2>1, <2>2
<1>7. SemanalEnRegla'  BY <1>0, <1>1, <1>5, <1>6 DEF SemanalEnRegla
<1> QED BY <1>2, <1>3, <1>4, <1>7 DEF MetricasInv

\* What the counts say, of the invariant.
LEMMA EmpresasCumplen ==
    ASSUME MetricasTipos, EmpresasEnRegla PROVE EmpresasCuadran
<1> SUFFICES ASSUME movidas = {}, NEW n \in Empresas
             PROVE  VistasDeEmpresa(n) = SumaEventos([s \in Tiendas |-> VistasDeTienda(s)],
                        TiendasDe(n))
  BY DEF EmpresasCuadran
<1>1. /\ \A s \in Tiendas : empresaDe[s] = OtraEmpresa
      /\ \A s \in Tiendas, m \in Empresas : m # OtraEmpresa => promoEventos[<<s, m>>] = 0
  BY DEF EmpresasEnRegla
<1>2. PICK f, g : f = [s \in Tiendas |-> promoEventos[<<s, n>>]]
               /\ g = [s \in Tiendas |-> VistasDeTienda(s)]
  OBVIOUS
<1>3. VistasDeEmpresa(n) = Sumatoria(f, Tiendas)  BY <1>2, EventosSuman DEF VistasDeEmpresa
<1>4. CASE n = OtraEmpresa
  <2>1. TiendasDe(n) = Tiendas  BY <1>1, <1>4 DEF TiendasDe
  <2>2. \A s \in Tiendas : f[s] = g[s]
    <3> SUFFICES ASSUME NEW s \in Tiendas PROVE VistasDeTienda(s) = promoEventos[<<s, n>>]  BY <1>2
    <3>1. PICK h : h = [m \in Empresas |-> promoEventos[<<s, m>>]]  OBVIOUS
    <3>2. \A m \in Empresas : h[m] \in Nat  BY <3>1, CuentasTipo
    <3>3. \A m \in Empresas : m # n => h[m] = 0  BY <1>1, <1>4, <3>1
    <3>4. Sumatoria(h, Empresas) = h[n]
      <4>1. IsFiniteSet(Empresas) /\ n \in Empresas  OBVIOUS
      <4> QED BY ONLY <4>1, <3>2, <3>3, SumaUno
    <3> QED BY <3>1, <3>4, EventosSuman DEF VistasDeTienda
  <2>3. Sumatoria(f, Tiendas) = Sumatoria(g, Tiendas)  BY <2>2, SumaIgual
  <2> QED BY <1>2, <1>3, <2>1, <2>3, EventosSuman
<1>5. CASE n # OtraEmpresa
  <2>1. TiendasDe(n) = {}  BY <1>1, <1>5 DEF TiendasDe
  <2>2. Sumatoria(f, Tiendas) = 0
    <3>1. \A s \in Tiendas : f[s] = 0  BY <1>1, <1>2, <1>5
    <3> QED BY <3>1, SumaCeros
  <2>3. SumaEventos(g, TiendasDe(n)) = 0  BY <2>1, SumaVacia, EventosSuman
  <2> QED BY <1>2, <1>3, <2>2, <2>3
<1> QED BY <1>4, <1>5

LEMMA VistasCumplen ==
    ASSUME MetricasTipos, VistasEnRegla PROVE VistasCuadran
<1> SUFFICES ASSUME ~carreraVista PROVE SumaEventos(tablaPromo, DOMAIN tablaPromo) = contadas
  BY DEF VistasCuadran
<1>1. CASE tablaPromo = <<>> /\ contadas = 0
  <2>1. DOMAIN tablaPromo = {}  BY <1>1
  <2> QED BY <1>1, <2>1, SumaVacia, EventosSuman
<1>2. CASE tablaPromo = <<contadas>>
  <2>1. DOMAIN tablaPromo = {1} /\ tablaPromo[1] = contadas /\ contadas \in Nat
    BY <1>2 DEF MetricasTipos
  <2>2. PICK f, S : f = tablaPromo /\ S = {1}  OBVIOUS
  <2>3. IsFiniteSet(S) /\ 1 \in S /\ (\A i \in S : f[i] \in Nat) /\ \A i \in S : i # 1 => f[i] = 0
    BY <2>1, <2>2, FS_Singleton
  <2>4. Sumatoria(f, S) = f[1]  BY ONLY <2>3, SumaUno
  <2> QED BY <2>1, <2>2, <2>4, EventosSuman
<1> QED BY <1>1, <1>2 DEF VistasEnRegla

LEMMA MetricasCumplen == MetricasInv => MetricasTypeOK /\ MetricasCuadran
<1> SUFFICES ASSUME MetricasInv PROVE MetricasTypeOK /\ MetricasCuadran  OBVIOUS
<1>0. MetricasTipos /\ CuentasCaben /\ EventosEnRegla /\ VistasEnRegla /\ EmpresasEnRegla
      /\ HistoricoEnRegla /\ SemanalEnRegla
  BY DEF MetricasInv
<1>1. eventos \in Nat /\ eventos <= MaxEventos  BY <1>0 DEF MetricasTipos, Cuantos
<1>2. contador \in [Tiendas \cup Empresas -> Cuantos]
  BY <1>0, CuentasTipo, <1>1 DEF CuentasCaben, Cuantos, MetricasTipos, Contables
<1>3. DOMAIN detalle = DOMAIN contador /\ \A e \in DOMAIN detalle : detalle[e] \in Cuantos
  <2>1. DOMAIN detalle = Contables /\ DOMAIN contador = Contables  BY <1>0 DEF MetricasTipos
  <2>2. ASSUME NEW e \in Contables PROVE detalle[e] \in Cuantos
    <3>1. PICK a, b : a = detalle[e] /\ b = Cardinality(DetalleDe(e))  OBVIOUS
    <3>2. a \in Nat /\ b \in Nat /\ a + b <= eventos
      BY <1>0, <3>1, CuentasTipo, PendientesCuenta DEF CuentasCaben
    <3> QED BY <1>1, <3>1, <3>2 DEF Cuantos
  <2> QED BY <2>1, <2>2
<1>4. contadas \in Cuantos /\ cortes \in Cuantos
  <2>1. PICK a, b, c, d : a = contadas /\ b = Cardinality(ConVista) /\ c = cortes
                 /\ d = Cardinality(ConDetalle)
    OBVIOUS
  <2>2. a \in Nat /\ b \in Nat /\ c \in Nat /\ d \in Nat /\ a + b <= eventos /\ c + d <= eventos
    BY <1>0, <2>1, CuentasTipo, PendientesCuenta DEF CuentasCaben
  <2> QED BY <1>1, <2>1, <2>2 DEF Cuantos
<1>5. tablaPromo \in Seq(Cuantos) /\ Len(tablaPromo) <= Cardinality(Toques)
  <2>1. \A k \in DOMAIN tablaPromo : tablaPromo[k] \in Cuantos
    BY <1>0, CuentasTipo, <1>4 DEF CuentasCaben, Cuantos
  <2>2. tablaPromo \in Seq(Cuantos)
    <3>1. tablaPromo \in Seq(Nat)  BY <1>0 DEF MetricasTipos
    <3>2. \A k \in 1 .. Len(tablaPromo) : tablaPromo[k] \in Cuantos  BY <2>1, <3>1
    <3>3. PICK S, N, r : S = Cuantos /\ r = tablaPromo /\ N = Len(r)  OBVIOUS
    <3>4. N \in Nat /\ r = [k \in 1 .. N |-> r[k]] /\ \A k \in 1 .. N : r[k] \in S
      BY <3>1, <3>2, <3>3
    <3>5. r \in [1 .. N -> S]  BY <3>4
    <3>6. r \in Seq(S)  BY <3>4, <3>5
    <3> QED BY <3>3, <3>6
  <2> QED BY <1>0, <2>2, CuentasTipo, PendientesCuenta, NuevasCaben DEF CuentasCaben
<1>6. promoEventos \in [Tiendas \X Empresas -> Cuantos]
  <2>1. ASSUME NEW s \in Tiendas, NEW n \in Empresas PROVE promoEventos[<<s, n>>] \in Cuantos
    <3>1. PICK a, b : a = promoEventos[<<s, n>>] /\ b = Cardinality(EventoDe(s, n))  OBVIOUS
    <3>2. a \in Nat /\ b \in Nat /\ a + b <= eventos
      BY <1>0, <3>1, CuentasTipo, PendientesCuenta DEF CuentasCaben
    <3> QED BY <1>1, <3>1, <3>2 DEF Cuantos
  <2> QED BY <1>0, <2>1 DEF MetricasTipos
<1>7. historico \in [Filas -> Cuantos \cup {SinFila}]
  <2>1. ASSUME NEW p \in Filas, historico[p] # SinFila PROVE historico[p] \in Cuantos
    <3>1. PICK d \in 0 .. MaxDia, n \in Empresas : p = <<d, n>>  BY DEF Filas
    <3>2. historico[p] \in Nat /\ contador[n] \in Nat  BY <1>0, <2>1 DEF MetricasTipos, Contables
    <3>3. historico[p] <= contador[n] /\ contador[n] <= eventos
      BY <1>0, <2>1, <3>1 DEF HistoricoEnRegla, CuentasCaben, Contables
    <3> QED BY <1>1, <3>2, <3>3 DEF Cuantos
  <2> QED BY <1>0, <2>1 DEF MetricasTipos
<1>8. MetricasTypeOK  BY <1>0, <1>2, <1>3, <1>4, <1>5, <1>6, <1>7 DEF MetricasTipos, MetricasTypeOK
<1>9. EventosCuadran  BY <1>0 DEF MetricasTipos, EventosCuadran, EventosEnRegla, ConDetalle
<1>10. HistoricoCrece  BY <1>0 DEF MetricasTipos, HistoricoCrece, HistoricoEnRegla, SemanalEnRegla,
     DeLaSemana
<1> QED BY <1>0, <1>8, <1>9, <1>10, EmpresasCumplen, VistasCumplen DEF MetricasCuadran

LEMMA MetricasInvPaso == MetricasInv /\ [MetricasNext]_metricasVars => MetricasInv'
<1> SUFFICES ASSUME MetricasInv, [MetricasNext]_metricasVars PROVE MetricasInv'  OBVIOUS
<1>1. CASE UNCHANGED metricasVars
  <2>1. /\ UNCHANGED cuentasEventos /\ UNCHANGED promocionesVistas /\ UNCHANGED vistasPromo
        /\ UNCHANGED <<toque, eventos>> /\ UNCHANGED calendario
    BY <1>1 DEF metricasVars, cuentasEventos, promocionesVistas, vistasPromo, calendario
  <2>2. MetricasTipos /\ HistoricoEnRegla /\ SemanalEnRegla  BY DEF MetricasInv
  <2>3. MetricasTipos'
    BY <2>1, <2>2 DEF MetricasTipos, cuentasEventos, promocionesVistas, vistasPromo, calendario
  <2>4. HistoricoEnRegla' /\ SemanalEnRegla'
    BY <2>1, <2>2, SumaQuieta, CalendarioIgual DEF cuentasEventos
  <2> QED BY <2>1, <2>3, <2>4, LosDemas DEF MetricasInv
<1>2. CASE GeneraResumenSemanal \/ GeneraDiarias \/ PasaDiaMetricas
  BY <1>2, InvGeneraResumenSemanal, InvGeneraDiarias, InvPasaDia
<1>3. CASE \E s \in Tiendas, n \in Empresas : MueveTienda(s, n)  BY <1>3, InvMueveTienda
<1>7. CASE \E n \in Empresas : EliminaEmpresa(n)  BY <1>7, InvEliminaEmpresa
<1>4. ASSUME NEW w \in Toques, NEW e \in Tiendas \cup Empresas, RegistraEvento(w, e)
      PROVE MetricasInv'
  BY <1>4, InvRegistraEvento DEF Contables
<1>5. ASSUME NEW w \in Toques, NEW s \in Tiendas, LeePromocionVista(w, s) PROVE MetricasInv'
  BY <1>5, InvLeePromocionVista
<1>6. ASSUME NEW w \in Toques,
             RegistraDetalle(w) \/ MiraVista(w) \/ EscribeVista(w) \/ GuardaPromocionVista(w)
                 \/ FallaToque(w)
      PROVE  MetricasInv'
  BY <1>6, InvRegistraDetalle, InvMiraVista, InvEscribeVista, InvGuardaPromocionVista, InvFallaToque
<1> QED BY <1>1, <1>2, <1>3, <1>4, <1>5, <1>6, <1>7 DEF MetricasNext

LEMMA MetricasInvSiempre == MetricasInit /\ [][MetricasNext]_metricasVars => []MetricasInv
  BY MetricasInvInit, MetricasInvPaso, PTL

HIDE MetricasAssumption DEF MetricasAssumption

--------------------
(* The composition: a step of it is a step of one component.               *)

LEMMA NegocioEmpieza ==
    NegocioInit => /\ Init /\ ImagenesInit /\ EstablecimientosInit /\ PromosGlobalesInit
                   /\ PromosSucursalInit /\ MetricasInit /\ CaracteristicasInit /\ MenuInit
  BY DEF NegocioInit

LEMMA NegocioSigue ==
    ASSUME [NegocioNext]_negocioVars
    PROVE  /\ [Next]_vars /\ [ImagenesNext]_imagenesVars
           /\ [EstablecimientosNext]_establecimientosVars
           /\ [PromosGlobalesNext]_promosGlobalesVars /\ [PromosSucursalNext]_promosSucursalVars
           /\ [MetricasNext]_metricasVars /\ [MenuNext]_menuVars
           /\ [CaracteristicasNext]_caracteristicasVars
           /\ UNCHANGED parte
<1>1. CASE NegocioNext  BY <1>1 DEF NegocioNext
<1>2. CASE UNCHANGED negocioVars  BY <1>2 DEF negocioVars, partes
<1> QED BY <1>1, <1>2

LEMMA NegocioOfrece ==
    NegocioSpec => /\ []PromoInv /\ []OfertasInv /\ []MenuTipos /\ []CaracteristicaInv
                   /\ []CaracteristicasTipos /\ []MetricasInv
<1>1. [NegocioNext]_negocioVars => [PromosGlobalesNext]_promosGlobalesVars  BY NegocioSigue
<1>2. [NegocioNext]_negocioVars => [PromosSucursalNext]_promosSucursalVars  BY NegocioSigue
<1>3. [NegocioNext]_negocioVars => [MenuNext]_menuVars  BY NegocioSigue
<1>4. [NegocioNext]_negocioVars => [CaracteristicasNext]_caracteristicasVars  BY NegocioSigue
<1>5. [NegocioNext]_negocioVars => [MetricasNext]_metricasVars  BY NegocioSigue
<1>6. NegocioInit => /\ PromosGlobalesInit /\ PromosSucursalInit /\ MenuInit
                     /\ CaracteristicasInit /\ MetricasInit
  BY NegocioEmpieza
<1> QED BY <1>1, <1>2, <1>3, <1>4, <1>5, <1>6, PromoInvSiempre, OfertasInvSiempre,
           MenuTiposSiempre, CaracteristicaInvSiempre, CaracteristicasTiposSiempre,
           MetricasInvSiempre, PTL DEF NegocioSpec, MenuSpec

LEMMA NegocioAtiende ==
    NegocioSpec => []TypeOK /\ []ImagenesTypeOK /\ []EstablecimientosTypeOK
<1>1. [NegocioNext]_negocioVars => [Next]_vars  BY NegocioSigue
<1>2. [NegocioNext]_negocioVars => [ImagenesNext]_imagenesVars  BY NegocioSigue
<1>3. [NegocioNext]_negocioVars => [EstablecimientosNext]_establecimientosVars  BY NegocioSigue
<1>4. NegocioInit => Init /\ ImagenesInit /\ EstablecimientosInit  BY NegocioEmpieza
<1> QED BY <1>1, <1>2, <1>3, <1>4, TypeCorrect, ImagenesTypes, EstablecimientosTypes,
           PTL DEF NegocioSpec, Spec, ImagenesSpec, EstablecimientosSpec


\* A promotion of the business, once a request that writes its links has run alone, shows
\* once in each branch its owner was told and nowhere else (PromocionesNegociosService); and
\* a promotion of a branch that no two requests held at once is in one of its lists if it is
\* on, in none if it was deleted, and the summary counts it so (PromocionesSucursalesService).
THEOREM PromosSiempreEnRegla == NegocioSpec => []PromosEnRegla
<1>1. PromoInv => PromoDondeSeDijo  BY DEF PromoInv, SinEnredo, PromoDondeSeDijo, Repartida
<1>2. OfertasInv => CadaOfertaEnSuLista  BY OfertasEnSuLista
<1>3. PromoDondeSeDijo /\ CadaOfertaEnSuLista => PromosEnRegla  BY DEF PromosEnRegla
<1> QED BY <1>1, <1>2, <1>3, NegocioOfrece, PTL

\* A branch is offered the characteristics it may take, at every step: findAplicables and
\* validarAplicabilidad agree on every set of rules whose references are ids.  Between edits
\* both follow the rules last announced; an alias asked for by one request at a time is one
\* row; and an item of a menu is sold as the branch asked, at the base price of now.
THEOREM OfertaSiempreEnRegla == NegocioSpec => []OfertaEnRegla
<1>1. MenuTipos => MenuComoSePidio  BY MenuCumple DEF MenuTipos
<1>2. CaracteristicaInv => OfreceLoQueAcepta  BY Ofrecen
<1>3. OfreceLoQueAcepta /\ MenuComoSePidio => OfertaEnRegla  BY DEF OfertaEnRegla
<1> QED BY <1>1, <1>2, <1>3, NegocioOfrece, PTL

\* What an owner is shown adds up, whatever requests overlap or stop halfway
\* (EventosNegocioService, metricas.cron): the counters are the rows of detail, but for those
\* still to be written or lost; the views of a promotion are counted in one row while no two
\* requests raced to insert it; an empresa has the views of its branches while none was moved;
\* and the weekly sum is of the days saved by then.
THEOREM MetricasSiempreCuadran == NegocioSpec => []MetricasCuadran
<1>1. MetricasInv => MetricasCuadran  BY MetricasCumplen
<1> QED BY <1>1, NegocioOfrece, PTL

\* The component that a behaviour is about.
Partes == {"sesiones", "imagenes", "establecimientos", "promosGlobales",
           "promosSucursal", "metricas", "caracteristicas", "menu"}
LEMMA NegocioUnaParte == NegocioSpec => [](parte \in Partes)
<1>1. NegocioInit => parte \in Partes  BY DEF NegocioInit, Partes
<1>2. parte \in Partes /\ [NegocioNext]_negocioVars => (parte \in Partes)'  BY NegocioSigue
<1> QED BY <1>1, <1>2, PTL DEF NegocioSpec

\* Every component of the owner's side (the sessions of his devices, his images, businesses,
\* promotions, metrics, characteristics and menus) keeps the shape of its rows and of the
\* requests that hold them, at every step of any of them.
THEOREM NegocioTypes == NegocioSpec => []NegocioTypeOK
<1>1. PromoInv => PromosGlobalesTypeOK  BY DEF PromoInv, FormaPromo, PromosGlobalesTypeOK
<1>2. OfertasInv => PromosSucursalTypeOK  BY DEF OfertasInv, FormaOfertas, PromosSucursalTypeOK
<1>3. MenuTipos => MenuTypeOK  BY MenuTiposBastan
<1>4. CaracteristicasTipos => CaracteristicasTypeOK  BY DEF CaracteristicasTipos
<1>5. MetricasInv => MetricasTypeOK  BY MetricasCumplen
<1>6. ASSUME parte \in Partes, TypeOK, ImagenesTypeOK, EstablecimientosTypeOK,
             PromosGlobalesTypeOK, PromosSucursalTypeOK, MetricasTypeOK,
             CaracteristicasTypeOK, MenuTypeOK
      PROVE  NegocioTypeOK
  <2>1. CASE parte = "sesiones"  BY <1>6, <2>1 DEF NegocioTypeOK
  <2>2. CASE parte = "imagenes"  BY <1>6, <2>2 DEF NegocioTypeOK
  <2>3. CASE parte = "establecimientos"  BY <1>6, <2>3 DEF NegocioTypeOK
  <2>4. CASE parte = "promosGlobales"  BY <1>6, <2>4 DEF NegocioTypeOK
  <2>5. CASE parte = "promosSucursal"  BY <1>6, <2>5 DEF NegocioTypeOK
  <2>6. CASE parte = "metricas"  BY <1>6, <2>6 DEF NegocioTypeOK
  <2>7. CASE parte = "caracteristicas"  BY <1>6, <2>7 DEF NegocioTypeOK
  <2>8. CASE parte = "menu"  BY <1>6, <2>8 DEF NegocioTypeOK
  <2> QED BY <1>6, <2>1, <2>2, <2>3, <2>4, <2>5, <2>6, <2>7, <2>8 DEF Partes
<1> QED BY <1>1, <1>2, <1>3, <1>4, <1>5, <1>6, NegocioOfrece, NegocioAtiende,
           NegocioUnaParte, PTL
==============================================================================
