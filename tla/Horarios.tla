-------------------------------- MODULE Horarios --------------------------------
(***************************************************************************)
(* The opening hours of a branch: a row of horarios_sucursal for a day,    *)
(* created, changed and removed by HorariosSucursalService, and the four   *)
(* readings of "open now": the filters of SearchService and of             *)
(* FiltrosBusquedaService, the label of a search result, and the public    *)
(* page.  A step is a call to the database.  Hours are minutes of the day. *)
(***************************************************************************)
EXTENDS Integers

CONSTANTS Editores,
          NumDias,       \* the days of the week
          MaxHora,       \* minutes of a day
          Jornadas,      \* the hours an owner may give a day
          MaxEdiciones   \* bound: calls

Horas == 0 .. MaxHora - 1
DiasSemana  == 0 .. NumDias - 1
Jornada == [apertura : Horas, cierre : Horas, cerrado : BOOLEAN]

ASSUME HorariosAssumption ==
    /\ NumDias \in Nat /\ NumDias >= 2 /\ MaxHora \in Nat \ {0}
    /\ Jornadas \subseteq Jornada /\ MaxEdiciones \in Nat

VARIABLES
    horarios,    \* the table, for one branch: UNIQUE (sucursal_id, dia_semana)
    editor,      \* the calls at work
    ediciones,
    solapoHorario,      \* two calls were at work at once
    dicho        \* what the calls that ended well said of each day

horariosVars == <<horarios, editor, ediciones, solapoHorario, dicho>>

--------------------
FilaHorario == [id : 1 .. MaxEdiciones, dia : DiasSemana, jornada : Jornada]
SinHorario  == [apertura |-> 0, cierre |-> 0, cerrado |-> TRUE]
NoFilaHorario == [id |-> 0, dia |-> 0, jornada |-> SinHorario]
\* fila: the entity read, with what the DTO changes; de: the day it was read for.
Campos == {"horas", "cerrado"}
Editor == [paso : {"idle", "guarda", "borra"}, fila : FilaHorario \cup {NoFilaHorario},
           de : DiasSemana, dto : SUBSET Campos]
SinEditor == [paso |-> "idle", fila |-> NoFilaHorario, de |-> 0, dto |-> {}]

HorariosTypeOK ==
    /\ horarios \subseteq FilaHorario
    /\ \A r, s \in horarios : r.id = s.id \/ r.dia = s.dia => r = s
    /\ editor \in [Editores -> Editor]
    /\ \A e \in Editores : editor[e].paso # "idle" => editor[e].fila \in FilaHorario
    /\ ediciones \in 0 .. MaxEdiciones /\ solapoHorario \in BOOLEAN
    /\ \A r \in horarios : r.id <= ediciones
    /\ \A e \in Editores : editor[e].fila.id <= ediciones
    /\ dicho \in [DiasSemana -> Jornada]

HorariosInit ==
    /\ horarios = {} /\ editor = [e \in Editores |-> SinEditor]
    /\ ediciones = 0 /\ solapoHorario = FALSE
    /\ dicho = [d \in DiasSemana |-> SinHorario]

--------------------
Ayer(d)   == (d + NumDias - 1) % NumDias
Cruza(j)  == j.cierre <= j.apertura
EnMarcha  == {e \in Editores : editor[e].paso # "idle"}

LlamaEditor ==
    /\ ediciones < MaxEdiciones /\ ediciones' = ediciones + 1
    /\ solapoHorario' = (solapoHorario \/ EnMarcha # {})

\* crear: INSERT ... ON DUPLICATE KEY UPDATE, in one statement.
\* Mutant: the update leaves the day closed, if it was.
UpsertSinCerrado(r, j) == [r EXCEPT !.jornada = [j EXCEPT !.cerrado = r.jornada.cerrado]]
Upsert(r, j) == [r EXCEPT !.jornada = j]
Crear(d, j) ==
    /\ LlamaEditor
    /\ horarios' =
         IF \E r \in horarios : r.dia = d
         THEN {IF r.dia = d THEN Upsert(r, j) ELSE r : r \in horarios}
         ELSE horarios \cup {[id |-> ediciones + 1, dia |-> d, jornada |-> j]}
    /\ dicho' = [dicho EXCEPT ![d] = j]
    /\ UNCHANGED editor

\* Object.assign(horario, dto): every field of the DTO is optional.
Asigna(base, j, dto) ==
    [apertura |-> (IF "horas" \in dto THEN j ELSE base).apertura,
     cierre   |-> (IF "horas" \in dto THEN j ELSE base).cierre,
     cerrado  |-> (IF "cerrado" \in dto THEN j ELSE base).cerrado]

\* actualizar, eliminar: findOne, then a save or a remove of what was found.
Actualizar(e, r, d, j, dto) ==
    /\ editor[e].paso = "idle" /\ LlamaEditor
    /\ editor' = [editor EXCEPT ![e] =
           [paso |-> "guarda", de |-> r.dia, dto |-> dto,
            fila |-> [id |-> r.id, dia |-> d, jornada |-> Asigna(r.jornada, j, dto)]]]
    /\ UNCHANGED <<horarios, dicho>>

Eliminar(e, r) ==
    /\ editor[e].paso = "idle" /\ LlamaEditor
    /\ editor' = [editor EXCEPT ![e] = [paso |-> "borra", fila |-> r, de |-> r.dia, dto |-> {}]]
    /\ UNCHANGED <<horarios, dicho>>

DejaEditor(e) == editor' = [editor EXCEPT ![e] = SinEditor] /\ UNCHANGED <<ediciones, solapoHorario>>
Otras(id) == {r \in horarios : r.id # id}
Callados(id) ==
    [d \in DiasSemana |-> IF \E r \in horarios : r.id = id /\ r.dia = d THEN SinHorario ELSE dicho[d]]

\* A row that is gone is inserted again; another row of the day refuses the write.
GuardaHorario(e) ==
    /\ editor[e].paso = "guarda"
    /\ LET w == editor[e].fila
       IN  IF \E r \in Otras(w.id) : r.dia = w.dia THEN UNCHANGED <<horarios, dicho>>
           ELSE /\ horarios' = Otras(w.id) \cup {w}
                /\ dicho' = [Callados(w.id) EXCEPT ![w.dia] =
                        Asigna(dicho[editor[e].de], w.jornada, editor[e].dto)]
    /\ DejaEditor(e)

BorraHorario(e) ==
    /\ editor[e].paso = "borra"
    /\ horarios' = Otras(editor[e].fila.id)
    /\ dicho' = Callados(editor[e].fila.id)
    /\ DejaEditor(e)

FallaEditor(e) ==
    /\ editor[e].paso # "idle" /\ DejaEditor(e)
    /\ UNCHANGED <<horarios, dicho>>

HorariosNext ==
    \/ \E d \in DiasSemana, j \in Jornadas : Crear(d, j)
    \/ \E e \in Editores, r \in horarios :
        Eliminar(e, r)
        \/ \E d \in DiasSemana, j \in Jornadas, dto \in SUBSET Campos : Actualizar(e, r, d, j, dto)
    \/ \E e \in Editores : GuardaHorario(e) \/ BorraHorario(e) \/ FallaEditor(e)

HorariosSpec == HorariosInit /\ [][HorariosNext]_horariosVars

--------------------
\* The readings differ in the closing minute.  incluye: it still counts as open.
Antes(h, c, incluye) == h < c \/ (incluye /\ h = c)

\* Mutant: the test there was before, which no hours across midnight pass.
DentroSimple(j, h, incluye) == h >= j.apertura /\ Antes(h, j.cierre, incluye)
Dentro(j, h, incluye) ==
    IF Cruza(j) THEN h >= j.apertura \/ Antes(h, j.cierre, incluye)
    ELSE h >= j.apertura /\ Antes(h, j.cierre, incluye)

\* SearchService compares with the minute, FiltrosBusquedaService with the second
\* (the closing minute counts at second zero), the public page with h < cierre.
AbiertoAhora(d, h, incluye) ==
    \E r \in horarios :
        /\ ~r.jornada.cerrado
        /\ \/ r.dia = d /\ Dentro(r.jornada, h, incluye)
           \/ /\ r.dia = Ayer(d) /\ Cruza(r.jornada)
              /\ Antes(h, r.jornada.cierre, incluye)

\* The label of a search result looks at the row of today only, to the second.
DentroEtiqueta(j, h, enPunto) ==
    IF j.cierre <= j.apertura THEN h >= j.apertura \/ Antes(h, j.cierre, enPunto)
    ELSE h >= j.apertura /\ Antes(h, j.cierre, enPunto)
Etiqueta(d, h, enPunto) ==
    \E r \in horarios : r.dia = d /\ ~r.jornada.cerrado /\ DentroEtiqueta(r.jornada, h, enPunto)

\* The meaning of the hours: from opening to closing, on the next day if it crosses
\* midnight.
HastaMedianoche(j, h) ==
    ~j.cerrado /\ h >= j.apertura /\ (Cruza(j) \/ h < j.cierre)
Madrugada(j, h) == ~j.cerrado /\ Cruza(j) /\ h < j.cierre
DeVerdad(d, h) == HastaMedianoche(dicho[d], h) \/ Madrugada(dicho[Ayer(d)], h)

\* At the closing minute, or in the small hours of a day that will cross midnight.
Tolerado(d, h, incluye) ==
    \E r \in horarios :
        \/ incluye /\ r.dia \in {d, Ayer(d)} /\ h = r.jornada.cierre
        \/ r.dia = d /\ Cruza(r.jornada) /\ h <= r.jornada.cierre

\* While no two edits overlapped: a branch that is open, by the last hours its owner
\* was told are kept, is shown open by every reading of AbiertoAhora; one that is not
\* is shown open only in its closing minute or in the small hours of a crossing day.
AbiertoSegunHorario ==
    ~solapoHorario =>
        \A d \in DiasSemana, h \in Horas, incluye \in BOOLEAN :
            /\ DeVerdad(d, h) => AbiertoAhora(d, h, incluye)
            /\ AbiertoAhora(d, h, incluye) /\ ~DeVerdad(d, h) => Tolerado(d, h, incluye)

\* A result labelled open passes the filter of SearchService; one that passes it and
\* is not labelled open is past its closing minute or still in the night of yesterday.
EtiquetaDeAcuerdo ==
    horarios = {} \/ \A d \in DiasSemana, h \in Horas, enPunto \in BOOLEAN :
        /\ Etiqueta(d, h, enPunto) => AbiertoAhora(d, h, TRUE)
        /\ AbiertoAhora(d, h, TRUE) /\ ~Etiqueta(d, h, enPunto) =>
             \E r \in horarios :
                \/ r.dia = d /\ h = r.jornada.cierre
                \/ r.dia = Ayer(d) /\ Cruza(r.jornada)
=============================================================================
