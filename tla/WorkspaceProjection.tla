------------------------ MODULE WorkspaceProjection ------------------------
(***************************************************************************)
(* resolveQuoteWorkspaceProjection: the one stage staff see of an          *)
(* expediente, computed from the request, the two pointers and the time.   *)
(* The conversation, the delivery of the notice and the document are not   *)
(* state of QuoteLifecycle, so a combination of them is any combination:   *)
(* Stages is the set of stages the projection may return.                  *)
(***************************************************************************)
EXTENDS QuoteLifecycle

\* throw new Error('Unclassified quote workspace projection combination ...')
Unclassified == "SIN_CLASIFICAR"

\* The stages of a request that is still open.
OpenRequestStages ==
  CASE request = "RECIBIDA" -> {"NUEVA_SOLICITUD"}
    [] request = "EN_REVISION" -> {"EN_REVISION"}
    [] request = "INFORMACION_REQUERIDA" -> {"RESPUESTA_RECIBIDA", "ESPERANDO_CLIENTE"}
    [] request \in BuildableRequests -> {"PREPARAR_PROPUESTA"}
    [] OTHER -> {Unclassified}

RequestOnlyStages ==
  IF request = "RECHAZADA" THEN {"SOLICITUD_RECHAZADA"} ELSE OpenRequestStages

WorkingStages ==
  IF status[working] = "BORRADOR" THEN {"BORRADOR_GUARDADO"}
  ELSE IF \E a \in approvals : a.version = working /\ a.status = "REQUESTED"
    THEN {"ESPERANDO_APROBACION"}
    ELSE {"PREPARAR_DOCUMENTO", "PREPARANDO_DOCUMENTO", "DOCUMENTO_REQUIERE_ATENCION",
          "LISTA_PARA_PUBLICAR"}

PublishedStages ==
  CASE status[published] = "ACEPTADA" -> {"ACEPTADA"}
    [] status[published] = "RECHAZADA" -> {"PROPUESTA_RECHAZADA"}
    [] status[published] \notin {"ACEPTADA", "RECHAZADA"}
         /\ (status[published] = "VENCIDA" \/ published \in lapsed) -> {"PROPUESTA_VENCIDA"}
    [] status[published] \in OpenOffers /\ published \notin lapsed ->
         {"CAMBIOS_SOLICITADOS", "AVISO_FALLIDO", "ESPERANDO_DECISION",
          "PROPUESTA_PUBLICADA"}
    [] OTHER -> {Unclassified}

Stages ==
  CASE request = "CONVERTIDA_EN_PROYECTO" -> {"SOLICITUD_CONVERTIDA"}
    [] request # "CONVERTIDA_EN_PROYECTO" /\ working = NoVersion /\ published = NoVersion ->
         RequestOnlyStages
    [] request # "CONVERTIDA_EN_PROYECTO" /\ working # NoVersion /\ published # NoVersion ->
         {"REVISANDO_CAMBIOS"}
    [] request # "CONVERTIDA_EN_PROYECTO" /\ working # NoVersion /\ published = NoVersion ->
         WorkingStages
    [] OTHER -> PublishedStages

-----------------------------------------------------------------------------

\* The workspace never fails to classify an expediente, whatever sequence of operations it
\* went through: no reachable combination of request and pointers ends in the throw.
AlwaysClassified == Unclassified \notin Stages
=============================================================================
