-------------------------- MODULE CommercialStates --------------------------
(***************************************************************************)
(* The closed vocabularies of the commercial domain and their transition   *)
(* tables: quote-requests/domain.ts, quotes/domain.ts,                     *)
(* quotes/customer-visibility.ts and quote-documents/domain.ts.            *)
(*                                                                         *)
(* A table Record<Status, readonly Status[]> is the set of its pairs, so   *)
(* `TABLE[from]?.includes(to) ?? false` is membership.                     *)
(***************************************************************************)

RequestStatuses ==
  {"RECIBIDA", "EN_REVISION", "INFORMACION_REQUERIDA", "EN_ELABORACION",
   "COTIZACION_DISPONIBLE", "EN_NEGOCIACION", "PENDIENTE_DE_APROBACION",
   "ACEPTADA", "RECHAZADA", "VENCIDA", "CONVERTIDA_EN_PROYECTO"}

AllowedTransitions ==
  ({"RECIBIDA"} \X {"EN_REVISION", "RECHAZADA"})
  \cup ({"EN_REVISION"} \X {"INFORMACION_REQUERIDA", "EN_ELABORACION", "RECHAZADA"})
  \cup ({"INFORMACION_REQUERIDA"} \X {"EN_REVISION", "EN_ELABORACION", "RECHAZADA"})
  \cup ({"EN_ELABORACION"}
          \X {"INFORMACION_REQUERIDA", "COTIZACION_DISPONIBLE", "RECHAZADA"})
  \cup ({"COTIZACION_DISPONIBLE"}
          \X {"EN_NEGOCIACION", "PENDIENTE_DE_APROBACION", "RECHAZADA", "VENCIDA"})
  \cup ({"EN_NEGOCIACION"}
          \X {"EN_ELABORACION", "PENDIENTE_DE_APROBACION", "RECHAZADA", "VENCIDA"})
  \cup ({"PENDIENTE_DE_APROBACION"} \X {"ACEPTADA", "RECHAZADA"})
  \cup ({"ACEPTADA"} \X {"CONVERTIDA_EN_PROYECTO"})
  \cup ({"RECHAZADA", "VENCIDA"} \X {"EN_REVISION", "EN_ELABORACION"})

StaffOperationalTransitions ==
  ({"RECIBIDA"} \X {"EN_REVISION"})
  \cup ({"EN_REVISION"} \X {"INFORMACION_REQUERIDA", "EN_ELABORACION", "RECHAZADA"})
  \cup ({"INFORMACION_REQUERIDA"} \X {"EN_REVISION", "EN_ELABORACION", "RECHAZADA"})
  \cup ({"EN_ELABORACION"} \X {"INFORMACION_REQUERIDA", "RECHAZADA"})

CanTransitionRequest(from, to) == <<from, to>> \in AllowedTransitions

CanStaffTransitionRequest(from, to) == <<from, to>> \in StaffOperationalTransitions

ClosableRequests ==
  {"RECIBIDA", "EN_REVISION", "INFORMACION_REQUERIDA", "EN_ELABORACION",
   "COTIZACION_DISPONIBLE", "EN_NEGOCIACION"}

ReopenableRequests == {"RECHAZADA", "VENCIDA"}

\* QUOTE_BUILDABLE_REQUEST_STATUSES: a draft may be created or edited.
BuildableRequests == {"EN_ELABORACION", "COTIZACION_DISPONIBLE", "EN_NEGOCIACION"}

\* ACCEPTABLE_REQUEST_STATUSES: the customer may accept the published version.
AcceptableRequests ==
  {"COTIZACION_DISPONIBLE", "EN_NEGOCIACION", "PENDIENTE_DE_APROBACION"}

\* DECLINE_REQUEST_STATUSES: the customer may decline it.
DeclinableRequests == {"COTIZACION_DISPONIBLE", "EN_NEGOCIACION"}

-----------------------------------------------------------------------------

VersionStatuses ==
  {"BORRADOR", "EN_REVISION", "ENVIADA", "EN_NEGOCIACION", "ACEPTADA", "RECHAZADA",
   "VENCIDA"}

VersionTransitions ==
  ({"BORRADOR"} \X {"EN_REVISION", "RECHAZADA"})
  \cup ({"EN_REVISION"} \X {"BORRADOR", "ENVIADA", "RECHAZADA"})
  \cup ({"ENVIADA"} \X {"EN_NEGOCIACION", "ACEPTADA", "RECHAZADA", "VENCIDA"})
  \cup ({"EN_NEGOCIACION"} \X {"ACEPTADA", "RECHAZADA", "VENCIDA"})

CanTransitionVersion(from, to) == <<from, to>> \in VersionTransitions

\* The statuses no transition leaves.
TerminalVersions == {"ACEPTADA", "RECHAZADA", "VENCIDA"}

\* What only the team sees and works on; the rest is what the customer may see.
EditableVersions == {"BORRADOR", "EN_REVISION"}

CustomerVisible == {"ENVIADA", "EN_NEGOCIACION", "ACEPTADA", "RECHAZADA", "VENCIDA"}

\* A proposal that waits for the customer's answer.
OpenOffers == {"ENVIADA", "EN_NEGOCIACION"}

\* PDF_SOURCE_STATUSES: a version a commercial PDF can be generated from.
PdfSources == VersionStatuses \ {"BORRADOR"}
=============================================================================
