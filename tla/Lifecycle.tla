------------------------------ MODULE Lifecycle ------------------------------
(***************************************************************************)
(* The constant tables of reservations.service.ts: the statuses of a       *)
(* reservation, which of them occupy the vehicle's calendar, which status  *)
(* may follow which, the timeline event that announces each status, and    *)
(* the interval test every calendar query uses.                            *)
(***************************************************************************)
EXTENDS Integers

\* reservation.entity.ts, enum ReservationStatus
Statuses == {"NOUVELLE_DEMANDE", "EN_ANALYSE", "PROPOSITION_ENVOYEE",
             "EN_ATTENTE_PAIEMENT", "CONFIRMEE", "EN_COURS",
             "CLOTUREE", "ANNULEE", "REFUSEE"}

\* The statuses under which a reservation keeps its vehicle busy.
BLOCKING_STATUSES == {"NOUVELLE_DEMANDE", "EN_ANALYSE", "PROPOSITION_ENVOYEE",
                      "EN_ATTENTE_PAIEMENT", "CONFIRMEE", "EN_COURS"}

\* Mutant: a cancelled dossier may be taken up again.
TransitionsReopening ==
    [s \in Statuses |->
        CASE s = "NOUVELLE_DEMANDE"    -> {"EN_ANALYSE", "ANNULEE", "REFUSEE"}
          [] s = "EN_ANALYSE"          -> {"PROPOSITION_ENVOYEE", "REFUSEE", "ANNULEE"}
          [] s = "PROPOSITION_ENVOYEE" -> {"EN_ATTENTE_PAIEMENT", "ANNULEE"}
          [] s = "EN_ATTENTE_PAIEMENT" -> {"CONFIRMEE", "ANNULEE"}
          [] s = "CONFIRMEE"           -> {"EN_COURS", "ANNULEE"}
          [] s = "EN_COURS"            -> {"CLOTUREE"}
          [] s = "ANNULEE"             -> {"EN_ANALYSE"}
          [] OTHER                     -> {}]

\* ALLOWED_TRANSITIONS[s]: the statuses updateStatus accepts after s.
ALLOWED_TRANSITIONS ==
    [s \in Statuses |->
        CASE s = "NOUVELLE_DEMANDE"    -> {"EN_ANALYSE", "ANNULEE", "REFUSEE"}
          [] s = "EN_ANALYSE"          -> {"PROPOSITION_ENVOYEE", "REFUSEE", "ANNULEE"}
          [] s = "PROPOSITION_ENVOYEE" -> {"EN_ATTENTE_PAIEMENT", "ANNULEE"}
          [] s = "EN_ATTENTE_PAIEMENT" -> {"CONFIRMEE", "ANNULEE"}
          [] s = "CONFIRMEE"           -> {"EN_COURS", "ANNULEE"}
          [] s = "EN_COURS"            -> {"CLOTUREE"}
          [] OTHER                     -> {}]

\* STATUS_EVENT_MAP[s]: the event updateStatus appends once s is stored.
STATUS_EVENT_MAP ==
    [s \in Statuses |->
        CASE s = "NOUVELLE_DEMANDE"    -> "reservation_created"
          [] s = "EN_ANALYSE"          -> "reservation_commercial_reviewed"
          [] s \in {"PROPOSITION_ENVOYEE", "EN_ATTENTE_PAIEMENT"}
                                       -> "reservation_counter_offer_sent"
          [] s = "CONFIRMEE"           -> "reservation_stripe_preauth_created"
          [] s = "EN_COURS"            -> "reservation_vehicle_handover"
          [] OTHER                     -> "reservation_closed"]

\* The types of the events the service appends itself.
ServiceEventTypes ==
    {"reservation_created", "reservation_ack_email_sent",
     "reservation_admin_notified", "reservation_updated",
     "reservation_status_changed", "reservation_commercial_reviewed",
     "reservation_counter_offer_sent", "reservation_stripe_preauth_created",
     "reservation_vehicle_handover", "reservation_closed"}

\* The type of a timeline row is any string a client names, those above
\* included; "other" stands for the strings the service never uses.
EventTypes == ServiceEventTypes \cup {"other"}

\* Strict comparison on both sides: bookings may touch, not intersect.
Overlaps(start1, end1, start2, end2) == start1 < end2 /\ end1 > start2

=============================================================================
