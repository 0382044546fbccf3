----------------------------- MODULE BookingStatus -----------------------------
(***************************************************************************)
(* The statuses of a booking and what the code says of them: the table of  *)
(* transitions, the statuses that block a slot of the provider's calendar, *)
(* those the weekly limit counts, those updateStatus treats as final.      *)
(***************************************************************************)

Waiting  == {"PENDING", "PENDING_PAYMENT", "PENDING_PROVIDER_CONFIRMATION"}
OnSite   == {"ON_THE_WAY", "ARRIVED", "STARTED"}
Closed   == {"FINISHED", "CANCELED", "REJECTED", "EXPIRED", "NO_SHOW"}
Statuses == Waiting \cup OnSite \cup Closed \cup {"CONFIRMED", "RESCHEDULED", "PENDING_DISPUTE"}

BlockedStatuses   == Waiting \cup OnSite \cup {"CONFIRMED", "RESCHEDULED"}
CountableStatuses == {"CONFIRMED", "STARTED", "FINISHED"}
FinalizedStates   == {"FINISHED", "CANCELED", "REJECTED", "NO_SHOW"}

Transitions ==
    [s \in Statuses |->
        CASE s = "PENDING_PAYMENT" ->
                {"CONFIRMED", "REJECTED", "CANCELED", "PENDING_DISPUTE", "EXPIRED"}
          [] s \in Waiting \ {"PENDING_PAYMENT"} ->
                {"CONFIRMED", "REJECTED", "CANCELED", "PENDING_DISPUTE"}
          [] s = "CONFIRMED" ->
                OnSite \cup {"FINISHED", "CANCELED", "RESCHEDULED", "PENDING_DISPUTE"}
          [] s = "ON_THE_WAY"  -> {"ARRIVED", "CANCELED", "PENDING_DISPUTE"}
          [] s = "ARRIVED"     -> {"STARTED", "CANCELED", "PENDING_DISPUTE"}
          [] s = "STARTED"     -> {"FINISHED", "CANCELED", "PENDING_DISPUTE"}
          [] s = "RESCHEDULED" -> {"CONFIRMED", "CANCELED", "PENDING_DISPUTE"}
          [] s = "PENDING_DISPUTE" -> {"FINISHED", "CANCELED", "NO_SHOW"}
          [] OTHER -> {}]
=============================================================================
