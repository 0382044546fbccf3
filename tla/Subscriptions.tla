------------------------------ MODULE Subscriptions ------------------------------
(***************************************************************************)
(* One subscription and the delayed job that is to generate its next       *)
(* booking: SubscriptionsService.  The row is in the database, the job in  *)
(* Bull under an id made from the subscription; a change writes the row,   *)
(* then removes the job and, if need be, adds it again.  Changes overlap.  *)
(* No worker takes the queue "subscription-generation", so the job stays.  *)
(***************************************************************************)
EXTENDS Integers

CONSTANTS
    Edits,          \* requests in flight together
    MaxEdits        \* bound: changes made in all

ASSUME SubscriptionsAssumption == MaxEdits \in Nat

Addressless == "ACTION_REQUIRED_ADDRESS"
SubscriptionStatuses == {"ACTIVE", "PAUSED", "CANCELED", "COMPLETED", Addressless}
Suspended == {"PAUSED", "CANCELED"}

VARIABLES
    subscription,   \* its status, "none" before it is created
    generation,     \* is the job in the queue
    edit,           \* what each request does next, the status asked for, the one it read
    edits,          \* changes begun
    overdue,        \* it was created for a day that had come already
    entangled,      \* two requests were in flight together
    broken          \* a call of the queue failed, or the process died

subscriptionVars == <<subscription, generation, edit, edits, overdue, entangled, broken>>

NoEdit == [do |-> "idle", to |-> "ACTIVE", was |-> "ACTIVE"]
EditSteps == {"idle", "generate", "flag", "write", "cancel", "remove", "add"}
InFlight == {e \in Edits : edit[e] # NoEdit}
Begins(e, record) ==
    /\ edit[e] = NoEdit
    /\ edit' = [edit EXCEPT ![e] = record]
    /\ entangled' = (entangled \/ InFlight # {})
EditGoes(e, step) == edit' = [edit EXCEPT ![e].do = step]
Done(e) == edit' = [edit EXCEPT ![e] = NoEdit]

SubscriptionsInit ==
    /\ subscription = "none" /\ generation = FALSE
    /\ edit = [e \in Edits |-> NoEdit] /\ edits = 0
    /\ overdue = FALSE /\ entangled = FALSE /\ broken = FALSE
-----------------------------------------------------------------------------
\* create: the row, then the job, or for a day that has come the booking itself.
Subscribe(e) ==
    /\ subscription = "none" /\ subscription' = "ACTIVE"
    /\ overdue' \in BOOLEAN
    /\ Begins(e, [NoEdit EXCEPT !.do = IF overdue' THEN "generate" ELSE "remove"])
    /\ UNCHANGED <<generation, edits, broken>>

\* generateRecurringBooking, called by create only: without an address it marks the
\* subscription; with one createBookingFromSubscription throws, because the ISO date
\* it is given makes no valid date with a time behind it.
Generate(e) ==
    /\ edit[e].do = "generate"
    /\ \/ subscription = "ACTIVE" /\ EditGoes(e, "flag")
       \/ Done(e)
    /\ UNCHANGED <<subscription, generation, edits, overdue, entangled, broken>>

FlagAddress(e) ==
    /\ edit[e].do = "flag"
    /\ subscription' = Addressless
    /\ Done(e)
    /\ UNCHANGED <<generation, edits, overdue, entangled, broken>>
-----------------------------------------------------------------------------
(***************************************************************************)
(* update.                                                                 *)
(***************************************************************************)

EditRead(e, s) ==
    /\ subscription # "none"
    /\ edits < MaxEdits /\ edits' = edits + 1
    /\ Begins(e, [do |-> "write", to |-> s, was |-> subscription])
    /\ UNCHANGED <<subscription, generation, overdue, broken>>

FromSuspended(e) == edit[e].to = "ACTIVE" /\ edit[e].was \in Suspended
Reactivated(e) == edit[e].to = "ACTIVE" /\ edit[e].was # "ACTIVE"

NextStep(e) ==
    CASE edit[e].to \in Suspended -> "cancel"
      [] Reactivated(e)           -> "remove"
      [] OTHER                    -> "idle"

EditWrite(e) ==
    /\ edit[e].do = "write"
    /\ subscription' = edit[e].to
    /\ IF NextStep(e) = "idle" THEN Done(e) ELSE EditGoes(e, NextStep(e))
    /\ UNCHANGED <<generation, edits, overdue, entangled, broken>>

\* removeSubscriptionGenerationJob, of cancelFutureRecurringBookings.
CancelJob(e) ==
    /\ edit[e].do = "cancel"
    /\ generation' = FALSE
    /\ Done(e)
    /\ UNCHANGED <<subscription, edits, overdue, entangled, broken>>

\* scheduleNextBookingGeneration removes the job and adds it with a new delay.
RemoveJob(e) ==
    /\ edit[e].do = "remove"
    /\ generation' = FALSE
    /\ EditGoes(e, "add")
    /\ UNCHANGED <<subscription, edits, overdue, entangled, broken>>

AddJobAgain(e) ==
    /\ edit[e].do = "add"
    /\ generation' = TRUE
    /\ Done(e)
    /\ UNCHANGED <<subscription, edits, overdue, entangled, broken>>

EditBreaksOff(e) ==
    /\ edit[e].do \in {"cancel", "remove", "add"}
    /\ broken' = TRUE
    /\ Done(e)
    /\ UNCHANGED <<subscription, generation, edits, overdue, entangled>>
-----------------------------------------------------------------------------
SubscriptionsNext ==
    \E e \in Edits :
        \/ Subscribe(e) \/ Generate(e) \/ FlagAddress(e) \/ EditWrite(e) \/ CancelJob(e)
        \/ RemoveJob(e) \/ AddJobAgain(e) \/ EditBreaksOff(e)
        \/ \E s \in SubscriptionStatuses : EditRead(e, s)

SubscriptionsSpec == SubscriptionsInit /\ [][SubscriptionsNext]_subscriptionVars
-----------------------------------------------------------------------------
\* Every variable keeps its domain.
SubscriptionsTypeOK ==
    /\ subscription \in SubscriptionStatuses \cup {"none"} /\ generation \in BOOLEAN
    /\ edit \in [Edits -> [do : EditSteps, to : SubscriptionStatuses,
                            was : SubscriptionStatuses]]
    /\ edits \in Nat /\ overdue \in BOOLEAN /\ entangled \in BOOLEAN /\ broken \in BOOLEAN

\* Once the requests are done the job follows the status, through any sequence of
\* changes: a suspended subscription has none, an active one has its job.  It does not
\* for a subscription created late, after overlapping changes and after a failure.
JobFollowsStatus ==
    InFlight = {} /\ ~entangled /\ ~broken =>
        /\ subscription \in Suspended => ~generation
        /\ subscription = "ACTIVE" /\ ~overdue => generation
=============================================================================
