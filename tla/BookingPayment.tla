---------------------------- MODULE BookingPayment ----------------------------
(***************************************************************************)
(* The payment of one booking by PIX: the booking row, its PaymentIntent   *)
(* row, the ledger entries written when the PSP confirms the payment, and  *)
(* every handler that touches them concurrently:                           *)
(*   - PaymentsService.createPixCharge and PaymentIntentLocker,            *)
(*   - PaymentsService.finalizePixPayment (PIX webhook, admin force),      *)
(*   - BookingsService.updateStatus (client, provider, SYSTEM),            *)
(*   - ExpireBookingsJob.expireDueBookings (cron, every minute).           *)
(* A handler is a sequence of database statements with an await between    *)
(* each two, so every statement is an action of its own and what a handler *)
(* read is kept in seen[h] until it is used.  The database runs READ       *)
(* COMMITTED; a transaction that has written a row holds the row's lock    *)
(* until it commits.  The PSP and its client are external.                 *)
(***************************************************************************)
EXTENDS Naturals, FiniteSets

CONSTANTS
    Handlers,       \* executions of handlers that may be in flight together
    NoHandler,      \* "nobody holds the row lock"
    MaxOrders,      \* bound: PIX orders opened at the PSP for the booking
    MaxFaults       \* bound: crashes, rollbacks and failed gateway calls

ASSUME HandlersAssumption == NoHandler \notin Handlers
ASSUME BoundsAssumption == MaxOrders \in Nat /\ MaxFaults \in Nat

VARIABLES
    status,         \* Booking.status
    deadline,       \* Booking.expiresAt: "none", "future" or "past"
    intent,         \* PaymentIntent.status, "NONE" when there is no row
    ledger,         \* number of positive HOLD and of FEE entries of the booking
    rowLock,        \* handler whose open transaction has updated the intent row
    orders,         \* number of PIX orders the PSP has opened (external)
    shown,          \* orders whose QR code the client has received
    paid,           \* orders the client has paid at the PSP (external)
    acked,          \* paid orders whose webhook was answered with 200
    forced,         \* TRUE once an administrator has forced a confirmation
    pc,             \* what each handler does next
    seen,           \* what each handler has read or created so far
    faults          \* crashes, rollbacks and gateway failures so far

vars == <<status, deadline, intent, ledger, rowLock, orders, shown, paid,
          acked, forced, pc, seen, faults>>

booking == <<status, deadline>>
psp     == <<orders, shown, paid>>

Orders == 1..MaxOrders

Statuses == {"PENDING_PAYMENT", "CONFIRMED", "CANCELED", "REJECTED", "EXPIRED"}
Pending  == {"PENDING_PAYMENT"}
Finalized == {"CANCELED", "REJECTED"}
IntentStatuses == {"NONE", "PENDING", "PAID", "EXPIRED"}

Steps == {"idle",
          "fin.booking", "fin.expire", "fin.tx", "fin.commit",
          "fin.sysread", "fin.syswrite",
          "chg.intent", "chg.claim", "chg.write", "chg.order", "chg.save",
          "upd.write", "exp.write"}

Blank == [order |-> 0, intent |-> "NONE", hold |-> FALSE, to |-> "CONFIRMED"]

Goto(h, step)   == pc' = [pc EXCEPT ![h] = step]
Return(h)       == /\ pc' = [pc EXCEPT ![h] = "idle"]
                   /\ seen' = [seen EXCEPT ![h] = Blank]
Answer200(h)    == acked' = acked \cup ({seen[h].order} \ {0})
Fault           == faults < MaxFaults /\ faults' = faults + 1

\* A statement that writes a locked row waits for the transaction to end.
NoRowLocking == TRUE
RowsFree     == rowLock = NoHandler

Init ==
    /\ status = "PENDING_PAYMENT"
    /\ deadline = "future"
    /\ intent = "NONE"
    /\ ledger = [hold |-> 0, fee |-> 0]
    /\ rowLock = NoHandler
    /\ orders = 0 /\ shown = {} /\ paid = {} /\ acked = {}
    /\ forced = FALSE
    /\ pc = [h \in Handlers |-> "idle"]
    /\ seen = [h \in Handlers |-> Blank]
    /\ faults = 0

-----------------------------------------------------------------------------
(***************************************************************************)
(* finalizePixPayment.  The webhook of a paid order (order # 0) or an      *)
(* administrator (order = 0) starts it; the intent row and the booking row *)
(* are read by two statements.                                             *)
(***************************************************************************)

IntentRefuses == intent \in {"PAID", "EXPIRED"}    \* already paid, or no transition

FinalizeReadIntent(h, o) ==
    /\ pc[h] = "idle"
    /\ intent # "NONE"
    /\ IF IntentRefuses
         THEN /\ acked' = acked \cup ({o} \ {0})
              /\ UNCHANGED <<pc, seen>>
         ELSE /\ Goto(h, "fin.booking")
              /\ seen' = [seen EXCEPT ![h] = [Blank EXCEPT !.order = o]]
              /\ UNCHANGED acked
    /\ UNCHANGED <<booking, intent, ledger, rowLock, psp, faults>>

AnyChargeStatus(o)     == TRUE
ChargeStatusIsFinal(o) == o \in paid    \* PAID, APPROVED or COMPLETED

Webhook(h) ==
    \E o \in shown :
        /\ ChargeStatusIsFinal(o)
        /\ FinalizeReadIntent(h, o)
        /\ UNCHANGED forced

ForceConfirm(h) ==
    /\ FinalizeReadIntent(h, 0)
    /\ pc'[h] # "idle"
    /\ forced' = TRUE

FinalizeReadBooking(h) ==
    /\ pc[h] = "fin.booking"
    /\ \/ /\ status \notin Pending
          /\ Answer200(h)
          /\ Return(h)
       \/ /\ status \in Pending
          /\ Goto(h, IF deadline = "past" THEN "fin.expire" ELSE "fin.tx")
          /\ UNCHANGED <<seen, acked>>
    /\ UNCHANGED <<booking, intent, ledger, rowLock, psp, forced, faults>>

\* The booking is over its deadline: it is expired and the PSP gets an error.
FinalizeExpire(h) ==
    /\ pc[h] = "fin.expire"
    /\ RowsFree
    /\ status' = "EXPIRED"
    /\ Return(h)
    /\ UNCHANGED <<deadline, intent, ledger, rowLock, psp, acked, forced, faults>>

\* $transaction: UPDATE of the intent and of the booking lock both rows, then
\* the HOLD entry is looked up.
FinalizeBegin(h) ==
    /\ pc[h] = "fin.tx"
    /\ RowsFree
    /\ rowLock' = h
    /\ seen' = [seen EXCEPT ![h].hold = ledger.hold > 0]
    /\ Goto(h, "fin.commit")
    /\ UNCHANGED <<booking, intent, ledger, psp, acked, forced, faults>>

IntentStateOnCommit  == "CONFIRMED"
IntentStatusOnCommit == "PAID"

BothEntries == [hold |-> ledger.hold + 1, fee |-> ledger.fee + 1]
LedgerOnlyIfHeld(h)  == IF seen[h].hold THEN BothEntries ELSE ledger
LedgerAfterCommit(h) == IF seen[h].hold THEN ledger ELSE BothEntries

FinalizeCommit(h) ==
    /\ pc[h] = "fin.commit"
    /\ intent' = IntentStatusOnCommit
    /\ deadline' = "none"
    /\ ledger' = LedgerAfterCommit(h)
    /\ rowLock' = NoHandler
    /\ Goto(h, "fin.sysread")
    /\ UNCHANGED <<status, psp, acked, forced, seen, faults>>

\* The transaction fails and is rolled back; the webhook is answered with 500.
FinalizeRollback(h) ==
    /\ pc[h] = "fin.commit"
    /\ Fault
    /\ rowLock' = NoHandler
    /\ Return(h)
    /\ UNCHANGED <<booking, intent, ledger, psp, acked, forced>>

\* systemChangeStatus(CONFIRMED), outside the transaction.
SystemRead(h) ==
    /\ pc[h] = "fin.sysread"
    /\ \/ /\ status = "CONFIRMED"
          /\ Answer200(h)
          /\ Return(h)
       \/ /\ status \in Finalized            \* statusFinalized: 500 to the PSP
          /\ Return(h)
          /\ UNCHANGED acked
       \/ /\ status \notin Finalized \cup {"CONFIRMED"}
          /\ Goto(h, "fin.syswrite")
          /\ UNCHANGED <<seen, acked>>
    /\ UNCHANGED <<booking, intent, ledger, rowLock, psp, forced, faults>>

SystemWrite(h) ==
    /\ pc[h] = "fin.syswrite"
    /\ RowsFree
    /\ status' = "CONFIRMED"
    /\ Answer200(h)
    /\ Return(h)
    /\ UNCHANGED <<deadline, intent, ledger, rowLock, psp, forced, faults>>

-----------------------------------------------------------------------------
(***************************************************************************)
(* createPixCharge, called when the booking is created and again whenever  *)
(* the client asks for a QR code.                                          *)
(***************************************************************************)

ChargeSteps == {"chg.intent", "chg.claim", "chg.write", "chg.order", "chg.save"}
ChargesInFlight == {h \in Handlers : pc[h] \in ChargeSteps}

ChargeReadBooking(h) ==
    /\ pc[h] = "idle"
    /\ status \in Pending
    /\ orders + Cardinality(ChargesInFlight) < MaxOrders      \* bound
    /\ Goto(h, "chg.intent")
    /\ UNCHANGED <<booking, intent, ledger, rowLock, psp, acked, forced, seen, faults>>

\* A PENDING intent is returned to the client as it is.
ChargeReadIntent(h) ==
    /\ pc[h] = "chg.intent"
    /\ Goto(h, IF intent = "PENDING" THEN "idle" ELSE "chg.claim")
    /\ UNCHANGED <<booking, intent, ledger, rowLock, psp, acked, forced, seen, faults>>

\* claimPaymentIntent: findUnique, then update or create, in one transaction.
ClaimRead(h) ==
    /\ pc[h] = "chg.claim"
    /\ IF intent = "PENDING"
         THEN Return(h)                      \* waitForIntentReady
         ELSE /\ seen' = [seen EXCEPT ![h].intent = intent]
              /\ Goto(h, "chg.write")
    /\ UNCHANGED <<booking, intent, ledger, rowLock, psp, acked, forced, faults>>

ClaimWrite(h) ==
    /\ pc[h] = "chg.write"
    /\ RowsFree
    /\ IF seen[h].intent = "NONE" /\ intent # "NONE"
         THEN /\ Return(h)                   \* unique bookingId: P2002
              /\ UNCHANGED intent
         ELSE /\ intent' = "PENDING"
              /\ Goto(h, "chg.order")
              /\ UNCHANGED seen
    /\ UNCHANGED <<booking, ledger, rowLock, psp, acked, forced, faults>>

PostOrder(h) ==
    /\ pc[h] = "chg.order"
    /\ orders' = orders + 1
    /\ seen' = [seen EXCEPT ![h].order = orders']
    /\ Goto(h, "chg.save")
    /\ UNCHANGED <<booking, intent, ledger, rowLock, shown, paid, acked, forced, faults>>

\* POST /orders fails: the intent stays PENDING without a QR code.
PostOrderFails(h) ==
    /\ pc[h] = "chg.order"
    /\ Fault
    /\ Return(h)
    /\ UNCHANGED <<booking, intent, ledger, rowLock, psp, acked, forced>>

\* The PSP ids are stored, the status is written as PENDING, the QR is shown.
SaveOrder(h) ==
    /\ pc[h] = "chg.save"
    /\ RowsFree
    /\ intent' = "PENDING"
    /\ shown' = shown \cup {seen[h].order}
    /\ Return(h)
    /\ UNCHANGED <<booking, ledger, rowLock, orders, paid, acked, forced, faults>>

SaveOrderFails(h) ==
    /\ pc[h] = "chg.save"
    /\ RowsFree
    /\ Fault
    /\ intent' = "EXPIRED"
    /\ Return(h)
    /\ UNCHANGED <<booking, ledger, rowLock, psp, acked, forced>>

-----------------------------------------------------------------------------
(***************************************************************************)
(* updateStatus by the client or the provider: the app offers the          *)
(* transitions that /meta publishes for the role and the status it reads.  *)
(***************************************************************************)

ClientTransitions ==
    [s \in Statuses |-> IF s \in {"PENDING_PAYMENT", "CONFIRMED"} THEN {"CANCELED"} ELSE {}]
ProviderTransitions ==
    [s \in Statuses |->
        CASE s = "PENDING_PAYMENT" -> {"CONFIRMED", "REJECTED"}
          [] s = "CONFIRMED"       -> {"CANCELED"}
          [] OTHER                 -> {}]

UpdateStatusRead(h) ==
    /\ pc[h] = "idle"
    /\ status \notin Finalized
    /\ \E to \in ClientTransitions[status] \cup ProviderTransitions[status] :
          seen' = [seen EXCEPT ![h].to = to]
    /\ Goto(h, "upd.write")
    /\ UNCHANGED <<booking, intent, ledger, rowLock, psp, acked, forced, faults>>

UpdateStatusWrite(h) ==
    /\ pc[h] = "upd.write"
    /\ RowsFree
    /\ status' = seen[h].to
    /\ Return(h)
    /\ UNCHANGED <<deadline, intent, ledger, rowLock, psp, acked, forced, faults>>

-----------------------------------------------------------------------------
(***************************************************************************)
(* expireDueBookings: findMany of the due bookings, then an update of each *)
(* by id alone.                                                            *)
(***************************************************************************)

ExpireScan(h) ==
    /\ pc[h] = "idle"
    /\ status = "PENDING_PAYMENT" /\ deadline = "past"
    /\ Goto(h, "exp.write")
    /\ UNCHANGED <<booking, intent, ledger, rowLock, psp, acked, forced, seen, faults>>

ExpireWrite(h) ==
    /\ pc[h] = "exp.write"
    /\ RowsFree
    /\ status' = "EXPIRED"
    /\ Return(h)
    /\ UNCHANGED <<deadline, intent, ledger, rowLock, psp, acked, forced, faults>>

-----------------------------------------------------------------------------
(***************************************************************************)
(* The environment: the client pays a QR code it was shown, the deadline   *)
(* passes, a process dies in the middle of a handler (an open transaction  *)
(* is rolled back and the PSP sees no answer).                             *)
(***************************************************************************)

Pay ==
    /\ \E o \in shown \ paid : paid' = paid \cup {o}
    /\ UNCHANGED <<booking, intent, ledger, rowLock, orders, shown, acked,
                   forced, pc, seen, faults>>

DeadlinePasses ==
    /\ deadline = "future"
    /\ deadline' = "past"
    /\ UNCHANGED <<status, intent, ledger, rowLock, psp, acked, forced, pc, seen, faults>>

Crash(h) ==
    /\ pc[h] # "idle"
    /\ Fault
    /\ rowLock' = IF rowLock = h THEN NoHandler ELSE rowLock
    /\ Return(h)
    /\ UNCHANGED <<booking, intent, ledger, psp, acked, forced>>

-----------------------------------------------------------------------------

FinalizeStep(h) ==
    \/ FinalizeReadBooking(h) \/ FinalizeExpire(h) \/ FinalizeBegin(h)
    \/ FinalizeCommit(h) \/ SystemRead(h) \/ SystemWrite(h)

ChargeStep(h) ==
    \/ ChargeReadIntent(h) \/ ClaimRead(h) \/ ClaimWrite(h)
    \/ PostOrder(h) \/ SaveOrder(h)

Begin(h) == Webhook(h) \/ ForceConfirm(h) \/ ChargeReadBooking(h)
            \/ UpdateStatusRead(h) \/ ExpireScan(h)

Fail(h) == FinalizeRollback(h) \/ PostOrderFails(h) \/ SaveOrderFails(h) \/ Crash(h)

Next ==
    \/ \E h \in Handlers :
         \/ Begin(h) \/ FinalizeStep(h) \/ ChargeStep(h)
         \/ UpdateStatusWrite(h) \/ ExpireWrite(h) \/ Fail(h)
    \/ Pay \/ DeadlinePasses

Spec == Init /\ [][Next]_vars

(***************************************************************************)
(* Fairness.  A started handler keeps running (its process is alive until  *)
(* a crash takes it); the PSP redelivers the webhook of a paid order until *)
(* it is answered with 200, so a delivery is not put off for ever; time    *)
(* passes and the cron runs every minute.                                  *)
(***************************************************************************)
Redeliver(h) == \E o \in paid \ acked : FinalizeReadIntent(h, o) /\ UNCHANGED forced

Fairness ==
    /\ \A h \in Handlers :
         /\ WF_vars(FinalizeStep(h)) /\ WF_vars(ChargeStep(h))
         /\ WF_vars(UpdateStatusWrite(h)) /\ WF_vars(ExpireWrite(h))
    /\ SF_vars(\E h \in Handlers : Redeliver(h))
    /\ SF_vars(\E h \in Handlers : ExpireScan(h))
    /\ WF_vars(DeadlinePasses)

FairSpec == Spec /\ Fairness
-----------------------------------------------------------------------------
(***************************************************************************)
(* Properties.                                                             *)
(***************************************************************************)

\* Every variable keeps its domain: statuses are those of the schema's enums
\* and a handler is always at one of the steps above.
TypeOK ==
    /\ status \in Statuses
    /\ deadline \in {"none", "future", "past"}
    /\ intent \in IntentStatuses
    /\ ledger \in [hold : Nat, fee : Nat]
    /\ rowLock \in Handlers \cup {NoHandler}
    /\ orders \in Nat
    /\ shown \subseteq Nat /\ paid \subseteq Nat /\ acked \subseteq Nat
    /\ forced \in BOOLEAN
    /\ pc \in [Handlers -> Steps]
    /\ seen \in [Handlers -> [order : Nat, intent : IntentStatuses,
                              hold : BOOLEAN, to : Statuses]]
    /\ faults \in Nat

\* However many deliveries of the PSP's webhook, forced confirmations and
\* orders of the same booking run at once, the provider is credited with one
\* HOLD and charged one FEE (finalizePixPayment's existingHold check).
LedgerOnce == ledger.hold <= 1 /\ ledger.fee = ledger.hold

\* A payment intent that says PAID has its money on the ledger: the status and
\* the entries are written by one transaction or not at all.
PaidIsHeld == intent = "PAID" => ledger.hold = 1

\* Nobody is credited for money that did not come in: a HOLD exists only if
\* the client has paid an order of the booking or an administrator forced it.
HoldIsBacked == ledger.hold > 0 => paid # {} \/ forced

\* The client is charged at most once for a booking.
OnePaidOrder == Cardinality(paid) <= 1

\* A booking whose client has paid does not wait for payment for ever with
\* nothing on the ledger: the money is held or the booking leaves
\* PENDING_PAYMENT.
PaidOrderSettled == (paid # {}) ~> (ledger.hold = 1 \/ status # "PENDING_PAYMENT")

\* Once the payment is recorded the booking leaves PENDING_PAYMENT.
PaidThenConfirmed == (intent = "PAID") ~> (status # "PENDING_PAYMENT")

\* Webhooks, forced confirmations, charges, status changes and the cron together do
\* with the money of a booking what the abstract escrow does: the statements of each
\* finalization are one step, and no other handler enters or takes back anything.
Hold == INSTANCE Escrow
            WITH answered <- paid # {} \/ forced,
                 entries  <- ledger,
                 recorded <- intent = "PAID"

ImplementsEscrow == Hold!Spec
=============================================================================
