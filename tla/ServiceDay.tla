------------------------------ MODULE ServiceDay ------------------------------
(***************************************************************************)
(* One booking from its confirmation to its end.  The provider goes there, *)
(* arrives, starts and completes; clients, providers and administrators    *)
(* change the status by hand or report a problem; a cron completes what is *)
(* overdue; a dispute is opened (createDispute), decided                   *)
(* (updateDisputeStatus), or settled on the booking (resolveDispute), with *)
(* entries in the provider's ledger.  Everybody reads the booking, awaits, *)
(* and writes it by id; the transactions of DisputeService write it        *)
(* through updateStatus, on another connection, so at once.                *)
(***************************************************************************)
EXTENDS Integers, BookingStatus

CONSTANTS
    Handlers,       \* requests and cron jobs in flight together
    Price,          \* Booking.totalPrice
    Refunds,        \* what an administrator may refund
    MaxDecisions,   \* bound: calls of updateDisputeStatus and resolveDispute
    MaxFaults       \* bound: crashes and aborted transactions

ASSUME MoneyAssumption  == Price \in Nat \ {0} /\ Refunds \subseteq Nat
ASSUME BoundsAssumption == MaxDecisions \in Nat /\ MaxFaults \in Nat

ActiveDisputes  == {"PENDING", "IN_REVIEW"}
DisputeStatuses == ActiveDisputes \cup {"RESOLVED", "REJECTED"}
Moments         == {"early", "window", "over"}

VARIABLES
    status,     \* Booking.status
    paid,       \* PaymentIntent.status = PAID, with its HOLD and its FEE entry
    clock,      \* before the start window, in it, after the expected end
    dispute,    \* Dispute.status, "NONE" without a row
    proposed,   \* Dispute.refundAmountProposed, at most the price
    held,       \* the dispute's HOLD entries, as a positive amount
    released,   \* sum of the RELEASE entries
    refunded,   \* sum of the REFUND entries
    earnings,   \* number of EARNING entries
    fees,       \* number of FEE entries
    pc, goal, amount, found,    \* what each handler does next, with what it has read
    decisions, faults,
    overlapped  \* two calls of resolveDispute have been in flight together

booking  == <<status, paid, clock>>
row      == <<dispute, proposed>>
credits  == <<earnings, fees>>
ledger   == <<held, released, refunded, earnings, fees>>
locals   == <<pc, goal, amount, found>>
budget   == <<decisions, faults, overlapped>>
vars     == <<booking, row, ledger, locals, budget>>

Creating  == {"markRead", "mark", "commit"}
Deciding  == {"finishRead", "finish", "decided"}
Resolving == {"resolve", "credit"}
Steps     == {"idle", "start", "write", "cron", "insert", "decide"}
                \cup Creating \cup Deciding \cup Resolving

Goto(h, step) == pc' = [pc EXCEPT ![h] = step]
Aim(h, to, n) == goal' = [goal EXCEPT ![h] = to] /\ amount' = [amount EXCEPT ![h] = n]
Fault         == faults < MaxFaults /\ faults' = faults + 1

NothingFound == [earning |-> 0, fee |-> 0]

Return(h) ==
    /\ Goto(h, "idle")
    /\ Aim(h, "NONE", 0)
    /\ found' = [found EXCEPT ![h] = NothingFound]

Init ==
    /\ status = "CONFIRMED" /\ paid \in BOOLEAN /\ clock = "early"
    /\ dispute = "NONE" /\ proposed = 0
    /\ held = 0 /\ released = 0 /\ refunded = 0
    /\ earnings = 0 /\ fees = IF paid THEN 1 ELSE 0
    /\ pc = [h \in Handlers |-> "idle"]
    /\ goal = [h \in Handlers |-> "NONE"] /\ amount = [h \in Handlers |-> 0]
    /\ found = [h \in Handlers |-> NothingFound]
    /\ decisions = 0 /\ faults = 0 /\ overlapped = FALSE

TimePasses ==
    /\ clock' = CASE clock = "early" -> "window" [] OTHER -> "over"
    /\ clock # "over"
    /\ UNCHANGED <<status, paid, row, ledger, locals, budget>>
-----------------------------------------------------------------------------
(***************************************************************************)
(* The provider's own steps, updateStatus (also called by reportIssue and  *)
(* reportDispute), and the cron.                                           *)
(***************************************************************************)

Following ==
    [CONFIRMED |-> "ON_THE_WAY", ON_THE_WAY |-> "ARRIVED",
     ARRIVED |-> "STARTED", STARTED |-> "FINISHED"]

\* onTheWayService, arriveAtLocation, startService, completeService.
ProviderRead(h) ==
    /\ pc[h] = "idle"
    /\ status \in DOMAIN Following
    /\ status \in {"ARRIVED", "STARTED"} => paid
    /\ status = "STARTED" => clock = "over"
    /\ Aim(h, Following[status], 0)
    /\ Goto(h, IF status = "ARRIVED" THEN "start" ELSE "write")
    /\ UNCHANGED <<booking, row, ledger, found, budget>>

\* startService looks at the time after it has notified the client.
StartCheck(h) ==
    /\ pc[h] = "start"
    /\ IF clock = "window" THEN Goto(h, "write") /\ UNCHANGED <<goal, amount, found>>
                           ELSE Return(h)
    /\ UNCHANGED <<booking, row, ledger, budget>>

\* updateStatus refuses to leave a final status; the apps offer the table.
UpdateRead(h) ==
    /\ pc[h] = "idle"
    /\ status \notin FinalizedStates
    /\ \E to \in Transitions[status] : Aim(h, to, 0)
    /\ Goto(h, "write")
    /\ UNCHANGED <<booking, row, ledger, found, budget>>

\* changeBookingStatus and updateStatus write by id.
Write(h) ==
    /\ pc[h] = "write"
    /\ status' = goal[h]
    /\ Return(h)
    /\ UNCHANGED <<paid, clock, row, ledger, budget>>

DueInWindow == status = "STARTED" /\ paid /\ clock = "window"
Due         == status = "STARTED" /\ paid /\ clock = "over"

\* autoCompleteOverdueBookings: finds the bookings, then writes one after the other.
CronRead(h) ==
    /\ pc[h] = "idle"
    /\ Due
    /\ Goto(h, "cron")
    /\ UNCHANGED <<booking, row, ledger, goal, amount, found, budget>>

CronWrite(h) ==
    /\ pc[h] = "cron"
    /\ status' = "FINISHED"
    /\ Return(h)
    /\ UNCHANGED <<paid, clock, row, ledger, budget>>
-----------------------------------------------------------------------------
(***************************************************************************)
(* createDispute.  Dispute.bookingId is unique: an insert waits for an     *)
(* open one of the same booking and fails if that one commits.             *)
(***************************************************************************)

CreateStart(h) ==
    /\ pc[h] = "idle"
    /\ dispute \notin ActiveDisputes
    /\ \E n \in 1..Price : Aim(h, "NONE", n)
    /\ Goto(h, "insert")
    /\ UNCHANGED <<booking, row, ledger, found, budget>>

NotUnique(h)   == TRUE
UniqueFree(h)  == \A g \in Handlers \ {h} : pc[g] \notin Creating

CreateInsert(h) ==
    /\ pc[h] = "insert"
    /\ UniqueFree(h)
    /\ IF dispute = "NONE" THEN Goto(h, "markRead") /\ UNCHANGED <<goal, amount, found>>
                           ELSE Return(h)
    /\ UNCHANGED <<booking, row, ledger, budget>>

\* updateStatus(PENDING_DISPUTE, ADMIN), outside the open transaction.
CreateMarkRead(h) ==
    /\ pc[h] = "markRead"
    /\ Goto(h, IF status = "PENDING_DISPUTE" THEN "commit" ELSE "mark")
    /\ UNCHANGED <<booking, row, ledger, goal, amount, found, budget>>

CreateMark(h) ==
    /\ pc[h] = "mark"
    /\ status' = "PENDING_DISPUTE"
    /\ Goto(h, "commit")
    /\ UNCHANGED <<paid, clock, row, ledger, goal, amount, found, budget>>

\* The dispute and its HOLD appear together.
CreateCommit(h) ==
    /\ pc[h] = "commit"
    /\ dispute' = "PENDING" /\ proposed' = amount[h]
    /\ held' = held + amount[h]
    /\ Return(h)
    /\ UNCHANGED <<booking, released, refunded, credits, budget>>

\* The ledger entry or the administrators' notification fails, or time runs out.
CreateAbort(h) ==
    /\ pc[h] \in Creating
    /\ Fault
    /\ Return(h)
    /\ UNCHANGED <<booking, row, ledger, decisions, overlapped>>
-----------------------------------------------------------------------------
(***************************************************************************)
(* updateDisputeStatus: whatever the dispute was before.                   *)
(***************************************************************************)

PaymentHold == IF paid THEN Price ELSE 0

SumOfHolds == PaymentHold - held

\* |sum of the HOLD entries of the booking|, the positive one of its payment included.
Release == IF PaymentHold >= held THEN PaymentHold - held ELSE held - PaymentHold

DecideStart(h) ==
    /\ pc[h] = "idle"
    /\ dispute # "NONE"
    /\ decisions < MaxDecisions /\ decisions' = decisions + 1
    /\ \E to \in DisputeStatuses, n \in Refunds : Aim(h, to, n)
    /\ Goto(h, "decide")
    /\ UNCHANGED <<booking, row, ledger, found, faults, overlapped>>

\* The transaction begins with dispute.update, which locks the row.
DecideUpdate(h) ==
    /\ pc[h] = "decide"
    /\ \A g \in Handlers \ {h} : pc[g] \notin Deciding
    /\ Goto(h, IF goal[h] = "RESOLVED" THEN "finishRead" ELSE "decided")
    /\ UNCHANGED <<booking, row, ledger, goal, amount, found, budget>>

\* updateStatus(FINISHED, ADMIN), outside the open transaction.
FinishRead(h) ==
    /\ pc[h] = "finishRead"
    /\ Goto(h, IF status = "FINISHED" THEN "decided" ELSE "finish")
    /\ UNCHANGED <<booking, row, ledger, goal, amount, found, budget>>

Finish(h) ==
    /\ pc[h] = "finish"
    /\ status' = "FINISHED"
    /\ Goto(h, "decided")
    /\ UNCHANGED <<paid, clock, row, ledger, goal, amount, found, budget>>

DecideCommit(h) ==
    /\ pc[h] = "decided"
    /\ dispute'  = goal[h]
    /\ released' = released + Release
    /\ refunded' = refunded + IF goal[h] = "RESOLVED" THEN amount[h] ELSE 0
    /\ Return(h)
    /\ UNCHANGED <<booking, proposed, held, credits, budget>>

DecideAbort(h) ==
    /\ pc[h] \in Deciding
    /\ Fault
    /\ Return(h)
    /\ UNCHANGED <<booking, row, ledger, decisions, overlapped>>
-----------------------------------------------------------------------------
(***************************************************************************)
(* resolveDispute of BookingsService: one transaction that refunds,        *)
(* credits the provider and writes the booking by id.                      *)
(***************************************************************************)

ResolveStart(h) ==
    /\ pc[h] = "idle"
    /\ status = "PENDING_DISPUTE"
    /\ decisions < MaxDecisions /\ decisions' = decisions + 1
    /\ \E to \in Transitions[status], n \in Refunds : Aim(h, to, n)
    /\ Goto(h, "resolve")
    /\ overlapped' = (overlapped \/ \E g \in Handlers : pc[g] \in Resolving)
    /\ UNCHANGED <<booking, row, ledger, found, faults>>

LooksAtNothing == NothingFound
EntriesSeen    == [earning |-> earnings, fee |-> fees]

ResolveLook(h) ==
    /\ pc[h] = "resolve"
    /\ found' = [found EXCEPT ![h] = EntriesSeen]
    /\ Goto(h, "credit")
    /\ UNCHANGED <<booking, row, ledger, goal, amount, budget>>

ResolveCommit(h) ==
    /\ pc[h] = "credit"
    /\ status'   = goal[h]
    /\ refunded' = refunded + amount[h]
    /\ IF goal[h] = "FINISHED"
         THEN /\ earnings' = IF found[h].earning = 0 THEN earnings + 1 ELSE earnings
              /\ fees'     = IF found[h].fee = 0 THEN fees + 1 ELSE fees
         ELSE UNCHANGED credits
    /\ Return(h)
    /\ UNCHANGED <<paid, clock, row, held, released, budget>>

ResolveAbort(h) ==
    /\ pc[h] \in Resolving
    /\ Fault
    /\ Return(h)
    /\ UNCHANGED <<booking, row, ledger, decisions, overlapped>>
-----------------------------------------------------------------------------

\* A process dies between two statements.
Crash(h) ==
    /\ pc[h] # "idle"
    /\ Fault
    /\ Return(h)
    /\ UNCHANGED <<booking, row, ledger, decisions, overlapped>>

StatusChange(h) ==
    ProviderRead(h) \/ StartCheck(h) \/ UpdateRead(h) \/ Write(h) \/ CronRead(h) \/ CronWrite(h)

CreateDispute(h) ==
    \/ CreateStart(h) \/ CreateInsert(h) \/ CreateMarkRead(h) \/ CreateMark(h)
    \/ CreateCommit(h) \/ CreateAbort(h)

UpdateDispute(h) ==
    \/ DecideStart(h) \/ DecideUpdate(h) \/ FinishRead(h) \/ Finish(h)
    \/ DecideCommit(h) \/ DecideAbort(h)

ResolveDispute(h) ==
    ResolveStart(h) \/ ResolveLook(h) \/ ResolveCommit(h) \/ ResolveAbort(h)

Next ==
    \/ TimePasses
    \/ \E h \in Handlers :
          StatusChange(h) \/ CreateDispute(h) \/ UpdateDispute(h) \/ ResolveDispute(h) \/ Crash(h)

Spec == Init /\ [][Next]_vars

\* A handler that has started goes on; the cron fires every minute.
Proceed(h) ==
    \/ StartCheck(h) \/ Write(h) \/ CronWrite(h)
    \/ CreateInsert(h) \/ CreateMarkRead(h) \/ CreateMark(h) \/ CreateCommit(h)
    \/ DecideUpdate(h) \/ FinishRead(h) \/ Finish(h) \/ DecideCommit(h)
    \/ ResolveLook(h) \/ ResolveCommit(h)

Fairness == \A h \in Handlers : WF_vars(Proceed(h)) /\ SF_vars(CronRead(h))
FairSpec == Spec /\ Fairness
-----------------------------------------------------------------------------
(***************************************************************************)
(* Properties.                                                             *)
(***************************************************************************)

\* Every variable keeps its domain.
TypeOK ==
    /\ status \in Statuses /\ paid \in BOOLEAN /\ clock \in Moments
    /\ dispute \in DisputeStatuses \cup {"NONE"}
    /\ proposed \in Nat /\ held \in Nat /\ released \in Nat /\ refunded \in Nat
    /\ earnings \in Nat /\ fees \in Nat
    /\ pc \in [Handlers -> Steps]
    /\ goal \in [Handlers -> Statuses \cup DisputeStatuses \cup {"NONE"}]
    /\ amount \in [Handlers -> Nat]
    /\ found \in [Handlers -> [earning : Nat, fee : Nat]]
    /\ decisions \in Nat /\ faults \in Nat /\ overlapped \in BOOLEAN

\* A dispute holds back what it proposes, once, and nothing is held back without a
\* dispute: whoever else opens one at the same time, and whatever fails.
HeldWithDispute == held = IF dispute = "NONE" THEN 0 ELSE proposed

\* However often a booking is disputed, completed and disputed again, the provider is
\* credited once and charged one fee, as long as no two calls of resolveDispute overlap.
CreditedOnce == ~overlapped => earnings <= 1 /\ fees <= 1

\* A paid booking that is still STARTED after its expected end does not stay so.
OverdueLeavesStarted ==
    status = "STARTED" /\ paid /\ clock = "over" ~> status # "STARTED"

\* The cron turns no refunded booking that has another status into a completed
\* one: autoCompleteOverdueBookings is to leave refunded bookings alone.
RefundedNotCompleted ==
    [][\A h \in Handlers : CronWrite(h) /\ status' # status => refunded = 0]_vars
=============================================================================
