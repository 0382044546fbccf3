--------------------------------- MODULE Coupons ---------------------------------
(***************************************************************************)
(* One coupon for new clients, from the booking that uses it to the        *)
(* service that consumes it: CouponsService, and the statements of         *)
(* BookingsService that create a booking and complete it.  The coupon is   *)
(* checked before the transaction that writes its CouponUsage, and counted *)
(* only when a service is completed.                                       *)
(***************************************************************************)
EXTENDS Integers, FiniteSets

CONSTANTS
    Buyers,         \* clients that try the coupon
    Deals,          \* bound: bookings
    MaxUses         \* Coupon.maxUses

ASSUME CouponsAssumption == MaxUses \in Nat \ {0} /\ Buyers # {} /\ IsFiniteSet(Deals)

VARIABLES
    couponStatus,   \* Coupon.status
    uses,           \* Coupon.usesCount
    deal,           \* status of each booking, "none" where there is none
    buyer,          \* its client
    usage,          \* bookings with a CouponUsage, hence a discount
    finishing,      \* what completeService does next on each booking
    served,         \* clients with completedBookingsCount > 0
    pressed,        \* two requests of one client, or two completions of one booking, overlapped
    unfinished      \* a completion died before it counted the coupon

couponVars == <<couponStatus, uses, deal, buyer, usage, finishing, served, pressed, unfinished>>

CouponsInit ==
    /\ couponStatus = "ACTIVE" /\ uses = 0
    /\ deal = [d \in Deals |-> "none"] /\ buyer = [d \in Deals |-> CHOOSE b \in Buyers : TRUE]
    /\ usage = {} /\ finishing = [d \in Deals |-> "no"] /\ served = {}
    /\ pressed = FALSE /\ unfinished = FALSE
-----------------------------------------------------------------------------
(***************************************************************************)
(* applyCoupon, called by the quote of a booking; a coupon that does not   *)
(* apply gives a booking without a discount, which is not of interest.     *)
(***************************************************************************)

NeverAsked(b)    == TRUE
NotYetUsedBy(b)  == ~ \E d \in usage : buyer[d] = b

Applies(b) ==
    /\ couponStatus = "ACTIVE" /\ uses < MaxUses
    /\ NotYetUsedBy(b)
    /\ b \notin served

Quote(d, b) ==
    /\ deal[d] = "none" /\ Applies(b)
    /\ deal' = [deal EXCEPT ![d] = "quoted"] /\ buyer' = [buyer EXCEPT ![d] = b]
    /\ pressed' = (pressed \/ \E e \in Deals : deal[e] = "quoted" /\ buyer[e] = b)
    /\ UNCHANGED <<couponStatus, uses, usage, finishing, served, unfinished>>

\* The transaction of create: booking and CouponUsage, or (conflict, price, abort) neither.
Book(d) ==
    /\ deal[d] = "quoted"
    /\ \/ deal' = [deal EXCEPT ![d] = "booked"] /\ usage' = usage \cup {d}
       \/ deal' = [deal EXCEPT ![d] = "refused"] /\ UNCHANGED usage
    /\ UNCHANGED <<couponStatus, uses, buyer, finishing, served, pressed, unfinished>>

\* Expiry, cancellation: the usage stays.
LosesBooking(d) ==
    /\ deal[d] = "booked" /\ deal' = [deal EXCEPT ![d] = "ended"]
    /\ UNCHANGED <<couponStatus, uses, buyer, usage, finishing, served, pressed, unfinished>>

\* updateStatus counts the client's services and not the coupon, the cron neither.
FinishedByOthers(d) ==
    /\ deal[d] = "booked" /\ deal' = [deal EXCEPT ![d] = "finished"]
    /\ \/ served' = served \cup {buyer[d]}
       \/ UNCHANGED served
    /\ UNCHANGED <<couponStatus, uses, buyer, usage, finishing, pressed, unfinished>>
-----------------------------------------------------------------------------
(***************************************************************************)
(* completeService: status read, status written by id, markCouponAsUsed    *)
(* with its two updates.  It may overlap with FinishedByOthers; a second   *)
(* call that has read STARTED as well is "twice".                          *)
(***************************************************************************)

CompletesAgain(d) == deal[d] \in {"booked", "finished"} /\ finishing[d] \in {"no", "done"}
MayComplete(d)  == deal[d] = "booked" /\ finishing[d] = "no"

CompleteRead(d) ==
    /\ MayComplete(d)
    /\ \/ finishing' = [finishing EXCEPT ![d] = "write"] /\ UNCHANGED pressed
       \/ finishing' = [finishing EXCEPT ![d] = "twice"] /\ pressed' = TRUE
    /\ UNCHANGED <<couponStatus, uses, deal, buyer, usage, served, unfinished>>

CompleteWrite(d) ==
    /\ finishing[d] \in {"write", "twice"}
    /\ deal' = [deal EXCEPT ![d] = "finished"]
    /\ finishing' = [finishing EXCEPT ![d] = IF @ = "twice" THEN "count twice" ELSE "count"]
    /\ UNCHANGED <<couponStatus, uses, buyer, usage, served, pressed, unfinished>>

Again(d) == IF finishing[d] = "count twice" THEN "count" ELSE "close"

CountUse(d) ==
    /\ finishing[d] \in {"count", "count twice"}
    /\ uses' = uses + 1
    /\ finishing' = [finishing EXCEPT ![d] = Again(d)]
    /\ UNCHANGED <<couponStatus, deal, buyer, usage, served, pressed, unfinished>>

IsFull == uses >= MaxUses

CloseCoupon(d) ==
    /\ finishing[d] = "close"
    /\ couponStatus' = IF IsFull THEN "USED_UP" ELSE couponStatus
    /\ finishing' = [finishing EXCEPT ![d] = "done"]
    /\ UNCHANGED <<uses, deal, buyer, usage, served, pressed, unfinished>>

CompletionDies(d) ==
    /\ finishing[d] \in {"count", "count twice", "close"}
    /\ finishing' = [finishing EXCEPT ![d] = "done"] /\ unfinished' = TRUE
    /\ UNCHANGED <<couponStatus, uses, deal, buyer, usage, served, pressed>>
-----------------------------------------------------------------------------
CouponsNext ==
    \E d \in Deals :
        \/ Book(d) \/ LosesBooking(d) \/ FinishedByOthers(d) \/ CompleteRead(d)
        \/ CompleteWrite(d) \/ CountUse(d) \/ CloseCoupon(d) \/ CompletionDies(d)
        \/ \E b \in Buyers : Quote(d, b)

CouponsSpec == CouponsInit /\ [][CouponsNext]_couponVars
-----------------------------------------------------------------------------
\* Every variable keeps its domain.
CouponsTypeOK ==
    /\ couponStatus \in {"ACTIVE", "USED_UP"} /\ uses \in Nat
    /\ deal \in [Deals -> {"none", "quoted", "refused", "booked", "ended", "finished"}]
    /\ buyer \in [Deals -> Buyers] /\ usage \subseteq Deals
    /\ finishing \in [Deals -> {"no", "write", "twice", "count", "count twice", "close", "done"}]
    /\ served \subseteq Buyers /\ pressed \in BOOLEAN /\ unfinished \in BOOLEAN

\* A client gets the discount of the coupon once, unless two of its requests, or two
\* completions, overlap.
DiscountOnce ==
    ~pressed => \A d, e \in usage : d # e => buyer[d] # buyer[e]

\* The coupon is counted for services that were booked with it, once for each, and one
\* that has been counted as often as it may be is closed, or about to be, unless a
\* completion died on the way.
UsesAreServices ==
    /\ ~pressed => uses <= Cardinality({d \in usage : deal[d] = "finished"})
    /\ uses >= MaxUses => couponStatus = "USED_UP" \/ unfinished
                          \/ \E d \in Deals : finishing[d] \in {"count", "close"}
=============================================================================
