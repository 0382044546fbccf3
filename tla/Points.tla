--------------------------------- MODULE Points ---------------------------------
(***************************************************************************)
(* The loyalty points of one user: LoyaltyService.  A balance and a ledger *)
(* are written together by addPoints and by the nightly expiration, and by *)
(* separate statements of redeemPoints, which has no transaction.  Calls   *)
(* overlap; the ledger has one row for each user, type and reference.      *)
(***************************************************************************)
EXTENDS Integers, FiniteSets

CONSTANTS
    Calls,          \* calls of the service in flight together
    Services,       \* bookings that earn points, under a daily limit
    MissionIds,     \* missions that earn points, under none
    Worth,          \* points of one earning
    DailyLimit,     \* DAILY_LIMITS of the type
    Prizes,         \* rewards of the catalogue
    Cost,           \* costPoints of each
    MaxBreaks       \* bound: calls that break off

ASSUME PointsAssumption ==
    /\ Services \cap MissionIds = {} /\ IsFiniteSet(Services) /\ IsFiniteSet(MissionIds)
    /\ IsFiniteSet(Prizes) /\ IsFiniteSet(Calls)
    /\ Worth \in Nat \ {0} /\ DailyLimit \in Nat /\ Cost \in Nat \ {0} /\ MaxBreaks \in Nat

Earnings == Services \cup MissionIds

VARIABLES
    balance,        \* Loyalty.currentPoints
    credited,       \* earnings with an entry in LoyaltyTransaction
    redeemed,       \* prizes with an entry REDEEM
    expired,        \* earnings with an entry expire:<id>
    today, old,     \* entries of this day, entries of 180 days and more
    vouchers,       \* coupons issued for each prize
    call,           \* what each call does next, and on what
    unrecorded,     \* redemptions that were debited and never entered
    crowded,        \* two calls read before either of them wrote
    breaks

entries   == <<credited, redeemed, expired>>
pointVars == <<balance, credited, redeemed, expired, today, old, vouchers, call, unrecorded,
               crowded, breaks>>

Idle      == [do |-> "idle", on |-> "nothing"]
PointSteps == {"idle", "credit", "coupon", "debit", "enter", "expire"}
Goes(c, step, x) == call' = [call EXCEPT ![c] = [do |-> step, on |-> x]]
Forgets(c) == call' = [x \in Calls \ {c} |-> call[x]]
Ends(c)   == call' = [call EXCEPT ![c] = Idle]
Writing   == {"credit", "coupon", "debit"}
Crowds    == crowded' = (crowded \/ \E c \in Calls : call[c].do \in Writing)

PointsInit ==
    /\ balance = 0 /\ credited = {} /\ redeemed = {} /\ expired = {} /\ today = {} /\ old = {}
    /\ vouchers = [w \in Prizes |-> 0] /\ call = [c \in Calls |-> Idle]
    /\ unrecorded = 0 /\ crowded = FALSE /\ breaks = 0
-----------------------------------------------------------------------------
(***************************************************************************)
(* addPoints: one transaction, READ COMMITTED, so what it looked up may    *)
(* have changed when it commits.                                           *)
(***************************************************************************)

WithinLimit(k) == k \in Services => Worth * (Cardinality(today \cap Services) + 1) <= DailyLimit

AddLookUp(c, k) ==
    /\ call[c] = Idle
    /\ WithinLimit(k) /\ k \notin credited
    /\ Goes(c, "credit", k) /\ Crowds
    /\ UNCHANGED <<balance, entries, today, old, vouchers, unrecorded, breaks>>

\* The upsert of the balance and the entry, or none of them.
Credit(k) ==
    /\ balance' = balance + Worth
    /\ credited' = credited \cup {k} /\ today' = today \cup {k}

NoCredit == UNCHANGED <<balance, credited, today>>

AddCommit(c) ==
    /\ call[c].do = "credit"
    /\ \/ call[c].on \notin credited /\ Credit(call[c].on)
       \/ call[c].on \in credited /\ NoCredit
    /\ Ends(c)
    /\ UNCHANGED <<redeemed, expired, old, vouchers, unrecorded, crowded, breaks>>
-----------------------------------------------------------------------------
(***************************************************************************)
(* redeemPoints: five statements of their own.                             *)
(***************************************************************************)

Anything  == TRUE
Affords   == balance >= Cost

RedeemLookUp(c, w) ==
    /\ call[c] = Idle /\ Affords
    /\ Goes(c, "coupon", w) /\ Crowds
    /\ UNCHANGED <<balance, entries, today, old, vouchers, unrecorded, breaks>>

IssueVoucher(c) ==
    /\ call[c].do = "coupon"
    /\ vouchers' = [vouchers EXCEPT ![call[c].on] = @ + 1]
    /\ Goes(c, "debit", call[c].on)
    /\ UNCHANGED <<balance, entries, today, old, unrecorded, crowded, breaks>>

Debit(c) ==
    /\ call[c].do = "debit"
    /\ balance' = balance - Cost
    /\ Goes(c, "enter", call[c].on)
    /\ UNCHANGED <<entries, today, old, vouchers, unrecorded, crowded, breaks>>

\* The second redemption of one prize meets the unique key: it fails here, after
\* its coupon and its debit.
EnterRedemption(c) ==
    /\ call[c].do = "enter"
    /\ IF call[c].on \in redeemed
         THEN unrecorded' = unrecorded + 1 /\ UNCHANGED redeemed
         ELSE redeemed' = redeemed \cup {call[c].on} /\ UNCHANGED unrecorded
    /\ Ends(c)
    /\ UNCHANGED <<balance, credited, expired, today, old, vouchers, crowded, breaks>>
-----------------------------------------------------------------------------
(***************************************************************************)
(* handlePointsExpiration, in every process at midnight: each old entry    *)
(* that has no expire:<id> is taken back, whether it was spent or not.     *)
(***************************************************************************)

Expirable == (credited \cap old) \ expired

ExpireLookUp(c, k) ==
    /\ call[c] = Idle /\ k \in Expirable
    /\ Goes(c, "expire", k)
    /\ UNCHANGED <<balance, entries, today, old, vouchers, unrecorded, crowded, breaks>>

ExpiresAgain(k) == TRUE
Unexpired(k)   == k \notin expired

ExpireCommit(c) ==
    /\ call[c].do = "expire"
    /\ IF Unexpired(call[c].on)
         THEN balance' = balance - Worth /\ expired' = expired \cup {call[c].on}
         ELSE UNCHANGED <<balance, expired>>
    /\ Ends(c)
    /\ UNCHANGED <<credited, redeemed, today, old, vouchers, unrecorded, crowded, breaks>>
-----------------------------------------------------------------------------
DayEnds ==
    /\ today # {} /\ today' = {}
    /\ UNCHANGED <<balance, entries, old, vouchers, call, unrecorded, crowded, breaks>>

GrowsOld(k) ==
    /\ k \in (credited \ today) \ old /\ old' = old \cup {k}
    /\ UNCHANGED <<balance, entries, today, vouchers, call, unrecorded, crowded, breaks>>

\* The process dies or the database refuses: a transaction leaves nothing, a
\* redemption leaves what it has written.
BreaksOff(c) ==
    /\ call[c] # Idle
    /\ breaks < MaxBreaks /\ breaks' = breaks + 1
    /\ unrecorded' = unrecorded + (IF call[c].do = "enter" THEN 1 ELSE 0)
    /\ Ends(c)
    /\ UNCHANGED <<balance, entries, today, old, vouchers, crowded>>
-----------------------------------------------------------------------------
Redeem(c) == IssueVoucher(c) \/ Debit(c) \/ EnterRedemption(c)

PointsNext ==
    \/ \E c \in Calls :
          \/ AddCommit(c) \/ Redeem(c) \/ ExpireCommit(c) \/ BreaksOff(c)
          \/ \E k \in Services : AddLookUp(c, k)
          \/ \E k \in Earnings : ExpireLookUp(c, k)
          \/ \E w \in Prizes : RedeemLookUp(c, w)
    \/ DayEnds \/ \E k \in Earnings : GrowsOld(k)

PointsSpec == PointsInit /\ [][PointsNext]_pointVars
-----------------------------------------------------------------------------
\* Every variable keeps its domain.
PointsTypeOK ==
    /\ balance \in Int /\ credited \subseteq Earnings /\ redeemed \subseteq Prizes
    /\ expired \subseteq Earnings /\ today \subseteq Earnings /\ old \subseteq Earnings
    /\ vouchers \in [Prizes -> Nat] /\ unrecorded \in Nat /\ breaks \in Nat
    /\ crowded \in BOOLEAN
    /\ call \in [Calls -> [do : PointSteps, on : Earnings \cup Prizes \cup {"nothing"}]]

\* The balance is what the ledger says, less the redemptions that were debited and
\* not entered: those about to be, those broken off and those entered before.
Debited == {c \in Calls : call[c].do = "enter"}

BalanceIsLedger ==
    balance = Worth * (Cardinality(credited) - Cardinality(expired))
              - Cost * (Cardinality(redeemed) + unrecorded + Cardinality(Debited))

\* While no two calls read before either writes, the user does not earn more than the
\* daily limit and, as long as nothing expires, does not spend more than the balance.
WithinMeans ==
    ~crowded => /\ Worth * Cardinality(today \cap Services) <= DailyLimit
                /\ expired = {} => balance >= 0
=============================================================================
