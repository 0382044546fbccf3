-------------------------------- MODULE Referrals --------------------------------
(***************************************************************************)
(* The invitations of one user: ReferralsService.createReferral looks at   *)
(* the limit, looks for the same invitation, inserts it, and gives the     *)
(* friend a coupon, whose failure is only logged.  Calls overlap.          *)
(***************************************************************************)
EXTENDS Integers, FiniteSets

CONSTANTS
    Friends,        \* users that are invited
    InviteLimit,    \* invitations of one user in 30 days
    Invitations     \* calls of createReferral in flight together

ASSUME ReferralsAssumption == InviteLimit \in Nat

VARIABLES
    referrals,      \* rows of Referral, by referredUserId (unique)
    gifts,          \* coupons issued for each of them
    invite,         \* what each call of createReferral does next
    abreast         \* two calls counted before either inserted

referralVars == <<referrals, gifts, invite, abreast>>

Inviting == [do : {"idle", "check", "insert", "gift"}, friend : Friends \cup {"nobody"}]
NoInvite == [do |-> "idle", friend |-> "nobody"]

ReferralsInit ==
    /\ referrals = {} /\ gifts = [f \in Friends |-> 0] /\ invite = [i \in Invitations |-> NoInvite]
    /\ abreast = FALSE
-----------------------------------------------------------------------------
BelowLimit == Cardinality(referrals) < InviteLimit

Invite(i, f) ==
    /\ invite[i] = NoInvite /\ BelowLimit
    /\ invite' = [invite EXCEPT ![i] = [do |-> "check", friend |-> f]]
    /\ abreast' = (abreast \/ \E j \in Invitations : invite[j].do \in {"check", "insert"})
    /\ UNCHANGED <<referrals, gifts>>

CheckInvited(i) ==
    /\ invite[i].do = "check"
    /\ invite' = [invite EXCEPT ![i] =
                    IF @.friend \in referrals THEN NoInvite ELSE [@ EXCEPT !.do = "insert"]]
    /\ UNCHANGED <<referrals, gifts, abreast>>

InsertsTwice(f) == TRUE
InsertsOnce(f)  == f \notin referrals

InsertReferral(i) ==
    /\ invite[i].do = "insert"
    /\ IF InsertsOnce(invite[i].friend)
         THEN /\ referrals' = referrals \cup {invite[i].friend}
              /\ invite' = [invite EXCEPT ![i].do = "gift"]
         ELSE invite' = [invite EXCEPT ![i] = NoInvite] /\ UNCHANGED referrals
    /\ UNCHANGED <<gifts, abreast>>

GiveCoupon(i) ==
    /\ invite[i].do = "gift"
    /\ \/ gifts' = [gifts EXCEPT ![invite[i].friend] = @ + 1]
       \/ UNCHANGED gifts
    /\ invite' = [invite EXCEPT ![i] = NoInvite]
    /\ UNCHANGED <<referrals, abreast>>
-----------------------------------------------------------------------------
ReferralsNext ==
    \E i \in Invitations :
        \/ CheckInvited(i) \/ InsertReferral(i) \/ GiveCoupon(i)
        \/ \E f \in Friends : Invite(i, f)

ReferralsSpec == ReferralsInit /\ [][ReferralsNext]_referralVars
-----------------------------------------------------------------------------
\* Every variable keeps its domain.
ReferralsTypeOK ==
    /\ referrals \subseteq Friends /\ gifts \in [Friends -> Nat]
    /\ invite \in [Invitations -> Inviting] /\ abreast \in BOOLEAN

\* A friend gets one coupon, however often and in whatever order invitations are sent,
\* and a user who does not send two at once does not pass the limit.
GiftOnce ==
    /\ \A f \in Friends : gifts[f] <= 1
    /\ ~abreast => Cardinality(referrals) <= InviteLimit
=============================================================================
