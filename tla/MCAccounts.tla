------------------------------ MODULE MCAccounts ------------------------------
(* The components behind the accounts of clients and providers, for TLC.      *)
(* Missions write the state of Points; the others share none: a behaviour     *)
(* exercises one part, chosen in the initial state.                           *)
EXTENDS Missions, Coupons, Referrals, Reviews, Subscriptions, Verification, WeeklyHours,
        Offers, Pricing, Registration

CONSTANTS one, two, three       \* rows, and the ids of requests

First == {one}
Both  == {one, two}
All   == {one, two, three}
Third == {three}

ApprovedAgain == {"APPROVED", Collecting}
TwoDays       == {1, 2}
Halves        == {4, 8, 16}
SmallCaps     == {8, 10}
FewAsked      == {NoDemand, 1, 2}

VARIABLE part

accountVars ==
    <<pointVars, missionVars, couponVars, referralVars, reviewVars, subscriptionVars,
      verificationVars, weeklyVars, offerVars, priceVars, registrationVars, part>>

Parts == {"points", "missions", "coupons", "referrals", "reviews", "subscriptions",
          "verification", "weekly", "offers", "pricing", "registration"}

AccountsInit ==
    /\ part \in Parts
    /\ PointsInit /\ MissionsInit /\ CouponsInit /\ ReferralsInit /\ ReviewsInit
    /\ SubscriptionsInit /\ VerificationInit /\ WeeklyInit /\ OffersInit /\ PricingInit
    /\ RegistrationInit
    /\ part # "pricing" => rules = <<>> /\ demand = NoDemand
    /\ IF part = "registration"
         THEN form[one].email = one /\ form[one].cpf = one      \* the names are interchangeable
         ELSE form = [s \in Signups |-> CHOOSE f \in Form : TRUE]

\* The variables of a component stay as they are while other parts run.
Still(parts, vars) == IF part \in parts THEN TRUE ELSE UNCHANGED vars

Rest ==
    /\ Still({"points", "missions"}, pointVars) /\ Still({"missions"}, missionVars)
    /\ Still({"coupons"}, couponVars) /\ Still({"referrals"}, referralVars)
    /\ Still({"reviews"}, reviewVars) /\ Still({"subscriptions"}, subscriptionVars)
    /\ Still({"verification"}, verificationVars) /\ Still({"weekly"}, weeklyVars)
    /\ Still({"offers"}, offerVars) /\ Still({"pricing"}, priceVars)
    /\ Still({"registration"}, registrationVars)
    /\ UNCHANGED part

AccountsNext ==
    \/ part = "points" /\ PointsNext /\ Rest
    \/ part = "missions" /\ MissionsNext /\ Rest
    \/ part = "coupons" /\ CouponsNext /\ Rest
    \/ part = "referrals" /\ ReferralsNext /\ Rest
    \/ part = "reviews" /\ ReviewsNext /\ Rest
    \/ part = "subscriptions" /\ SubscriptionsNext /\ Rest
    \/ part = "verification" /\ VerificationNext /\ Rest
    \/ part = "weekly" /\ WeeklyNext /\ Rest
    \/ part = "offers" /\ OffersNext /\ Rest
    \/ part = "pricing" /\ PricingNext /\ Rest
    \/ part = "registration" /\ RegistrationNext /\ Rest

AccountsSpec == AccountsInit /\ [][AccountsNext]_accountVars

\* The type invariants of the components.
AccountsTypeOK ==
    /\ PointsTypeOK /\ MissionsTypeOK /\ CouponsTypeOK /\ ReferralsTypeOK /\ ReviewsTypeOK
    /\ SubscriptionsTypeOK /\ VerificationTypeOK /\ WeeklyTypeOK /\ OffersTypeOK
    /\ PricingTypeOK /\ RegistrationTypeOK
=============================================================================
