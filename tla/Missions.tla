-------------------------------- MODULE Missions --------------------------------
(***************************************************************************)
(* The missions of one user: MissionsProgressService.trackEvent counts     *)
(* events, MissionsService.claimMission gives the reward, a coupon or the  *)
(* points of module Points.  All missions here wait for the same event.    *)
(* Tracking is a series of statements; a claim is one transaction, READ    *)
(* COMMITTED.  Calls overlap.                                              *)
(***************************************************************************)
EXTENDS Points

CONSTANTS
    Visits,         \* calls of trackEvent and claimMission in flight together
    CouponMissions, \* missions that give a coupon; MissionIds give points
    Windowed,       \* missions of kind WITHIN_WINDOW; the others count
    Target,         \* targetValue
    Events          \* bound: events that are tracked

ASSUME MissionsAssumption ==
    /\ MissionIds \cap CouponMissions = {} /\ Windowed \subseteq MissionIds \cup CouponMissions
    /\ Target \in Nat \ {0} /\ Events \in Nat

AllMissions == MissionIds \cup CouponMissions

VARIABLES
    progress,       \* MissionProgress.currentValue
    mission,        \* MissionProgress.status
    claimedAt,      \* missions with MissionProgress.claimedAt
    events,         \* rows of MissionEvent
    tracked,        \* events tracked so far
    coupons,        \* coupons issued for each mission
    visit,          \* what each call does next, on which mission, with what it has read
    jostled         \* two claims of one mission have overlapped

missionVars == <<progress, mission, claimedAt, events, tracked, coupons, visit, jostled>>
progressRow == <<progress, mission, claimedAt>>

NoVisit == [do |-> "idle", at |-> 0, left |-> {}, on |-> "none", value |-> 0]
VisitSteps == {"idle", "next", "apply", "set", "complete", "prune", "claim"}
Turns(v, s) == visit' = [visit EXCEPT ![v].do = s]

MissionsInit ==
    /\ progress = [m \in AllMissions |-> 0] /\ mission = [m \in AllMissions |-> "ACTIVE"]
    /\ claimedAt = {} /\ events = {} /\ tracked = 0
    /\ coupons = [m \in AllMissions |-> 0] /\ visit = [v \in Visits |-> NoVisit]
    /\ jostled = FALSE
-----------------------------------------------------------------------------
(***************************************************************************)
(* trackEvent: the event is logged, then each mission has its turn.        *)
(***************************************************************************)

Track(v) ==
    /\ visit[v] = NoVisit
    /\ tracked < Events /\ tracked' = tracked + 1
    /\ events' = events \cup {tracked + 1}
    /\ visit' = [visit EXCEPT ![v] =
                    [NoVisit EXCEPT !.do = "next", !.at = tracked + 1, !.left = AllMissions]]
    /\ UNCHANGED <<progressRow, coupons, jostled>>

\* getOrCreateProgress: what has been claimed is left alone.
ReadProgress(v, m) ==
    /\ visit[v].do = "next" /\ m \in visit[v].left
    /\ visit' = [visit EXCEPT ![v].left = @ \ {m}, ![v].on = m,
                              ![v].do = IF mission[m] = "CLAIMED" THEN "next" ELSE "apply"]
    /\ UNCHANGED <<progressRow, events, tracked, coupons, jostled>>

Reached(value) == value >= Target

\* The update of the progress returns the row, and the row decides.
AfterUpdate(v, value) ==
    visit' = [visit EXCEPT ![v].do =
                IF Reached(value) /\ mission[visit[v].on] # "CLAIMED" THEN "complete" ELSE "next"]

CountEvent(v) ==
    /\ visit[v].do = "apply" /\ visit[v].on \notin Windowed
    /\ progress' = [progress EXCEPT ![visit[v].on] = @ + 1]
    /\ AfterUpdate(v, progress[visit[v].on] + 1)
    /\ UNCHANGED <<mission, claimedAt, events, tracked, coupons, jostled>>

CountWindow(v) ==
    /\ visit[v].do = "apply" /\ visit[v].on \in Windowed
    /\ visit' = [visit EXCEPT ![v].do = "set",
                              ![v].value = Cardinality({e \in events : e <= visit[v].at})]
    /\ UNCHANGED <<progressRow, events, tracked, coupons, jostled>>

SetWindow(v) ==
    /\ visit[v].do = "set"
    /\ progress' = [progress EXCEPT ![visit[v].on] = visit[v].value]
    /\ AfterUpdate(v, visit[v].value)
    /\ UNCHANGED <<mission, claimedAt, events, tracked, coupons, jostled>>

\* By key, whatever the status has become: a claim may be overwritten.
CompleteMission(v) ==
    /\ visit[v].do = "complete"
    /\ mission' = [mission EXCEPT ![visit[v].on] = "COMPLETED"]
    /\ Turns(v, "prune")
    /\ UNCHANGED <<progress, claimedAt, events, tracked, coupons, jostled>>

\* The events go for the other missions as well.
Prune(v) ==
    /\ visit[v].do = "prune"
    /\ events' = {e \in events : e > visit[v].at}
    /\ Turns(v, "next")
    /\ UNCHANGED <<progressRow, tracked, coupons, jostled>>

\* The last mission is done, or the process has died (or an insert of the progress
\* met another one's): what is left is not looked at.
EndTracking(v) ==
    /\ visit[v].do \in {"next", "apply", "set", "complete", "prune"}
    /\ visit' = [visit EXCEPT ![v] = NoVisit]
    /\ UNCHANGED <<progressRow, events, tracked, coupons, jostled>>

\* The hourly clean-up, once a mission has not moved for a day.
CleanUp ==
    /\ \E m \in AllMissions : mission[m] # "ACTIVE"
    /\ \A v \in Visits : visit[v] = NoVisit
    /\ events # {} /\ events' = {}
    /\ UNCHANGED <<progressRow, tracked, coupons, visit, jostled>>
-----------------------------------------------------------------------------
(***************************************************************************)
(* claimMission.                                                           *)
(***************************************************************************)

ByStatus(m)    == mission[m] = "COMPLETED"
Claimable(m)   == mission[m] = "COMPLETED" /\ m \notin claimedAt

ClaimRead(v, m) ==
    /\ visit[v] = NoVisit /\ Claimable(m)
    /\ visit' = [visit EXCEPT ![v].do = "claim", ![v].on = m]
    /\ jostled' = (jostled \/ \E w \in Visits : visit[w].do = "claim" /\ visit[w].on = m)
    /\ UNCHANGED <<progressRow, events, tracked, coupons, pointVars>>

SwallowsFailure(m) == NoCredit /\ UNCHANGED coupons
Reward(m) ==
    IF m \in CouponMissions
      THEN coupons' = [coupons EXCEPT ![m] = @ + 1] /\ NoCredit
      ELSE /\ UNCHANGED coupons
           /\ IF m \in credited THEN NoCredit ELSE Credit(m)

ClaimCommit(v) ==
    /\ visit[v].do = "claim"
    /\ Reward(visit[v].on)
    /\ mission' = [mission EXCEPT ![visit[v].on] = "CLAIMED"]
    /\ claimedAt' = claimedAt \cup {visit[v].on}
    /\ events' = {}
    /\ visit' = [visit EXCEPT ![v] = NoVisit]
    /\ UNCHANGED <<progress, tracked, jostled, redeemed, expired, old, vouchers, call,
                   unrecorded, crowded, breaks>>

\* The entry of another claim of these points has come in between, or the database refuses.
ClaimAbort(v) ==
    /\ visit[v].do = "claim"
    /\ visit' = [visit EXCEPT ![v] = NoVisit]
    /\ UNCHANGED <<progressRow, events, tracked, coupons, jostled, pointVars>>
-----------------------------------------------------------------------------
TrackStep ==
    \/ \E v \in Visits :
          \/ Track(v) \/ CountEvent(v) \/ CountWindow(v) \/ SetWindow(v)
          \/ CompleteMission(v) \/ Prune(v) \/ EndTracking(v)
          \/ \E m \in AllMissions : ReadProgress(v, m)
    \/ CleanUp

ClaimStep ==
    \E v \in Visits : ClaimCommit(v) \/ ClaimAbort(v) \/ \E m \in AllMissions : ClaimRead(v, m)

MissionsNext == (TrackStep /\ UNCHANGED pointVars) \/ ClaimStep

\* The missions beside everything else that moves the user's points.
RewardsInit == PointsInit /\ MissionsInit
RewardsNext == (PointsNext /\ UNCHANGED missionVars) \/ MissionsNext
RewardsSpec == RewardsInit /\ [][RewardsNext]_<<pointVars, missionVars>>
-----------------------------------------------------------------------------
\* Every variable keeps its domain.
MissionsTypeOK ==
    /\ progress \in [AllMissions -> Nat]
    /\ mission \in [AllMissions -> {"ACTIVE", "COMPLETED", "CLAIMED"}]
    /\ claimedAt \subseteq AllMissions /\ events \subseteq 1 .. Events /\ tracked \in 0 .. Events
    /\ coupons \in [AllMissions -> Nat] /\ jostled \in BOOLEAN
    /\ visit \in [Visits -> [do : VisitSteps, at : 0 .. Events, left : SUBSET AllMissions,
                              on : AllMissions \cup {"none"}, value : Nat]]

\* A mission gives its coupon once, unless two claims of it overlap: a claim that a
\* late event has turned back to COMPLETED is not open again.
CouponOnce == ~jostled => \A m \in CouponMissions : coupons[m] <= 1

\* What is claimed has been given: the coupon, or the points entered in the ledger
\* (this holds for overlapping claims too).
ClaimIsPaid == \A m \in claimedAt : coupons[m] > 0 \/ m \in credited
=============================================================================
