---------------------------------- MODULE Offers ----------------------------------
(***************************************************************************)
(* One offer: OffersService.  An update checks what the request brings,    *)
(* with the target id of the row it read, and writes the fields the        *)
(* request names.                                                          *)
(***************************************************************************)
EXTENDS Integers

CONSTANTS
    Editors,        \* requests in flight together
    MaxRewrites     \* bound: updates

ASSUME OffersAssumption == MaxRewrites \in Nat

Targets == {"GENERAL", "SPECIFIC_SERVICE", "SPECIFIC_PROVIDER", "NEW_CLIENTS"}
Absent  == "absent"                 \* the request names no target

VARIABLES
    offer,          \* target, has it a targetId; NoOffer, Taken
    draft,          \* each update: its request, and what it read
    rewrites,       \* updates begun
    clashed         \* two updates were in flight together

offerVars == <<offer, draft, rewrites, clashed>>

NoOffer == [target |-> "none", id |-> FALSE]
Taken   == [target |-> "removed", id |-> FALSE]
Offer   == [target : Targets, id : BOOLEAN]

\* A request: a target or none, and an id or none.
Requested == [target : Targets \cup {Absent}, id : BOOLEAN]
NoDraft == [target |-> "none", id |-> FALSE]
Drafting == {e \in Editors : draft[e] # NoDraft}

OffersInit ==
    /\ offer = NoOffer /\ draft = [e \in Editors |-> NoDraft]
    /\ rewrites = 0 /\ clashed = FALSE
-----------------------------------------------------------------------------
CreateOffer ==
    /\ offer = NoOffer
    /\ \E r \in Requested :
          LET target == IF r.target = Absent THEN "GENERAL" ELSE r.target
          IN  /\ target # "GENERAL" => r.id
              /\ offer' = [target |-> target, id |-> r.id]
    /\ UNCHANGED <<draft, rewrites, clashed>>

\* The check of update, on the row it has read.
AnyTarget(r) == TRUE
TargetIsNamed(r) == r.target \notin Targets \ {"GENERAL"} \/ r.id \/ offer.id

UpdateRead(e) ==
    /\ offer \in Offer /\ draft[e] = NoDraft
    /\ rewrites < MaxRewrites /\ rewrites' = rewrites + 1
    /\ \E r \in Requested : TargetIsNamed(r) /\ draft' = [draft EXCEPT ![e] = r]
    /\ clashed' = (clashed \/ Drafting # {})
    /\ UNCHANGED offer

\* A general offer gives up its target id.
IdAfter(r) == IF r.target = "GENERAL" THEN FALSE ELSE r.id \/ offer.id
TargetAfter(r) == IF r.target = Absent THEN offer.target ELSE r.target

UpdateWrite(e) ==
    /\ draft[e] # NoDraft
    /\ offer \in Offer
    /\ offer' = [target |-> TargetAfter(draft[e]), id |-> IdAfter(draft[e])]
    /\ draft' = [draft EXCEPT ![e] = NoDraft]
    /\ UNCHANGED <<rewrites, clashed>>

\* The row is gone, the statement fails, or the process dies.
UpdateFails(e) ==
    /\ draft[e] # NoDraft
    /\ draft' = [draft EXCEPT ![e] = NoDraft]
    /\ UNCHANGED <<offer, rewrites, clashed>>

RemoveOffer ==
    /\ offer \in Offer /\ offer' = Taken
    /\ UNCHANGED <<draft, rewrites, clashed>>
-----------------------------------------------------------------------------
OffersNext ==
    \/ CreateOffer \/ RemoveOffer
    \/ \E e \in Editors : UpdateRead(e) \/ UpdateWrite(e) \/ UpdateFails(e)

OffersSpec == OffersInit /\ [][OffersNext]_offerVars
-----------------------------------------------------------------------------
\* Every variable keeps its domain.
OffersTypeOK ==
    /\ offer \in Offer \cup {NoOffer, Taken} /\ draft \in [Editors -> Requested \cup {NoDraft}]
    /\ rewrites \in Nat /\ clashed \in BOOLEAN

\* Through any updates, one after the other, an offer that is not for everybody has its
\* target id, though no single update need name both.
TargetHasId ==
    ~clashed /\ offer \in Offer => (offer.target # "GENERAL" => offer.id)
=============================================================================
