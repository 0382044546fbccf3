-------------------------------- MODULE Reviews --------------------------------
(***************************************************************************)
(* The reviews one client writes of one provider: submitReview.  A         *)
(* transaction (READ COMMITTED) inserts the review; the points and the     *)
(* mission event follow one by one, on a count read after the commit.      *)
(***************************************************************************)
EXTENDS Integers, FiniteSets

CONSTANTS
    Stays,          \* finished bookings of the client with the provider
    Posts,          \* requests in flight together
    ReviewLimit     \* REVIEW_RATE_LIMIT: reviews in 30 days, which are all of them here

ASSUME ReviewsAssumption == IsFiniteSet(Stays) /\ Stays # {} /\ ReviewLimit \in Nat

VARIABLES
    refunded,       \* bookings whose payment was given back
    reviewed,       \* bookings with a review, which are the ones with isReviewed
    firsts,         \* reviews with points FIRST_REVIEW
    laters,         \* reviews with points REVIEW_SUBMITTED
    counted,        \* reviews with a mission event review.created
    post            \* each request: what it does next, its booking, the recent reviews

reviewVars == <<refunded, reviewed, firsts, laters, counted, post>>

NoPost == [do |-> "idle", stay |-> CHOOSE b \in Stays : TRUE, recent |-> 0]
PostGoes(p, step) == post' = [post EXCEPT ![p].do = step]
PostEnds(p) == post' = [post EXCEPT ![p] = NoPost]

ReviewsInit ==
    /\ refunded = {} /\ reviewed = {} /\ firsts = {} /\ laters = {} /\ counted = {}
    /\ post = [p \in Posts |-> NoPost]
-----------------------------------------------------------------------------
\* Inside the transaction: the booking, its review, and the reviews of 30 days.
SubmitRead(p, b) ==
    /\ post[p] = NoPost
    /\ b \notin refunded /\ b \notin reviewed
    /\ Cardinality(reviewed) < ReviewLimit
    /\ post' = [post EXCEPT ![p] = [do |-> "insert", stay |-> b,
                                    recent |-> Cardinality(reviewed)]]
    /\ UNCHANGED <<refunded, reviewed, firsts, laters, counted>>

\* The review and isReviewed, or P2002 when the booking has a review by now.
SubmitCommit(p) ==
    /\ post[p].do = "insert"
    /\ IF post[p].stay \in reviewed
       THEN PostEnds(p) /\ UNCHANGED reviewed
       ELSE reviewed' = reviewed \cup {post[p].stay} /\ PostGoes(p, "count")
    /\ UNCHANGED <<refunded, firsts, laters, counted>>

\* reviewsMade, as it is after the commit.
CountedBefore(p) == post[p].recent + 1
ReviewsMade(p)   == Cardinality(reviewed)

CountReviews(p) ==
    /\ post[p].do = "count"
    /\ PostGoes(p, IF ReviewsMade(p) = 1 THEN "first" ELSE "later")
    /\ UNCHANGED <<refunded, reviewed, firsts, laters, counted>>

\* addPoints, keyed by type and review.
CreditReview(p) ==
    /\ \/ post[p].do = "first" /\ firsts' = firsts \cup {post[p].stay} /\ UNCHANGED laters
       \/ post[p].do = "later" /\ laters' = laters \cup {post[p].stay} /\ UNCHANGED firsts
    /\ PostGoes(p, "track")
    /\ UNCHANGED <<refunded, reviewed, counted>>

\* trackEvent, whose failure is only logged, and the badges.
TrackReview(p) ==
    /\ post[p].do = "track"
    /\ \/ counted' = counted \cup {post[p].stay}
       \/ UNCHANGED counted
    /\ PostEnds(p)
    /\ UNCHANGED <<refunded, reviewed, firsts, laters>>

\* addPoints refuses (its daily limit), a statement fails, or the process dies.
PostFails(p) ==
    /\ post[p] # NoPost
    /\ PostEnds(p)
    /\ UNCHANGED <<refunded, reviewed, firsts, laters, counted>>

\* A dispute gives the payment back.
StayRefunded(b) ==
    /\ b \notin refunded /\ refunded' = refunded \cup {b}
    /\ UNCHANGED <<reviewed, firsts, laters, counted, post>>
-----------------------------------------------------------------------------
ReviewsNext ==
    \/ \E p \in Posts : \/ SubmitCommit(p) \/ CountReviews(p) \/ CreditReview(p)
                        \/ TrackReview(p) \/ PostFails(p)
                        \/ \E b \in Stays : SubmitRead(p, b)
    \/ \E b \in Stays : StayRefunded(b)

ReviewsSpec == ReviewsInit /\ [][ReviewsNext]_reviewVars
-----------------------------------------------------------------------------
\* Every variable keeps its domain.
ReviewsTypeOK ==
    /\ refunded \subseteq Stays /\ reviewed \subseteq Stays
    /\ firsts \subseteq Stays /\ laters \subseteq Stays /\ counted \subseteq Stays
    /\ post \in [Posts -> [do : {"idle", "insert", "count", "first", "later", "track"},
                            stay : Stays, recent : Nat]]

\* However reviews are submitted together, repeated and broken off, the points of the
\* first review are given for one review at most, each review earns points once, under
\* one of the two types, and no mission counts a review that earned none.
FirstReviewOnce ==
    /\ Cardinality(firsts) <= 1
    /\ firsts \cap laters = {}
    /\ firsts \cup laters \subseteq reviewed
    /\ counted \subseteq firsts \cup laters
=============================================================================
