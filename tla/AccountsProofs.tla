----------------------------- MODULE AccountsProofs -----------------------------
(***************************************************************************)
(* Proofs about the components behind the accounts, for any number of      *)
(* overlapping requests: invitations, subscriptions, documents, reviews,   *)
(* offers and registrations.  Each has its inductive invariant, which says what a        *)
(* request in the middle of its steps may still count on.                  *)
(***************************************************************************)
EXTENDS MCAccounts, RewardsProofs

(***************************************************************************)
(* Referrals.                                                              *)
(***************************************************************************)

\* A friend whose coupon is about to be given has no coupon yet and is being given it
\* by one call; a user who sends one invitation at a time has room for it.
Giving(i) == invite[i].do = "gift"
Counting(i) == invite[i].do \in {"check", "insert"}

InviteInv ==
    /\ ReferralsTypeOK /\ IsFiniteSet(referrals)
    /\ \A i \in Invitations : invite[i].do # "idle" => invite[i].friend \in Friends
    /\ \A i \in Invitations : Giving(i) =>
          /\ invite[i].friend \in referrals /\ gifts[invite[i].friend] = 0
          /\ \A j \in Invitations \ {i} : Giving(j) => invite[j].friend # invite[i].friend
    /\ \A f \in Friends : gifts[f] <= 1 /\ (f \notin referrals => gifts[f] = 0)
    /\ ~abreast => /\ Cardinality(referrals) <= InviteLimit
                   /\ \A i \in Invitations : Counting(i) =>
                         /\ Cardinality(referrals) < InviteLimit
                         /\ \A j \in Invitations \ {i} : ~Counting(j)

LEMMA InviteInit == ReferralsInit => InviteInv
  <1>. SUFFICES ASSUME ReferralsInit
                PROVE  InviteInv
    OBVIOUS
  <1>1. ReferralsTypeOK /\ \A i \in Invitations : invite[i].do = "idle"
    BY DEF ReferralsInit, ReferralsTypeOK, Inviting, NoInvite
  <1>2. IsFiniteSet(referrals) /\ Cardinality(referrals) = 0
    BY FS_EmptySet DEF ReferralsInit
  <1>3. \A f \in Friends : gifts[f] = 0
    BY DEF ReferralsInit
  <1>. QED
    BY <1>1, <1>2, <1>3, ReferralsAssumption DEF InviteInv, Giving, Counting

LEMMA InviteStep == InviteInv /\ [ReferralsNext]_referralVars => InviteInv'
  <1>. SUFFICES ASSUME InviteInv, [ReferralsNext]_referralVars
                PROVE  InviteInv'
    OBVIOUS
  <1>. USE DEF ReferralsTypeOK, Inviting, NoInvite, Giving, Counting
  <1>0. Cardinality(referrals) \in Nat
    BY FS_CardinalityType DEF InviteInv
  <1>1. ASSUME NEW i \in Invitations, NEW f \in Friends, Invite(i, f)
        PROVE  InviteInv'
    BY <1>1, <1>0, ReferralsAssumption DEF Invite, InviteInv, BelowLimit
  <1>2. ASSUME NEW i \in Invitations, CheckInvited(i)
        PROVE  InviteInv'
    BY <1>2 DEF CheckInvited, InviteInv
  <1>3. ASSUME NEW i \in Invitations, InsertReferral(i)
        PROVE  InviteInv'
    <2>. DEFINE f == invite[i].friend
    <2>1. IsFiniteSet(referrals \cup {f})
          /\ (f \notin referrals => Cardinality(referrals \cup {f}) = Cardinality(referrals) + 1)
      BY FS_AddElement DEF InviteInv
    <2>2. CASE f \in referrals
      BY <1>3, <2>2 DEF InsertReferral, InviteInv, InsertsOnce
    <2>3. CASE f \notin referrals
      <3>1. /\ invite[i].do = "insert" /\ f \in Friends /\ referrals' = referrals \cup {f}
            /\ invite' = [invite EXCEPT ![i].do = "gift"] /\ UNCHANGED <<gifts, abreast>>
        BY <1>3, <2>3 DEF InsertReferral, InviteInv, InsertsOnce
      <3>2. /\ invite'[i].do = "gift" /\ invite'[i].friend = f
            /\ \A j \in Invitations \ {i} : invite'[j] = invite[j]
        BY <3>1 DEF InviteInv
      <3>3. ReferralsTypeOK'
        BY <3>1 DEF InviteInv
      <3>4. ASSUME ~abreast
            PROVE  Cardinality(referrals') <= InviteLimit
        BY <3>1, <3>4, <2>1, <2>3, <1>0, ReferralsAssumption DEF InviteInv
      <3>5. ASSUME ~abreast
            PROVE  \A j \in Invitations : ~(Counting(j)')
        BY <3>1, <3>2, <3>5 DEF InviteInv
      <3>6. gifts[f] = 0
        BY <3>1, <2>3 DEF InviteInv
      <3>. QED
        BY <3>1, <3>2, <3>3, <3>4, <3>5, <3>6, <2>1, <2>3 DEF InviteInv
    <2>. QED
      BY <2>2, <2>3
  <1>4. ASSUME NEW i \in Invitations, GiveCoupon(i)
        PROVE  InviteInv'
    BY <1>4 DEF GiveCoupon, InviteInv
  <1>5. CASE UNCHANGED referralVars
    BY <1>5 DEF InviteInv, referralVars
  <1>. QED
    BY <1>1, <1>2, <1>3, <1>4, <1>5 DEF ReferralsNext

\* createReferral: the unique key of the invited user makes the coupon one, the count
\* before the insert keeps the limit for whoever sends one invitation at a time.
THEOREM OneGiftEach == ReferralsSpec => []GiftOnce
  <1>1. InviteInv => GiftOnce
    BY DEF InviteInv, GiftOnce
  <1>. QED
    BY <1>1, InviteInit, InviteStep, PTL DEF ReferralsSpec
-----------------------------------------------------------------------------
(***************************************************************************)
(* Subscriptions.                                                          *)
(***************************************************************************)

JobMatches ==
    /\ subscription \in Suspended => ~generation
    /\ subscription = "ACTIVE" /\ ~overdue => generation

\* What the one request in flight may count on.
EditInv(e) ==
    CASE edit[e].do \in {"generate", "flag"} -> subscription = "ACTIVE" /\ overdue /\ ~generation
      [] edit[e].do = "write"  -> edit[e].was = subscription /\ JobMatches
      [] edit[e].do = "cancel" -> subscription \in Suspended
      [] edit[e].do \in {"remove", "add"} -> subscription = "ACTIVE"
      [] OTHER -> TRUE

SubscriptionInv ==
    /\ SubscriptionsTypeOK
    /\ \A e \in Edits : edit[e].do = "idle" => edit[e] = NoEdit
    /\ subscription = "none" => ~generation /\ InFlight = {}
    /\ ~entangled => \A e, f \in InFlight : e = f
    /\ ~entangled /\ ~broken => (InFlight = {} => JobMatches) /\ \A e \in InFlight : EditInv(e)

\* A request ends, or goes on to its next step.
LEMMA EditMoves ==
    ASSUME SubscriptionInv, NEW e \in Edits, edit[e].do # "idle"
    PROVE  /\ Done(e) => /\ edit' \in [Edits -> [do : EditSteps, to : SubscriptionStatuses,
                                                  was : SubscriptionStatuses]]
                         /\ \A f \in Edits : edit'[f].do = "idle" => edit'[f] = NoEdit
                         /\ InFlight' = InFlight \ {e}
           /\ \A s \in EditSteps \ {"idle"} : EditGoes(e, s) =>
                 /\ edit' \in [Edits -> [do : EditSteps, to : SubscriptionStatuses,
                                         was : SubscriptionStatuses]]
                 /\ \A f \in Edits : edit'[f].do = "idle" => edit'[f] = NoEdit
                 /\ InFlight' = InFlight
                 /\ edit'[e].do = s /\ edit'[e].was = edit[e].was
           /\ e \in InFlight /\ (~entangled => InFlight = {e})
  <1>. USE DEF NoEdit, EditSteps, SubscriptionStatuses, InFlight
  <1>1. ASSUME Done(e)
        PROVE  /\ edit'[e] = NoEdit /\ \A f \in Edits \ {e} : edit'[f] = edit[f]
               /\ edit' \in [Edits -> [do : EditSteps, to : SubscriptionStatuses,
                                       was : SubscriptionStatuses]]
    BY <1>1 DEF Done, SubscriptionInv, SubscriptionsTypeOK
  <1>2. ASSUME NEW s \in EditSteps \ {"idle"}, EditGoes(e, s)
        PROVE  /\ edit'[e].do = s /\ edit'[e].was = edit[e].was
               /\ \A f \in Edits \ {e} : edit'[f] = edit[f]
               /\ edit' \in [Edits -> [do : EditSteps, to : SubscriptionStatuses,
                                       was : SubscriptionStatuses]]
    BY <1>2 DEF EditGoes, SubscriptionInv, SubscriptionsTypeOK
  <1>. QED
    BY <1>1, <1>2 DEF SubscriptionInv

LEMMA SubscriptionInit == SubscriptionsInit => SubscriptionInv
  <1>. SUFFICES ASSUME SubscriptionsInit
                PROVE  SubscriptionInv
    OBVIOUS
  <1>1. SubscriptionsTypeOK /\ InFlight = {}
    BY DEF SubscriptionsInit, SubscriptionsTypeOK, NoEdit, EditSteps, InFlight,
       SubscriptionStatuses
  <1>2. JobMatches /\ \A e \in Edits : edit[e] = NoEdit
    BY DEF SubscriptionsInit, JobMatches, Suspended
  <1>3. generation = FALSE
    BY DEF SubscriptionsInit
  <1>. QED
    BY <1>1, <1>2, <1>3 DEF SubscriptionInv

LEMMA SubscriptionStep == SubscriptionInv /\ [SubscriptionsNext]_subscriptionVars => SubscriptionInv'
  <1>. SUFFICES ASSUME SubscriptionInv, [SubscriptionsNext]_subscriptionVars
                PROVE  SubscriptionInv'
    OBVIOUS
  <1>. USE DEF SubscriptionsTypeOK, EditSteps, Suspended, SubscriptionStatuses, Addressless,
               EditInv, JobMatches
  <1>1. ASSUME NEW e \in Edits, Subscribe(e)
        PROVE  SubscriptionInv'
    <2>1. SubscriptionsTypeOK'
      BY <1>1 DEF Subscribe, SubscriptionInv, Begins, NoEdit
    <2>2. /\ edit[e] = NoEdit /\ edit'[e].do # "idle"
          /\ \A f \in Edits \ {e} : edit'[f] = edit[f]
      BY <1>1 DEF Subscribe, SubscriptionInv, Begins, NoEdit
    <2>3. ~entangled' => ~entangled /\ InFlight = {} /\ InFlight' = {e}
      BY <1>1, <2>2 DEF Subscribe, SubscriptionInv, Begins, InFlight, NoEdit
    <2>4. EditInv(e)'
      <3>1. subscription' = "ACTIVE" /\ generation' = FALSE /\ overdue' \in BOOLEAN
            /\ edit'[e].do = IF overdue' THEN "generate" ELSE "remove"
        BY <1>1 DEF Subscribe, SubscriptionInv, Begins, NoEdit
      <3>2. CASE overdue'
        BY <3>1, <3>2
      <3>3. CASE ~overdue'
        BY <3>1, <3>3
      <3>. QED
        BY <3>2, <3>3
    <2>. QED
      BY <2>1, <2>2, <2>3, <2>4 DEF SubscriptionInv
  <1>2. ASSUME NEW e \in Edits, Generate(e)
        PROVE  SubscriptionInv'
    <2>1. CASE EditGoes(e, "flag")
      BY <1>2, <2>1, EditMoves DEF Generate, SubscriptionInv
    <2>2. CASE Done(e)
      BY <1>2, <2>2, EditMoves DEF Generate, SubscriptionInv
    <2>. QED
      BY <1>2, <2>1, <2>2 DEF Generate
  <1>3. ASSUME NEW e \in Edits, FlagAddress(e)
        PROVE  SubscriptionInv'
    BY <1>3, EditMoves DEF FlagAddress, SubscriptionInv
  <1>4. ASSUME NEW e \in Edits, NEW s \in SubscriptionStatuses, EditRead(e, s)
        PROVE  SubscriptionInv'
    <2>1. SubscriptionsTypeOK'
      BY <1>4 DEF EditRead, SubscriptionInv, Begins
    <2>2. /\ edit[e] = NoEdit
          /\ edit'[e] = [do |-> "write", to |-> s, was |-> subscription]
          /\ \A f \in Edits \ {e} : edit'[f] = edit[f]
      BY <1>4 DEF EditRead, SubscriptionInv, Begins
    <2>3. edit'[e].do # "idle" /\ edit'[e] # NoEdit
      BY <2>2 DEF NoEdit
    <2>4. ~entangled' => ~entangled /\ InFlight = {} /\ InFlight' = {e}
      BY <1>4, <2>2, <2>3 DEF EditRead, Begins, InFlight
    <2>5. ~entangled' => EditInv(e)' \/ broken'
      BY <1>4, <2>2, <2>4 DEF EditRead, SubscriptionInv
    <2>6. subscription # "none" /\ UNCHANGED subscription
      BY <1>4 DEF EditRead
    <2>. QED
      BY <2>1, <2>2, <2>3, <2>4, <2>5, <2>6 DEF SubscriptionInv
  <1>5. ASSUME NEW e \in Edits, EditWrite(e)
        PROVE  SubscriptionInv'
    <2>1. CASE NextStep(e) = "idle"
      BY <1>5, <2>1, EditMoves DEF EditWrite, SubscriptionInv, NextStep, Reactivated
    <2>2. CASE NextStep(e) # "idle"
      BY <1>5, <2>2, EditMoves DEF EditWrite, SubscriptionInv, NextStep, Reactivated
    <2>. QED
      BY <2>1, <2>2
  <1>6. ASSUME NEW e \in Edits, CancelJob(e)
        PROVE  SubscriptionInv'
    BY <1>6, EditMoves DEF CancelJob, SubscriptionInv
  <1>7. ASSUME NEW e \in Edits, RemoveJob(e)
        PROVE  SubscriptionInv'
    <2>1. /\ edit[e].do = "remove" /\ EditGoes(e, "add")
          /\ UNCHANGED <<subscription, edits, overdue, entangled, broken>> /\ generation' = FALSE
      BY <1>7 DEF RemoveJob
    <2>2. /\ SubscriptionsTypeOK' /\ edit'[e].do = "add" /\ e \in InFlight /\ InFlight' = InFlight
          /\ \A f \in Edits : edit'[f].do = "idle" => edit'[f] = NoEdit
          /\ ~entangled => InFlight = {e}
      BY <2>1, EditMoves DEF SubscriptionInv
    <2>3. ~entangled /\ ~broken => subscription = "ACTIVE"
      BY <2>1, <2>2 DEF SubscriptionInv
    <2>. QED
      BY <2>1, <2>2, <2>3 DEF SubscriptionInv
  <1>8. ASSUME NEW e \in Edits, AddJobAgain(e)
        PROVE  SubscriptionInv'
    BY <1>8, EditMoves DEF AddJobAgain, SubscriptionInv
  <1>9. ASSUME NEW e \in Edits, EditBreaksOff(e)
        PROVE  SubscriptionInv'
    BY <1>9, EditMoves DEF EditBreaksOff, SubscriptionInv
  <1>10. CASE UNCHANGED subscriptionVars
    BY <1>10 DEF SubscriptionInv, subscriptionVars, InFlight
  <1>. QED
    BY <1>1, <1>2, <1>3, <1>4, <1>5, <1>6, <1>7, <1>8, <1>9, <1>10 DEF SubscriptionsNext

\* update: through any sequence of changes the delayed job follows the status, as long
\* as the changes do not overlap and the queue answers.
THEOREM JobAlwaysFollows == SubscriptionsSpec => []JobFollowsStatus
  <1>1. SubscriptionInv => JobFollowsStatus
    BY DEF SubscriptionInv, JobFollowsStatus, JobMatches
  <1>. QED
    BY <1>1, SubscriptionInit, SubscriptionStep, PTL DEF SubscriptionsSpec
-----------------------------------------------------------------------------
(***************************************************************************)
(* Verification.                                                           *)
(***************************************************************************)

\* A row that was read, now or before, in the cache or in the hands of a request.
Read(row) == row = cachedRow \/ \E s \in Senders : row = sender[s].row

Judging == \E s \in Senders : sender[s].do \in {"check", "refill", "decide"}

\* Documents only come, so what was read is part of what is there; a row that was read
\* complete and under review tells the truth, unless somebody decided otherwise since.
DocumentsInv ==
    /\ VerificationTypeOK
    /\ \A row \in Row \cup {NoRow} : Read(row) => row.docs \subseteq sent
    /\ verification = Reviewing /\ ~decided => sent = Docs
    /\ sent = Docs /\ ~decided /\ ~misread =>
          \A row \in Row : Read(row) /\ row.docs = Docs /\ row.status = Reviewing
                           => verification = Reviewing
    /\ sent = Docs /\ ~decided /\ ~misread /\ ~cut => verification = Reviewing \/ Judging

LEMMA RestingType ==
    Resting \in [do : SenderSteps, doc : Docs, row : Row \cup {NoRow}]
  BY VerificationAssumption DEF Resting, AnyDoc, SenderSteps

\* What a request goes on with keeps its type.
LEMMA SenderTypes ==
    ASSUME VerificationTypeOK, NEW s \in Senders, NEW step \in SenderSteps, NEW d \in Docs,
           NEW row \in Row \cup {NoRow}
    PROVE  /\ [sender EXCEPT ![s].do = step, ![s].doc = d]
                 \in [Senders -> [do : SenderSteps, doc : Docs, row : Row \cup {NoRow}]]
           /\ SenderHas(s, step, row) =>
                 /\ sender' \in [Senders -> [do : SenderSteps, doc : Docs, row : Row \cup {NoRow}]]
                 /\ sender'[s].do = step /\ sender'[s].row = row
                 /\ \A t \in Senders \ {s} : sender'[t] = sender[t]
  <1>1. sender[s] \in [do : SenderSteps, doc : Docs, row : Row \cup {NoRow}]
    BY DEF VerificationTypeOK
  <1>2. [sender[s] EXCEPT !.do = step, !.doc = d]
        \in [do : SenderSteps, doc : Docs, row : Row \cup {NoRow}]
    BY <1>1
  <1>3. [sender[s] EXCEPT !.do = step, !.row = row]
        \in [do : SenderSteps, doc : Docs, row : Row \cup {NoRow}]
    BY <1>1
  <1>4. [sender EXCEPT ![s].do = step, ![s].doc = d]
        = [sender EXCEPT ![s] = [sender[s] EXCEPT !.do = step, !.doc = d]]
    BY DEF VerificationTypeOK
  <1>5. [sender EXCEPT ![s].do = step, ![s].row = row]
        = [sender EXCEPT ![s] = [sender[s] EXCEPT !.do = step, !.row = row]]
    BY DEF VerificationTypeOK
  <1>6. [sender[s] EXCEPT !.do = step, !.row = row].do = step
        /\ [sender[s] EXCEPT !.do = step, !.row = row].row = row
    BY <1>1
  <1>. QED
    BY <1>2, <1>3, <1>4, <1>5, <1>6 DEF SenderHas, VerificationTypeOK

LEMMA DocumentsInit == VerificationInit => DocumentsInv
  <1>. SUFFICES ASSUME VerificationInit
                PROVE  DocumentsInv
    OBVIOUS
  <1>1. VerificationTypeOK
    BY RestingType DEF VerificationInit, VerificationTypeOK, VerificationStatuses
  <1>2. \A row : Read(row) => row = NoRow
    BY DEF VerificationInit, Read, Resting
  <1>3. sent # Docs /\ verification # Reviewing
    BY VerificationAssumption DEF VerificationInit, Reviewing
  <1>. QED
    BY <1>1, <1>2, <1>3 DEF DocumentsInv, NoRow

\* A step that keeps documents and status, and reads nothing that is not there.
LEMMA DocumentsQuiet ==
    ASSUME DocumentsInv, VerificationTypeOK', UNCHANGED <<sent, verification, decided, misread>>,
           \A row \in Row \cup {NoRow} : Read(row)' => Read(row) \/ row = NoRow \/ row = Current,
           ~cut' => ~cut /\ (Judging => Judging')
    PROVE  DocumentsInv'
  <1>1. Current.docs = sent /\ Current.status = verification /\ NoRow.docs = {}
    BY DEF Current, NoRow
  <1>2. \A row \in Row \cup {NoRow} : Read(row)' => row.docs \subseteq sent
    BY <1>1 DEF DocumentsInv
  <1>3. \A row \in Row : row # NoRow
    BY DEF Row, NoRow, VerificationStatuses, Collecting, Reviewing
  <1>4. sent = Docs /\ ~decided /\ ~misread =>
          \A row \in Row : Read(row)' /\ row.docs = Docs /\ row.status = Reviewing
                           => verification = Reviewing
    BY <1>1, <1>3 DEF DocumentsInv
  <1>. QED
    BY <1>2, <1>4 DEF DocumentsInv

LEMMA DocumentsStep == DocumentsInv /\ [VerificationNext]_verificationVars => DocumentsInv'
  <1>. SUFFICES ASSUME DocumentsInv, [VerificationNext]_verificationVars
                PROVE  DocumentsInv'
    OBVIOUS
  <1>0. Current \in Row
    BY DEF Current, Row, DocumentsInv, VerificationTypeOK
  <1>d. PICK someDoc \in Docs : TRUE
    BY VerificationAssumption
  <1>h. ASSUME NEW s \in Senders, NEW step \in SenderSteps, NEW row \in Row \cup {NoRow},
               SenderHas(s, step, row)
        PROVE  /\ sender' \in [Senders -> [do : SenderSteps, doc : Docs, row : Row \cup {NoRow}]]
               /\ sender'[s].do = step
               /\ \A t \in Senders \ {s} : sender'[t] = sender[t]
    BY <1>d, <1>h, SenderTypes DEF DocumentsInv
  <1>g. ASSUME NEW s \in Senders, NEW step \in SenderSteps, SenderGoes(s, step)
        PROVE  /\ sender' \in [Senders -> [do : SenderSteps, doc : Docs, row : Row \cup {NoRow}]]
               /\ sender'[s].do = step /\ sender'[s].row = sender[s].row
               /\ \A t \in Senders \ {s} : sender'[t] = sender[t]
    BY <1>g DEF SenderGoes, DocumentsInv, VerificationTypeOK
  <1>. USE DEF VerificationTypeOK, SenderSteps
  <1>1. ASSUME NEW s \in Senders, SendBegins(s)
        PROVE  DocumentsInv'
    <2>1. PICK d \in Docs, step \in {"find", "visit"} :
             sender' = [sender EXCEPT ![s].do = step, ![s].doc = d]
      BY <1>1 DEF SendBegins
    <2>2. VerificationTypeOK'
      <3>1. sender' \in [Senders -> [do : SenderSteps, doc : Docs, row : Row \cup {NoRow}]]
        BY <2>1, <1>0, SenderTypes DEF DocumentsInv
      <3>. QED
        BY <1>1, <3>1 DEF SendBegins, DocumentsInv
    <2>3. \A row : Read(row)' => Read(row)
      BY <1>1, <2>1 DEF SendBegins, DocumentsInv, Read
    <2>4. Judging => Judging'
      BY <1>1, <2>1 DEF SendBegins, DocumentsInv, Judging, Resting
    <2>. QED
      BY <1>1, <2>2, <2>3, <2>4, DocumentsQuiet DEF SendBegins
  <1>2. ASSUME NEW s \in Senders, FindOne(s)
        PROVE  DocumentsInv'
    <2>1. \/ Rests(s) /\ sender[s].do = "visit"
          \/ \E step \in SenderSteps, row \in {cachedRow, Current} :
                /\ SenderHas(s, step, row) /\ row \in Row \cup {NoRow}
                /\ sender[s].do = "check" => step \in {"decide", "refill"}
                /\ sender[s].do \in {"check", "find", "visit"}
      BY <1>2, <1>0 DEF FindOne, AfterHit, AfterMiss, DocumentsInv
    <2>2. VerificationTypeOK'
      <3>1. sender' \in [Senders -> [do : SenderSteps, doc : Docs, row : Row \cup {NoRow}]]
        <4>1. CASE Rests(s)
          BY <4>1, RestingType DEF Rests, DocumentsInv
        <4>2. ASSUME NEW step \in SenderSteps, NEW row \in Row \cup {NoRow}, SenderHas(s, step, row)
              PROVE  sender' \in [Senders -> [do : SenderSteps, doc : Docs, row : Row \cup {NoRow}]]
          BY <4>2, <1>h
        <4>. QED
          BY <2>1, <4>1, <4>2
      <3>. QED
        BY <1>2, <3>1 DEF FindOne, DocumentsInv
    <2>3. \A row \in Row \cup {NoRow} : Read(row)' => Read(row) \/ row = NoRow \/ row = Current
      BY <1>2, <2>1 DEF FindOne, DocumentsInv, Rests, SenderHas, Read, Resting
    <2>4. Judging => Judging'
      <3>1. CASE Rests(s) /\ sender[s].do = "visit"
        BY <3>1 DEF Rests, Judging, DocumentsInv
      <3>2. ASSUME NEW step \in SenderSteps, NEW row \in Row \cup {NoRow}, SenderHas(s, step, row),
                   sender[s].do = "check" => step \in {"decide", "refill"},
                   sender[s].do \in {"check", "find", "visit"}
            PROVE  Judging => Judging'
        <4>1. sender'[s].do = step /\ \A t \in Senders \ {s} : sender'[t] = sender[t]
          BY <3>2, <1>h
        <4>. QED
          BY <3>2, <4>1 DEF Judging
      <3>. QED
        BY <2>1, <3>1, <3>2
    <2>. QED
      BY <1>2, <2>2, <2>3, <2>4, DocumentsQuiet DEF FindOne
  <1>3. ASSUME NEW s \in Senders, FillCache(s)
        PROVE  DocumentsInv'
    <2>1. \/ Rests(s) /\ sender[s].do = "leave"
          \/ \E step \in {"save", "decide"} :
                /\ SenderGoes(s, step)
                /\ sender[s].do = "refill" => step = "decide"
                /\ sender[s].do \in {"fill", "refill"}
      BY <1>3 DEF FillCache, AfterFill
    <2>2. VerificationTypeOK'
      <3>1. sender' \in [Senders -> [do : SenderSteps, doc : Docs, row : Row \cup {NoRow}]]
        <4>1. CASE Rests(s)
          BY <4>1, RestingType DEF Rests, DocumentsInv
        <4>2. CASE ~Rests(s)
          <5>1. PICK step \in {"save", "decide"} : SenderGoes(s, step)
            BY <2>1, <4>2
          <5>. QED
            BY <5>1, <1>g
        <4>. QED
          BY <4>1, <4>2
      <3>2. cachedRow' \in Row \cup {NoRow}
        BY <1>3 DEF FillCache, DocumentsInv
      <3>. QED
        BY <1>3, <3>1, <3>2 DEF FillCache, DocumentsInv
    <2>3. \A row \in Row \cup {NoRow} : Read(row)' => Read(row) \/ row = NoRow \/ row = Current
      BY <1>3, <2>1 DEF FillCache, DocumentsInv, Rests, SenderGoes, Read, Resting
    <2>4. Judging => Judging'
      <3>1. CASE Rests(s) /\ sender[s].do = "leave"
        BY <3>1 DEF Rests, Judging, DocumentsInv
      <3>2. ASSUME NEW step \in {"save", "decide"}, SenderGoes(s, step),
                   sender[s].do = "refill" => step = "decide",
                   sender[s].do \in {"fill", "refill"}
            PROVE  Judging => Judging'
        <4>1. sender'[s].do = step /\ \A t \in Senders \ {s} : sender'[t] = sender[t]
          BY <3>2, <1>g
        <4>. QED
          BY <3>2, <4>1 DEF Judging
      <3>3. CASE ~(Rests(s) /\ sender[s].do = "leave")
        <4>1. PICK step \in {"save", "decide"} :
                 /\ SenderGoes(s, step)
                 /\ sender[s].do = "refill" => step = "decide"
                 /\ sender[s].do \in {"fill", "refill"}
          BY <2>1, <3>3
        <4>. QED
          BY <4>1, <3>2
      <3>. QED
        BY <3>1, <3>3
    <2>. QED
      BY <1>3, <2>2, <2>3, <2>4, DocumentsQuiet DEF FillCache
  <1>4. ASSUME NEW s \in Senders, SaveUrl(s)
        PROVE  DocumentsInv'
    <2>1. VerificationTypeOK'
      BY <1>4 DEF SaveUrl, SenderGoes, DocumentsInv
    <2>2. \A row : Read(row)' => Read(row)
      BY <1>4 DEF SaveUrl, SenderGoes, DocumentsInv, Read
    <2>3. sender'[s].do = "check"
      BY <1>4 DEF SaveUrl, SenderGoes, DocumentsInv
    <2>4. Judging'
      BY <2>3 DEF Judging
    <2>5. sent \subseteq sent' /\ UNCHANGED <<verification, decided, misread>>
      BY <1>4 DEF SaveUrl
    <2>6. \A row \in Row \cup {NoRow} : Read(row)' => row.docs \subseteq sent
      BY <2>2 DEF DocumentsInv
    <2>7. sent' = Docs /\ ~decided /\ ~misread =>
            \A row \in Row : Read(row)' /\ row.docs = Docs /\ row.status = Reviewing
                             => verification = Reviewing
      BY <2>1, <2>2, <2>5, <2>6 DEF DocumentsInv
    <2>8. verification = Reviewing /\ ~decided => sent' = Docs
      BY <2>1, <2>5 DEF DocumentsInv
    <2>. QED
      BY <2>1, <2>4, <2>5, <2>6, <2>7, <2>8 DEF DocumentsInv
  <1>5. ASSUME NEW s \in Senders, DecideStatus(s)
        PROVE  DocumentsInv'
    <2>. DEFINE row == sender[s].row
    <2>0. StatusFor(row) \in {Reviewing, Collecting}
      BY DEF StatusFor
    <2>1. VerificationTypeOK'
      BY <1>5, <2>0, RestingType DEF DecideStatus, Rests, DocumentsInv, VerificationStatuses
    <2>2. \A r \in Row \cup {NoRow} : Read(r)' => Read(r) \/ r = NoRow
      BY <1>5 DEF DecideStatus, Rests, DocumentsInv, Read, Resting
    <2>3. row \in Row \cup {NoRow} /\ Read(row) /\ row.docs \subseteq sent
      BY DEF DocumentsInv, Read
    <2>4. NoRow.docs = {} /\ NoRow.status = "none"
          /\ \A r \in Row : r.docs \in SUBSET Docs /\ r # NoRow
      BY DEF NoRow, Row, VerificationStatuses, Collecting, Reviewing
    <2>5. \A r \in Row \cup {NoRow} : Read(r)' => r.docs \subseteq sent
      BY <2>2, <2>4 DEF DocumentsInv
    <2>6. StatusFor(row) = Reviewing <=> row.docs = Docs
      BY DEF StatusFor, AllSent, Reviewing, Collecting
    <2>7. sent' = sent /\ (~misread' => ~misread /\ row.docs = sent) /\ cut' = cut
      BY <1>5 DEF DecideStatus
    <2>8. CASE row.status # StatusFor(row)
      <3>1. verification' = StatusFor(row) /\ decided' = FALSE
        BY <1>5, <2>8 DEF DecideStatus
      <3>2. verification' = Reviewing => sent' = Docs
        BY <3>1, <2>3, <2>6, <2>7 DEF DocumentsInv
      <3>3. sent' = Docs /\ ~misread' => verification' = Reviewing
        BY <3>1, <2>6, <2>7
      <3>. QED
        BY <2>1, <2>5, <2>7, <3>2, <3>3 DEF DocumentsInv
    <2>9. CASE row.status = StatusFor(row)
      <3>1. UNCHANGED <<verification, decided>>
        BY <1>5, <2>9 DEF DecideStatus
      <3>2. row # NoRow
        BY <2>0, <2>4, <2>9 DEF Reviewing, Collecting
      <3>3. sent' = Docs /\ ~misread' /\ ~decided => verification = Reviewing
        BY <2>3, <2>6, <2>7, <2>9, <3>2 DEF DocumentsInv
      <3>4. verification = Reviewing /\ ~decided => sent' = Docs
        BY <2>7 DEF DocumentsInv
      <3>. QED
        BY <2>1, <2>5, <2>7, <3>1, <3>3, <3>4 DEF DocumentsInv
    <2>. QED
      BY <2>8, <2>9
  <1>6. ASSUME NEW s \in Senders, SendEnds(s)
        PROVE  DocumentsInv'
    <2>1. VerificationTypeOK'
      BY <1>6, RestingType DEF SendEnds, Rests, DocumentsInv
    <2>2. \A row \in Row \cup {NoRow} : Read(row)' => Read(row) \/ row = NoRow \/ row = Current
      BY <1>6 DEF SendEnds, Rests, DocumentsInv, Read, Resting
    <2>3. ~cut' => ~cut /\ (Judging => Judging')
      BY <1>6 DEF SendEnds, Rests, DocumentsInv, Judging
    <2>. QED
      BY <1>6, <2>1, <2>2, <2>3, DocumentsQuiet DEF SendEnds
  <1>7. ASSUME NEW status \in ByHand, SetByHand(status)
        PROVE  DocumentsInv'
    BY <1>7, VerificationAssumption DEF SetByHand, DocumentsInv, Read, Judging
  <1>8. CASE CacheEnds
    <2>1. VerificationTypeOK'
      BY <1>8 DEF CacheEnds, DocumentsInv
    <2>. QED
      BY <1>8, <2>1, DocumentsQuiet DEF CacheEnds, Read, Judging
  <1>9. CASE UNCHANGED verificationVars
    BY <1>9 DEF verificationVars, DocumentsInv, Read, Judging
  <1>. QED
    BY <1>1, <1>2, <1>3, <1>4, <1>5, <1>6, <1>7, <1>8, <1>9 DEF VerificationNext

\* VerificationService: whatever the cache answers and however uploads overlap, review
\* comes with all documents, and all documents with review.
THEOREM ReviewWithDocuments == VerificationSpec => []ReviewFollowsDocuments
  <1>1. DocumentsInv => ReviewFollowsDocuments
    BY DEF DocumentsInv, ReviewFollowsDocuments, Judging
  <1>. QED
    BY <1>1, DocumentsInit, DocumentsStep, PTL DEF VerificationSpec
-----------------------------------------------------------------------------
(***************************************************************************)
(* Reviews.                                                                *)
(***************************************************************************)

\* A request that has inserted its review is the only one for it; its points are still
\* to come, or are there.  One that is about to give the points of the first review saw
\* no other review, so nobody has them and nobody else is about to.
Written(p) == post[p].do \in {"count", "first", "later", "track"}
Credited   == firsts \cup laters

PostInv ==
    /\ ReviewsTypeOK
    /\ \A p \in Posts : Written(p) =>
          /\ post[p].stay \in reviewed
          /\ \A q \in Posts \ {p} : Written(q) => post[q].stay # post[p].stay
          /\ post[p].do = "track" <=> post[p].stay \in Credited
    /\ firsts \cap laters = {} /\ Credited \subseteq reviewed /\ counted \subseteq Credited
    /\ \A b, c \in firsts : b = c
    /\ \A p \in Posts : post[p].do = "first" =>
          firsts = {} /\ \A q \in Posts \ {p} : post[q].do # "first"

LEMMA NoPostType ==
    NoPost \in [do : {"idle", "insert", "count", "first", "later", "track"},
               stay : Stays, recent : Nat]
  BY ReviewsAssumption DEF NoPost

LEMMA PostInit == ReviewsInit => PostInv
  <1>. SUFFICES ASSUME ReviewsInit
                PROVE  PostInv
    OBVIOUS
  <1>1. ReviewsTypeOK
    BY NoPostType DEF ReviewsInit, ReviewsTypeOK
  <1>2. \A p \in Posts : post[p].do = "idle"
    BY DEF ReviewsInit, NoPost
  <1>. QED
    BY <1>1, <1>2 DEF ReviewsInit, PostInv, Written, Credited

\* A request goes on, or ends.
LEMMA PostMoves ==
    ASSUME ReviewsTypeOK, NEW p \in Posts
    PROVE  /\ \A step \in {"count", "first", "later", "track"} : PostGoes(p, step) =>
                 /\ post' \in [Posts -> [do : {"idle", "insert", "count", "first", "later", "track"},
                                         stay : Stays, recent : Nat]]
                 /\ post'[p].do = step /\ post'[p].stay = post[p].stay
                 /\ \A q \in Posts \ {p} : post'[q] = post[q]
           /\ PostEnds(p) =>
                 /\ post' \in [Posts -> [do : {"idle", "insert", "count", "first", "later", "track"},
                                         stay : Stays, recent : Nat]]
                 /\ post'[p].do = "idle"
                 /\ \A q \in Posts \ {p} : post'[q] = post[q]
           /\ post[p].stay \in Stays
  BY NoPostType DEF ReviewsTypeOK, PostGoes, PostEnds, NoPost

LEMMA PostEnding ==
    ASSUME PostInv, NEW p \in Posts, PostEnds(p),
           UNCHANGED <<refunded, reviewed, firsts, laters, counted>>
    PROVE  PostInv'
  BY PostMoves DEF PostInv, ReviewsTypeOK, Written, Credited

LEMMA PostStep == PostInv /\ [ReviewsNext]_reviewVars => PostInv'
  <1>. SUFFICES ASSUME PostInv, [ReviewsNext]_reviewVars
                PROVE  PostInv'
    OBVIOUS
  <1>. USE DEF Written, Credited
  <1>0. ReviewsTypeOK /\ IsFiniteSet(reviewed) /\ Cardinality(reviewed) \in Nat
    BY ReviewsAssumption, FS_Subset, FS_CardinalityType DEF PostInv, ReviewsTypeOK
  <1>1. ASSUME NEW p \in Posts, NEW b \in Stays, SubmitRead(p, b)
        PROVE  PostInv'
    <2>1. /\ post'[p].do = "insert" /\ \A q \in Posts \ {p} : post'[q] = post[q]
          /\ ReviewsTypeOK'
      BY <1>0, <1>1 DEF SubmitRead, ReviewsTypeOK
    <2>. QED
      BY <1>1, <2>1 DEF SubmitRead, PostInv
  <1>2. ASSUME NEW p \in Posts, SubmitCommit(p)
        PROVE  PostInv'
    <2>1. CASE post[p].stay \in reviewed
      BY <1>2, <2>1, PostEnding DEF SubmitCommit
    <2>2. CASE post[p].stay \notin reviewed
      <3>1. /\ reviewed' = reviewed \cup {post[p].stay}
            /\ UNCHANGED <<refunded, firsts, laters, counted>>
            /\ post'[p].do = "count" /\ post'[p].stay = post[p].stay
            /\ \A q \in Posts \ {p} : post'[q] = post[q]
            /\ ReviewsTypeOK'
        BY <1>0, <1>2, <2>2, PostMoves DEF SubmitCommit, ReviewsTypeOK
      <3>. QED
        BY <2>2, <3>1 DEF PostInv
    <2>. QED
      BY <2>1, <2>2
  <1>3. ASSUME NEW p \in Posts, CountReviews(p)
        PROVE  PostInv'
    <2>1. PICK step \in {"first", "later"} :
             PostGoes(p, step) /\ (step = "first" => Cardinality(reviewed) = 1)
      BY <1>3 DEF CountReviews, ReviewsMade
    <2>2. /\ post[p].do = "count" /\ UNCHANGED <<refunded, reviewed, firsts, laters, counted>>
          /\ post'[p].do = step /\ post'[p].stay = post[p].stay
          /\ \A q \in Posts \ {p} : post'[q] = post[q]
          /\ ReviewsTypeOK'
      BY <1>0, <1>3, <2>1, PostMoves DEF CountReviews, ReviewsTypeOK
    <2>3. CASE step = "first"
      <3>1. \A b \in reviewed : b = post[p].stay
        <4>1. PICK x : reviewed = {x}
          BY <1>0, <2>1, <2>3, FS_Singleton
        <4>. QED
          BY <2>2, <4>1 DEF PostInv
      <3>2. firsts = {}
        BY <2>2, <3>1 DEF PostInv
      <3>3. \A q \in Posts \ {p} : post[q].do # "first"
        BY <2>2, <3>1 DEF PostInv
      <3>. QED
        BY <2>2, <2>3, <3>2, <3>3 DEF PostInv
    <2>4. CASE step = "later"
      BY <2>2, <2>4 DEF PostInv
    <2>. QED
      BY <2>3, <2>4
  <1>4. ASSUME NEW p \in Posts, CreditReview(p)
        PROVE  PostInv'
    <2>1. /\ post'[p].do = "track" /\ post'[p].stay = post[p].stay
          /\ \A q \in Posts \ {p} : post'[q] = post[q]
          /\ UNCHANGED <<refunded, reviewed, counted>> /\ ReviewsTypeOK'
      BY <1>0, <1>4, PostMoves DEF CreditReview, ReviewsTypeOK
    <2>2. CASE post[p].do = "first" /\ firsts' = firsts \cup {post[p].stay} /\ UNCHANGED laters
      BY <2>1, <2>2 DEF PostInv
    <2>3. CASE post[p].do = "later" /\ laters' = laters \cup {post[p].stay} /\ UNCHANGED firsts
      BY <2>1, <2>3 DEF PostInv
    <2>. QED
      BY <1>4, <2>2, <2>3 DEF CreditReview
  <1>5. ASSUME NEW p \in Posts, TrackReview(p)
        PROVE  PostInv'
    <2>1. /\ post'[p].do = "idle" /\ \A q \in Posts \ {p} : post'[q] = post[q]
          /\ UNCHANGED <<refunded, reviewed, firsts, laters>> /\ ReviewsTypeOK'
      BY <1>0, <1>5, PostMoves DEF TrackReview, ReviewsTypeOK
    <2>2. counted' \subseteq Credited
      BY <1>5 DEF TrackReview, PostInv
    <2>. QED
      BY <2>1, <2>2 DEF PostInv
  <1>6. ASSUME NEW p \in Posts, PostFails(p)
        PROVE  PostInv'
    BY <1>6, PostEnding DEF PostFails
  <1>7. ASSUME NEW b \in Stays, StayRefunded(b)
        PROVE  PostInv'
    BY <1>7 DEF StayRefunded, PostInv, ReviewsTypeOK
  <1>8. CASE UNCHANGED reviewVars
    BY <1>8 DEF reviewVars, PostInv, ReviewsTypeOK
  <1>. QED
    BY <1>1, <1>2, <1>3, <1>4, <1>5, <1>6, <1>7, <1>8 DEF ReviewsNext

\* submitReview: the points of the first review are given once, each review earns once.
THEOREM FirstReviewAlwaysOnce == ReviewsSpec => []FirstReviewOnce
  <1>1. PostInv => FirstReviewOnce
    <2>. SUFFICES ASSUME PostInv
                  PROVE  Cardinality(firsts) <= 1
      BY DEF PostInv, FirstReviewOnce, Credited
    <2>1. firsts = {} \/ \E b : firsts = {b}
      BY DEF PostInv
    <2>2. IsFiniteSet(firsts)
      BY ReviewsAssumption, FS_Subset DEF PostInv, ReviewsTypeOK
    <2>3. Cardinality(firsts) \in {0, 1}
      BY <2>1, <2>2, FS_EmptySet, FS_Singleton
    <2>. QED
      BY <2>3
  <1>. QED
    BY <1>1, PostInit, PostStep, PTL DEF ReviewsSpec
-----------------------------------------------------------------------------
(***************************************************************************)
(* Offers.                                                                 *)
(***************************************************************************)

\* The one update in flight was checked against the row it is going to write.
OfferInv ==
    /\ OffersTypeOK
    /\ offer = NoOffer => Drafting = {}
    /\ ~clashed => /\ \A e, f \in Drafting : e = f
                   /\ offer \in Offer => /\ offer.target # "GENERAL" => offer.id
                                         /\ \A e \in Drafting : TargetIsNamed(draft[e])

LEMMA OfferInit == OffersInit => OfferInv
  <1>. SUFFICES ASSUME OffersInit
                PROVE  OfferInv
    OBVIOUS
  <1>1. NoOffer \notin Offer
    BY DEF NoOffer, Offer, Targets
  <1>2. Drafting = {} /\ draft \in [Editors -> Requested \cup {NoDraft}]
    BY DEF OffersInit, Drafting
  <1>. QED
    BY <1>1, <1>2 DEF OffersInit, OfferInv, OffersTypeOK

LEMMA OfferStep == OfferInv /\ [OffersNext]_offerVars => OfferInv'
  <1>. SUFFICES ASSUME OfferInv, [OffersNext]_offerVars
                PROVE  OfferInv'
    OBVIOUS
  <1>. USE DEF OffersTypeOK, Drafting
  <1>0. NoOffer \notin Offer /\ Taken \notin Offer /\ Taken # NoOffer /\ NoDraft \notin Requested
    BY DEF NoOffer, Taken, Offer, NoDraft, Requested, Targets, Absent
  <1>1. CASE CreateOffer
    <2>1. offer' \in Offer /\ (offer'.target # "GENERAL" => offer'.id)
      BY <1>1 DEF CreateOffer, Offer, Requested, Absent, Targets
    <2>. QED
      BY <1>0, <1>1, <2>1 DEF CreateOffer, OfferInv
  <1>2. CASE RemoveOffer
    BY <1>0, <1>2 DEF RemoveOffer, OfferInv
  <1>3. ASSUME NEW e \in Editors, UpdateRead(e)
        PROVE  OfferInv'
    <2>1. PICK r \in Requested : TargetIsNamed(r) /\ draft' = [draft EXCEPT ![e] = r]
      BY <1>3 DEF UpdateRead
    <2>2. /\ offer \in Offer /\ offer' = offer /\ rewrites' = rewrites + 1
          /\ draft[e] = NoDraft /\ clashed' = (clashed \/ Drafting # {})
      BY <1>3 DEF UpdateRead
    <2>3. OffersTypeOK'
      BY <2>1, <2>2 DEF OfferInv
    <2>4. ~clashed' => ~clashed /\ Drafting' = {e} /\ draft'[e] = r
      BY <1>0, <2>1, <2>2 DEF OfferInv
    <2>. QED
      BY <1>0, <2>1, <2>2, <2>3, <2>4 DEF OfferInv, TargetIsNamed
  <1>4. ASSUME NEW e \in Editors, UpdateWrite(e)
        PROVE  OfferInv'
    <2>. DEFINE r == draft[e]
    <2>1. r \in Requested /\ offer \in Offer
      BY <1>4 DEF UpdateWrite, OfferInv
    <2>2. offer' = [target |-> TargetAfter(r), id |-> IdAfter(r)] /\ offer' \in Offer
      BY <1>4, <2>1 DEF UpdateWrite, TargetAfter, IdAfter, Requested, Offer, Absent, Targets
    <2>3. ~clashed => (offer'.target # "GENERAL" => offer'.id)
      <3>1. SUFFICES ASSUME ~clashed, TargetAfter(r) # "GENERAL"
                     PROVE  IdAfter(r)
        BY <2>2
      <3>2. TargetIsNamed(r) /\ (offer.target # "GENERAL" => offer.id)
        BY <1>4, <2>1, <3>1 DEF OfferInv, UpdateWrite
      <3>. QED
        BY <2>1, <3>1, <3>2 DEF TargetAfter, IdAfter, TargetIsNamed, Requested, Absent, Targets, Offer
    <2>4. /\ draft' = [draft EXCEPT ![e] = NoDraft] /\ UNCHANGED <<rewrites, clashed>>
          /\ ~clashed => Drafting' = {}
      BY <1>4 DEF UpdateWrite, OfferInv
    <2>. QED
      BY <1>0, <2>2, <2>3, <2>4 DEF OfferInv
  <1>5. ASSUME NEW e \in Editors, UpdateFails(e)
        PROVE  OfferInv'
    BY <1>0, <1>5 DEF UpdateFails, OfferInv, TargetIsNamed
  <1>6. CASE UNCHANGED offerVars
    BY <1>6 DEF offerVars, OfferInv, TargetIsNamed
  <1>. QED
    BY <1>1, <1>2, <1>3, <1>4, <1>5, <1>6 DEF OffersNext

\* OffersService.update: an offer that is not for everybody keeps its target id.
THEOREM TargetAlwaysHasId == OffersSpec => []TargetHasId
  <1>1. OfferInv => TargetHasId
    BY DEF OfferInv, TargetHasId
  <1>. QED
    BY <1>1, OfferInit, OfferStep, PTL DEF OffersSpec

(***************************************************************************)
(* Registration.                                                           *)
(***************************************************************************)

\* What a call has left behind by each of its steps, and the keys of the accounts.
Named   == {"profile", "address", "invite", "terms", "consents", "login", "created"}
Housed  == {"invite", "terms", "consents", "login", "created"}
Agreed  == {"login", "created"}

CallsLeave(s) ==
    /\ signup[s] \in Named => s \in users
    /\ signup[s] \in Housed => s \in addresses \cup removed
    /\ signup[s] = "consents" => Documents \subseteq consents[s] \cup recording[s]
    /\ signup[s] \in Agreed => consents[s] = Documents

OneAccountEach ==
    \A s, t \in Signups : s # t =>
       /\ {s, t} \subseteq users \ withdrawn => form[s].email # form[t].email
       /\ {s, t} \subseteq profiles /\ form[s].role = form[t].role => form[s].cpf # form[t].cpf

AccountInv ==
    /\ RegistrationTypeOK
    /\ \A s \in Signups : CallsLeave(s)
    /\ \A s \in users : IsClient(s) => s \in addresses
    /\ OneAccountEach

LEMMA AccountInit == RegistrationInit => AccountInv
  BY DEF RegistrationInit, AccountInv, RegistrationTypeOK, CallsLeave, OneAccountEach, SignupSteps,
         Named, Housed, Agreed

\* A call that is refused or fails keeps what it has written, and owes nothing.
LEMMA GivingUp ==
  ASSUME AccountInv, NEW s \in Signups, NEW end \in {"refused", "failed"}, SignupGoes(s, end),
         UNCHANGED <<form, users, withdrawn, profiles, addresses, consents, removed>>,
         recording' \in [Signups -> SUBSET Documents],
         \A r \in Signups \ {s} : recording'[r] = recording[r]
  PROVE  AccountInv'
  <1>1. RegistrationTypeOK'
    BY DEF AccountInv, RegistrationTypeOK, SignupGoes, Answers
  <1>2. \A r \in Signups : CallsLeave(r)'
    BY DEF AccountInv, RegistrationTypeOK, CallsLeave, SignupGoes, Named, Housed, Agreed
  <1>. QED
    BY <1>1, <1>2 DEF AccountInv, OneAccountEach, IsClient

LEMMA AccountStep == AccountInv /\ [RegistrationNext]_registrationVars => AccountInv'
  <1>. SUFFICES ASSUME AccountInv, [RegistrationNext]_registrationVars
                PROVE  AccountInv'
    OBVIOUS
  <1>. USE DEF Named, Housed, Agreed, SignupSteps, Answers
  <1>1. ASSUME NEW s \in Signups, LookUp(s)
        PROVE  AccountInv'
    <2>1. RegistrationTypeOK'
      BY <1>1 DEF LookUp, SignupGoes, AccountInv, RegistrationTypeOK
    <2>2. \A r \in Signups : CallsLeave(r)'
      BY <1>1 DEF LookUp, SignupGoes, AccountInv, RegistrationTypeOK, CallsLeave
    <2>. QED
      BY <1>1, <2>1, <2>2 DEF LookUp, AccountInv, OneAccountEach, IsClient
  <1>2. ASSUME NEW s \in Signups, InsertClient(s)
        PROVE  AccountInv'
    <2>1. CASE EmailFree(s) /\ CpfFree(s)
      <3>1. RegistrationTypeOK'
        BY <1>2, <2>1 DEF InsertClient, SignupGoes, AccountInv, RegistrationTypeOK
      <3>2. \A r \in Signups : CallsLeave(r)'
        BY <1>2, <2>1 DEF InsertClient, SignupGoes, AccountInv, RegistrationTypeOK, CallsLeave
      <3>3. OneAccountEach'
        BY <1>2, <2>1 DEF InsertClient, AccountInv, OneAccountEach, EmailFree, CpfFree
      <3>. QED
        BY <1>2, <2>1, <3>1, <3>2, <3>3 DEF InsertClient, AccountInv, IsClient
    <2>2. CASE ~(EmailFree(s) /\ CpfFree(s))
      BY <1>2, <2>2, GivingUp DEF InsertClient, AccountInv, RegistrationTypeOK
    <2>. QED
      BY <2>1, <2>2
  <1>3. ASSUME NEW s \in Signups, InsertUser(s)
        PROVE  AccountInv'
    <2>1. CASE EmailFree(s)
      <3>1. RegistrationTypeOK'
        BY <1>3, <2>1 DEF InsertUser, SignupGoes, AccountInv, RegistrationTypeOK
      <3>2. \A r \in Signups : CallsLeave(r)'
        BY <1>3, <2>1 DEF InsertUser, SignupGoes, AccountInv, RegistrationTypeOK, CallsLeave
      <3>3. OneAccountEach'
        BY <1>3, <2>1 DEF InsertUser, AccountInv, OneAccountEach, EmailFree
      <3>. QED
        BY <1>3, <2>1, <3>1, <3>2, <3>3 DEF InsertUser, AccountInv, IsClient
    <2>2. CASE ~EmailFree(s)
      BY <1>3, <2>2, GivingUp DEF InsertUser, AccountInv, RegistrationTypeOK
    <2>. QED
      BY <2>1, <2>2
  <1>4. ASSUME NEW s \in Signups, InsertProvider(s)
        PROVE  AccountInv'
    <2>1. CASE CpfFree(s)
      <3>1. RegistrationTypeOK'
        BY <1>4, <2>1 DEF InsertProvider, SignupGoes, AccountInv, RegistrationTypeOK
      <3>2. \A r \in Signups : CallsLeave(r)'
        BY <1>4, <2>1 DEF InsertProvider, SignupGoes, AccountInv, RegistrationTypeOK, CallsLeave
      <3>3. OneAccountEach'
        BY <1>4, <2>1 DEF InsertProvider, AccountInv, OneAccountEach, CpfFree
      <3>. QED
        BY <1>4, <2>1, <3>1, <3>2, <3>3 DEF InsertProvider, AccountInv, IsClient
    <2>2. CASE ~CpfFree(s)
      BY <1>4, <2>2, GivingUp DEF InsertProvider, AccountInv, RegistrationTypeOK
    <2>. QED
      BY <2>1, <2>2
  <1>5. ASSUME NEW s \in Signups, InsertAddress(s)
        PROVE  AccountInv'
    <2>1. CASE s \in profiles
      <3>1. RegistrationTypeOK'
        BY <1>5, <2>1 DEF InsertAddress, SignupGoes, AccountInv, RegistrationTypeOK
      <3>2. \A r \in Signups : CallsLeave(r)'
        BY <1>5, <2>1 DEF InsertAddress, SignupGoes, AccountInv, RegistrationTypeOK, CallsLeave
      <3>. QED
        BY <1>5, <2>1, <3>1, <3>2 DEF InsertAddress, AccountInv, OneAccountEach, IsClient
    <2>2. CASE s \notin profiles
      BY <1>5, <2>2, GivingUp DEF InsertAddress, AccountInv, RegistrationTypeOK
    <2>. QED
      BY <2>1, <2>2
  <1>6. ASSUME NEW s \in Signups, AcceptInvitation(s) \/ RecordTerms(s)
        PROVE  AccountInv'
    <2>1. RegistrationTypeOK'
      BY <1>6 DEF AcceptInvitation, RecordTerms, SignupGoes, AccountInv, RegistrationTypeOK, Documents
    <2>2. \A r \in Signups : CallsLeave(r)'
      BY <1>6 DEF AcceptInvitation, RecordTerms, SignupGoes, AccountInv, RegistrationTypeOK,
                  CallsLeave, Documents
    <2>. QED
      BY <1>6, <2>1, <2>2 DEF AcceptInvitation, RecordTerms, AccountInv, OneAccountEach, IsClient
  <1>7. ASSUME NEW s \in Signups, NEW d \in Documents, RecordConsent(s, d)
        PROVE  AccountInv'
    <2>1. RegistrationTypeOK'
      BY <1>7 DEF RecordConsent, AccountInv, RegistrationTypeOK
    <2>2. \A r \in Signups : CallsLeave(r)'
      BY <1>7 DEF RecordConsent, AccountInv, RegistrationTypeOK, CallsLeave
    <2>. QED
      BY <1>7, <2>1, <2>2 DEF RecordConsent, AccountInv, OneAccountEach, IsClient
  <1>8. ASSUME NEW s \in Signups, NEW d \in Documents, ConsentFails(s, d)
        PROVE  AccountInv'
    <2>1. /\ recording' \in [Signups -> SUBSET Documents]
          /\ \A r \in Signups \ {s} : recording'[r] = recording[r]
      BY <1>8 DEF ConsentFails, AccountInv, RegistrationTypeOK
    <2>. QED
      BY <1>8, <2>1, GivingUp DEF ConsentFails
  <1>9. ASSUME NEW s \in Signups, ConsentsRecorded(s) \/ AnswerSignup(s)
        PROVE  AccountInv'
    <2>1. RegistrationTypeOK'
      BY <1>9 DEF ConsentsRecorded, AnswerSignup, SignupGoes, AccountInv, RegistrationTypeOK
    <2>2. \A r \in Signups : CallsLeave(r)'
      BY <1>9 DEF ConsentsRecorded, AnswerSignup, SignupGoes, AllAnswered, AccountInv,
                  RegistrationTypeOK, CallsLeave
    <2>. QED
      BY <1>9, <2>1, <2>2 DEF ConsentsRecorded, AnswerSignup, AccountInv, OneAccountEach, IsClient
  <1>10. ASSUME NEW s \in Signups, SignupFails(s)
         PROVE  AccountInv'
    <2>1. /\ recording' \in [Signups -> SUBSET Documents]
          /\ \A r \in Signups \ {s} : recording'[r] = recording[r]
      BY <1>10 DEF SignupFails, AccountInv, RegistrationTypeOK
    <2>. QED
      BY <1>10, <2>1, GivingUp DEF SignupFails
  <1>11. ASSUME NEW s \in Signups, AcceptTerms(s)
         PROVE  AccountInv'
    <2>1. RegistrationTypeOK' /\ \A r \in Signups : CallsLeave(r)'
      BY <1>11 DEF AcceptTerms, AccountInv, RegistrationTypeOK, CallsLeave, Documents
    <2>. QED
      BY <1>11, <2>1 DEF AcceptTerms, AccountInv, OneAccountEach, IsClient
  <1>12. ASSUME NEW s \in Signups, Withdraw(s)
         PROVE  AccountInv'
    <2>1. RegistrationTypeOK' /\ \A r \in Signups : CallsLeave(r)'
      BY <1>12 DEF Withdraw, AccountInv, RegistrationTypeOK, CallsLeave
    <2>. QED
      BY <1>12, <2>1 DEF Withdraw, AccountInv, OneAccountEach, IsClient
  <1>13. ASSUME NEW s \in Signups, RemoveProvider(s)
         PROVE  AccountInv'
    <2>1. RegistrationTypeOK' /\ \A r \in Signups : CallsLeave(r)'
      BY <1>13 DEF RemoveProvider, AccountInv, RegistrationTypeOK, CallsLeave
    <2>. QED
      BY <1>13, <2>1 DEF RemoveProvider, AccountInv, OneAccountEach, IsClient
  <1>14. CASE UNCHANGED registrationVars
    BY <1>14 DEF registrationVars, AccountInv, RegistrationTypeOK, CallsLeave, OneAccountEach, IsClient
  <1>. QED
    BY <1>1, <1>2, <1>3, <1>4, <1>5, <1>6, <1>7, <1>8, <1>9, <1>10, <1>11, <1>12, <1>13, <1>14
       DEF RegistrationNext, Inserts, Consenting

\* AuthService.registerClient and registerProvider: an account that was answered with a
\* token is whole, a client never lacks its address, and e-mails and cpfs stay unique.
THEOREM AccountAlwaysComplete == RegistrationSpec => []AccountComplete
  <1>1. AccountInv => AccountComplete
    BY DEF AccountInv, AccountComplete, CallsLeave, OneAccountEach, Named, Housed, Agreed
  <1>. QED
    BY <1>1, AccountInit, AccountStep, PTL DEF RegistrationSpec
-----------------------------------------------------------------------------
(***************************************************************************)
(* All of them side by side.                                               *)
(***************************************************************************)

AccountsInv ==
    /\ RewardsInv /\ CouponInv /\ InviteInv /\ PostInv /\ SubscriptionInv
    /\ DocumentsInv /\ WeeklyInv /\ OfferInv /\ PricingInv /\ AccountInv

\* A step of one part leaves the others where they are.
LEMMA AccountsMove ==
    ASSUME [AccountsNext]_accountVars
    PROVE  /\ [RewardsNext]_<<pointVars, missionVars>> /\ [CouponsNext]_couponVars
           /\ [ReferralsNext]_referralVars /\ [ReviewsNext]_reviewVars
           /\ [SubscriptionsNext]_subscriptionVars /\ [VerificationNext]_verificationVars
           /\ [WeeklyNext]_weeklyVars /\ [OffersNext]_offerVars /\ [PricingNext]_priceVars
           /\ [RegistrationNext]_registrationVars
  <1>. USE DEF Rest, Still
  <1>1. CASE UNCHANGED accountVars
    BY <1>1 DEF accountVars
  <1>2. CASE part = "points" /\ PointsNext /\ Rest
    BY <1>2 DEF RewardsNext
  <1>3. CASE part = "missions" /\ MissionsNext /\ Rest
    BY <1>3 DEF RewardsNext
  <1>4. CASE part = "coupons" /\ CouponsNext /\ Rest
    BY <1>4
  <1>5. CASE part = "referrals" /\ ReferralsNext /\ Rest
    BY <1>5
  <1>6. CASE part = "reviews" /\ ReviewsNext /\ Rest
    BY <1>6
  <1>7. CASE part = "subscriptions" /\ SubscriptionsNext /\ Rest
    BY <1>7
  <1>8. CASE part = "verification" /\ VerificationNext /\ Rest
    BY <1>8
  <1>9. CASE part = "weekly" /\ WeeklyNext /\ Rest
    BY <1>9
  <1>10. CASE part = "offers" /\ OffersNext /\ Rest
    BY <1>10
  <1>11. CASE part = "pricing" /\ PricingNext /\ Rest
    BY <1>11
  <1>12. CASE part = "registration" /\ RegistrationNext /\ Rest
    BY <1>12
  <1>. QED
    BY <1>1, <1>2, <1>3, <1>4, <1>5, <1>6, <1>7, <1>8, <1>9, <1>10, <1>11, <1>12
       DEF AccountsNext

\* The components behind the accounts keep the domains of their variables, whatever
\* values the limits have and however many calls overlap.
THEOREM AccountsTypeCorrect == AccountsSpec => []AccountsTypeOK
  <1>1. AccountsInit => AccountsInv
    BY RewardsStart, CouponStart, InviteInit, PostInit, SubscriptionInit, DocumentsInit,
       WeeklyStart, OfferInit, PricingStart, AccountInit
       DEF AccountsInit, AccountsInv, RewardsInit
  <1>2. ASSUME AccountsInv, [AccountsNext]_accountVars
        PROVE  AccountsInv'
    <2>1. RewardsInv' /\ CouponInv' /\ WeeklyInv' /\ PricingInv'
      BY <1>2, AccountsMove, RewardsStep, CouponStep, WeeklyStep, PricingStep DEF AccountsInv
    <2>2. InviteInv' /\ PostInv' /\ SubscriptionInv' /\ DocumentsInv' /\ OfferInv' /\ AccountInv'
      BY <1>2, AccountsMove, InviteStep, PostStep, SubscriptionStep, DocumentsStep, OfferStep,
         AccountStep DEF AccountsInv
    <2>. QED
      BY <2>1, <2>2 DEF AccountsInv
  <1>3. AccountsInv /\ [AccountsNext]_accountVars => AccountsInv'
    BY <1>2
  <1>4. AccountsInv => AccountsTypeOK
    BY DEF AccountsInv, RewardsInv, PointInv, MissionInv, CouponInv, InviteInv, PostInv,
           SubscriptionInv, DocumentsInv, WeeklyInv, OfferInv, PricingInv, AccountInv, AccountsTypeOK
  <1>. QED
    BY <1>1, <1>3, <1>4, PTL DEF AccountsSpec
=============================================================================
