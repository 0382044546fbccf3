------------------------------ MODULE RewardsProofs ------------------------------
(***************************************************************************)
(* Proofs about what a user is given: points and missions together,        *)
(* coupons, the price of a request, and the weekly hours of a provider,    *)
(* for any number of overlapping calls and any values of the limits.       *)
(***************************************************************************)
EXTENDS Missions, Coupons, WeeklyHours, Pricing, FiniteSetTheorems,
        SequenceTheorems, TLAPS

(***************************************************************************)
(* Points.                                                                 *)
(***************************************************************************)

\* What a call has looked up: it pays or takes back the points of an earning, or it
\* redeems a prize.
CallsAim ==
    \A c \in Calls :
       /\ call[c].do = "credit" => call[c].on \in Services
       /\ call[c].do = "expire" => call[c].on \in Earnings
       /\ call[c].do \in {"coupon", "debit", "enter"} => call[c].on \in Prizes

\* While no two calls read before either of them writes, what the one that is about to
\* write has found is still so.
Writes(c) == call[c].do \in Writing

Unhurried ==
    ~crowded =>
       /\ \A c, d \in Calls : Writes(c) /\ Writes(d) => c = d
       /\ \A c \in Calls : call[c].do = "credit" => WithinLimit(call[c].on)
       /\ \A c \in Calls : call[c].do \in {"coupon", "debit"} /\ expired = {} => balance >= Cost

PointInv == PointsTypeOK /\ CallsAim /\ BalanceIsLedger /\ Unhurried /\ WithinMeans

\* The sets that are counted are finite, and grow by one with what is new.
LEMMA CountOfPoints ==
  ASSUME PointsTypeOK
  PROVE  /\ IsFiniteSet(credited) /\ IsFiniteSet(expired) /\ IsFiniteSet(redeemed)
         /\ IsFiniteSet(Debited) /\ IsFiniteSet(today \cap Services)
         /\ Cardinality(credited) \in Nat /\ Cardinality(expired) \in Nat
         /\ Cardinality(redeemed) \in Nat /\ Cardinality(Debited) \in Nat
         /\ Cardinality(today \cap Services) \in Nat
  <1>1. IsFiniteSet(Earnings)
    BY PointsAssumption, FS_Union DEF Earnings
  <1>2. IsFiniteSet(credited) /\ IsFiniteSet(expired) /\ IsFiniteSet(today \cap Services)
    BY <1>1, FS_Subset DEF PointsTypeOK
  <1>3. IsFiniteSet(redeemed) /\ IsFiniteSet(Debited)
    BY PointsAssumption, FS_Subset DEF PointsTypeOK, Debited
  <1>. QED
    BY <1>2, <1>3, FS_CardinalityType

LEMMA PointInit == PointsInit => PointInv
  <1>. SUFFICES ASSUME PointsInit PROVE PointInv
    OBVIOUS
  <1>1. Idle \in [do : PointSteps, on : Earnings \cup Prizes \cup {"nothing"}]
    BY DEF Idle, PointSteps
  <1>a. PointsTypeOK
    <2>1. call \in [Calls -> [do : PointSteps, on : Earnings \cup Prizes \cup {"nothing"}]]
      BY <1>1 DEF PointsInit
    <2>2. vouchers \in [Prizes -> Nat]
      BY DEF PointsInit
    <2>3. /\ balance \in Int /\ credited \subseteq Earnings /\ redeemed \subseteq Prizes
          /\ expired \subseteq Earnings /\ today \subseteq Earnings /\ old \subseteq Earnings
          /\ unrecorded \in Nat /\ breaks \in Nat
      BY DEF PointsInit
    <2>4. crowded \in BOOLEAN
      BY DEF PointsInit
    <2>. QED
      BY <2>1, <2>2, <2>3, <2>4 DEF PointsTypeOK
  <1>b. CallsAim
    BY DEF PointsInit, CallsAim, Idle
  <1>2. Debited = {} /\ today \cap Services = {}
    BY DEF PointsInit, Debited, Idle
  <1>3. BalanceIsLedger
    BY <1>2, FS_EmptySet, PointsAssumption DEF PointsInit, BalanceIsLedger
  <1>4. WithinMeans
    BY <1>2, FS_EmptySet, PointsAssumption DEF PointsInit, WithinMeans
  <1>5. Unhurried
    BY DEF PointsInit, Unhurried, Writes, Writing, Idle
  <1>. QED
    BY <1>a, <1>b, <1>3, <1>4, <1>5 DEF PointInv

\* A step that moves no call and only adds points for an earning that had none, and
\* that is under no limit.
LEMMA PointsAdded ==
  ASSUME PointInv, NEW k \in MissionIds, k \notin credited, Credit(k),
         UNCHANGED <<redeemed, expired, old, vouchers, call, unrecorded, crowded, breaks>>
  PROVE  PointInv'
  <1>1. PointsTypeOK' /\ CallsAim'
    BY PointsAssumption DEF PointInv, PointsTypeOK, CallsAim, Credit, Earnings
  <1>2. Debited' = Debited /\ (today \cap Services)' = today \cap Services
    BY PointsAssumption DEF Debited, Credit
  <1>3. Cardinality(credited') = Cardinality(credited) + 1
    BY CountOfPoints, FS_AddElement DEF PointInv, Credit
  <1>4. BalanceIsLedger'
    <2>. DEFINE c == Cardinality(credited)
                e == Cardinality(expired)
                r == Cardinality(redeemed) + unrecorded + Cardinality(Debited)
    <2>1. c \in Nat /\ e \in Nat /\ r \in Nat /\ balance = Worth * (c - e) - Cost * r
      BY CountOfPoints DEF PointInv, BalanceIsLedger, PointsTypeOK
    <2>2. Worth * ((c + 1) - e) = Worth * (c - e) + Worth
      BY <2>1, PointsAssumption
    <2>3. balance + Worth = Worth * ((c + 1) - e) - Cost * r
      BY <2>1, <2>2, PointsAssumption
    <2>. QED
      BY <1>2, <1>3, <2>3 DEF BalanceIsLedger, Credit
  <1>5. \A s : WithinLimit(s)' <=> WithinLimit(s)
    BY <1>2 DEF WithinLimit
  <1>6. balance' >= balance /\ balance \in Int /\ balance' \in Int
    BY PointsAssumption DEF PointInv, PointsTypeOK, Credit
  <1>7. Unhurried'
    BY <1>5, <1>6, PointsAssumption DEF PointInv, Unhurried, Writes
  <1>8. WithinMeans'
    <2>1. crowded' = crowded /\ expired' = expired
          /\ Cardinality((today \cap Services)') = Cardinality(today \cap Services)
      BY <1>2
    <2>. QED
      BY <1>6, <2>1 DEF PointInv, WithinMeans
  <1>. QED
    BY <1>1, <1>4, <1>7, <1>8 DEF PointInv

LEMMA IdleRests ==
  /\ Idle \in [do : PointSteps, on : Earnings \cup Prizes \cup {"nothing"}]
  /\ Idle.do \notin Writing /\ Idle.do \notin {"enter", "expire"}
  BY DEF Idle, PointSteps, Writing

\* A call that neither was nor is between its debit and its entry.
LEMMA DebitedStays ==
  ASSUME PointsTypeOK, NEW c \in Calls, NEW r, call' = [call EXCEPT ![c] = r],
         call[c].do # "enter", r.do # "enter"
  PROVE  Debited' = Debited
  BY DEF PointsTypeOK, Debited

\* One more earning or one less day makes the points of the day no less than the limit allows.
LEMMA OneMoreToday ==
  ASSUME PointsTypeOK, NEW k \in Services, WithinLimit(k), today' = today \cup {k}
  PROVE  Worth * Cardinality(today' \cap Services) <= DailyLimit
  <1>1. today' \cap Services = (today \cap Services) \cup {k}
    OBVIOUS
  <1>2. /\ Cardinality(today \cap Services) \in Nat
        /\ \/ Cardinality(today' \cap Services) = Cardinality(today \cap Services)
           \/ Cardinality(today' \cap Services) = Cardinality(today \cap Services) + 1
    BY <1>1, CountOfPoints, FS_AddElement
  <1>3. \A n \in Nat : Worth * n <= Worth * (n + 1)
    BY PointsAssumption
  <1>. QED
    BY <1>2, <1>3, PointsAssumption DEF WithinLimit

LEMMA AddLookUpStep ==
  ASSUME PointInv, NEW c \in Calls, NEW k \in Services, AddLookUp(c, k)
  PROVE  PointInv'
  <1>. DEFINE r == [do |-> "credit", on |-> k]
  <1>1. /\ call' = [call EXCEPT ![c] = r] /\ call[c] = Idle /\ WithinLimit(k)
        /\ UNCHANGED <<balance, credited, redeemed, expired, today, old, vouchers, unrecorded,
                       breaks>>
    BY DEF AddLookUp, Goes, entries
  <1>2. crowded' = (crowded \/ \E d \in Calls : Writes(d))
    BY DEF AddLookUp, Crowds, Writes
  <1>3. PointsTypeOK'
    <2>1. r \in [do : PointSteps, on : Earnings \cup Prizes \cup {"nothing"}]
      BY DEF PointSteps, Earnings
    <2>2. crowded' \in BOOLEAN
      BY <1>2, Zenon DEF PointInv, PointsTypeOK
    <2>. QED
      BY <1>1, <2>1, <2>2 DEF PointInv, PointsTypeOK
  <1>4. CallsAim'
    BY <1>1 DEF PointInv, PointsTypeOK, CallsAim
  <1>5. Debited' = Debited
    <2>1. call[c].do # "enter" /\ r.do # "enter"
      BY <1>1 DEF Idle
    <2>. QED
      BY <1>1, <2>1, DebitedStays DEF PointInv
  <1>6. BalanceIsLedger'
    BY <1>1, <1>5 DEF PointInv, BalanceIsLedger
  <1>7. ~crowded' => ~crowded /\ \A d \in Calls : ~Writes(d)
    BY <1>2, Zenon
  <1>8. WithinMeans'
    BY <1>1, <1>7 DEF PointInv, WithinMeans
  <1>9. Unhurried'
    <2>1. SUFFICES ASSUME ~crowded' PROVE  Unhurried'
      BY DEF Unhurried
    <2>2. \A d \in Calls \ {c} : call'[d] = call[d] /\ call[d].do \notin Writing
      BY <1>1, <1>7, <2>1 DEF PointInv, PointsTypeOK, Writes
    <2>3. call'[c] = r
      BY <1>1 DEF PointInv, PointsTypeOK
    <2>4. \A d, e \in Calls : call'[d].do \in Writing /\ call'[e].do \in Writing => d = e
      BY <2>2
    <2>5. WithinLimit(k)'
      BY <1>1 DEF WithinLimit
    <2>6. \A d \in Calls : call'[d].do = "credit" => WithinLimit(call[d].on)'
      BY <2>2, <2>3, <2>5 DEF Writing, WithinLimit
    <2>7. \A d \in Calls : call'[d].do \notin {"coupon", "debit"}
      BY <2>2, <2>3 DEF Writing
    <2>. QED
      BY <2>4, <2>6, <2>7 DEF Unhurried, Writes
  <1>. QED
    BY <1>3, <1>4, <1>6, <1>8, <1>9 DEF PointInv

\* One call moves on, to write no more than it was about to: what the others found is
\* still so, because it was the only one about to write, or because it has written nothing
\* that they read.
LEMMA UnhurriedStep ==
  ASSUME PointInv, NEW c \in Calls, NEW r, call' = [call EXCEPT ![c] = r],
         crowded' = crowded,
         r.do \in Writing => r.do = "debit" /\ call[c].do = "coupon",
         Writes(c) \/ today' = today,
         expired' = {} => expired = {} /\ (balance' = balance \/ (Writes(c) /\ r.do \notin Writing))
  PROVE  Unhurried'
  <1>1. SUFFICES ASSUME ~crowded' PROVE Unhurried'
    BY DEF Unhurried
  <1>2. /\ \A d, e \in Calls : Writes(d) /\ Writes(e) => d = e
        /\ \A d \in Calls : call[d].do = "credit" => WithinLimit(call[d].on)
        /\ \A d \in Calls : call[d].do \in {"coupon", "debit"} /\ expired = {} => balance >= Cost
    BY <1>1 DEF PointInv, Unhurried
  <1>3. call'[c] = r /\ \A d \in Calls \ {c} : call'[d] = call[d]
    BY DEF PointInv, PointsTypeOK
  <1>4. \A d \in Calls : Writes(d)' => Writes(d)
    BY <1>3 DEF Writes, Writing
  <1>5. \A d, e \in Calls : Writes(d)' /\ Writes(e)' => d = e
    BY <1>2, <1>4
  <1>6. \A d \in Calls : call'[d].do = "credit" => WithinLimit(call[d].on)'
    <2>. SUFFICES ASSUME NEW d \in Calls, call'[d].do = "credit" PROVE WithinLimit(call[d].on)'
      OBVIOUS
    <2>1. d # c /\ call'[d] = call[d] /\ Writes(d)
      BY <1>3 DEF Writing, Writes
    <2>2. today' = today
      BY <1>2, <2>1
    <2>. QED
      BY <1>2, <2>1, <2>2 DEF WithinLimit
  <1>7. \A d \in Calls : call'[d].do \in {"coupon", "debit"} /\ expired' = {} => balance' >= Cost
    <2>. SUFFICES ASSUME NEW d \in Calls, call'[d].do \in {"coupon", "debit"}, expired' = {}
                  PROVE  balance' >= Cost
      OBVIOUS
    <2>1. Writes(d) /\ call[d].do \in {"coupon", "debit"}
      BY <1>3 DEF Writing, Writes
    <2>2. d = c => r.do \in Writing
      BY <1>3 DEF Writing
    <2>3. balance' = balance
      BY <1>2, <2>1, <2>2
    <2>. QED
      BY <1>2, <2>1, <2>3
  <1>. QED
    BY <1>5, <1>6, <1>7 DEF Unhurried, Writes

LEMMA AddCommitStep ==
  ASSUME PointInv, NEW c \in Calls, AddCommit(c)
  PROVE  PointInv'
  <1>. DEFINE k == call[c].on
  <1>1. /\ call' = [call EXCEPT ![c] = Idle] /\ call[c].do = "credit" /\ k \in Services
        /\ UNCHANGED <<redeemed, expired, old, vouchers, unrecorded, crowded, breaks>>
    BY DEF AddCommit, Ends, PointInv, CallsAim
  <1>2. CASE k \notin credited /\ Credit(k)
    <2>1. PointsTypeOK'
      BY <1>1, <1>2, PointsAssumption
         DEF PointInv, PointsTypeOK, Credit, Earnings, Idle, PointSteps
    <2>2. CallsAim'
      BY <1>1 DEF PointInv, PointsTypeOK, CallsAim, Idle
    <2>3. Debited' = Debited
      BY <1>1, DebitedStays, IdleRests DEF PointInv
    <2>4. Cardinality(credited') = Cardinality(credited) + 1
      BY <1>2, CountOfPoints, FS_AddElement DEF PointInv, Credit
    <2>5. BalanceIsLedger'
      <3>. DEFINE n == Cardinality(credited)
                  e == Cardinality(expired)
                  r == Cardinality(redeemed) + unrecorded + Cardinality(Debited)
      <3>1. n \in Nat /\ e \in Nat /\ r \in Nat /\ balance = Worth * (n - e) - Cost * r
        BY CountOfPoints DEF PointInv, BalanceIsLedger, PointsTypeOK
      <3>2. Worth * ((n + 1) - e) = Worth * (n - e) + Worth
        BY <3>1, PointsAssumption
      <3>3. balance + Worth = Worth * ((n + 1) - e) - Cost * r
        BY <3>1, <3>2, PointsAssumption
      <3>. QED
        BY <1>1, <1>2, <2>3, <2>4, <3>3 DEF BalanceIsLedger, Credit
    <2>6. Unhurried'
      <3>1. Writes(c)
        BY <1>1 DEF Writes, Writing
      <3>. QED
        BY <1>1, <3>1, UnhurriedStep, IdleRests
    <2>7. WithinMeans'
      <3>1. ~crowded => WithinLimit(k)
        BY <1>1 DEF PointInv, Unhurried
      <3>2. ~crowded => Worth * Cardinality(today' \cap Services) <= DailyLimit
        BY <1>1, <1>2, <3>1, OneMoreToday DEF PointInv, Credit
      <3>3. balance' >= balance /\ balance \in Int /\ balance' \in Int
        BY <1>2, PointsAssumption DEF PointInv, PointsTypeOK, Credit
      <3>. QED
        BY <1>1, <3>2, <3>3 DEF PointInv, WithinMeans
    <2>. QED
      BY <2>1, <2>2, <2>5, <2>6, <2>7 DEF PointInv
  <1>3. CASE NoCredit
    <2>1. PointsTypeOK'
      BY <1>1, <1>3 DEF PointInv, PointsTypeOK, NoCredit, Idle, PointSteps
    <2>2. CallsAim'
      BY <1>1 DEF PointInv, PointsTypeOK, CallsAim, Idle
    <2>3. Debited' = Debited
      BY <1>1, DebitedStays, IdleRests DEF PointInv
    <2>4. BalanceIsLedger' /\ WithinMeans'
      BY <1>1, <1>3, <2>3 DEF PointInv, BalanceIsLedger, WithinMeans, NoCredit
    <2>5. Unhurried'
      <3>1. Writes(c)
        BY <1>1 DEF Writes, Writing
      <3>. QED
        BY <1>1, <3>1, UnhurriedStep, IdleRests
    <2>. QED
      BY <2>1, <2>2, <2>4, <2>5 DEF PointInv
  <1>. QED
    BY <1>2, <1>3 DEF AddCommit

\* The steps of a redemption before its debit write nothing that the invariant counts.
LEMMA RedeemLookUpStep ==
  ASSUME PointInv, NEW c \in Calls, NEW w \in Prizes, RedeemLookUp(c, w)
  PROVE  PointInv'
  <1>. DEFINE r == [do |-> "coupon", on |-> w]
  <1>1. /\ call' = [call EXCEPT ![c] = r] /\ call[c] = Idle /\ balance >= Cost
        /\ UNCHANGED <<balance, credited, redeemed, expired, today, old, vouchers, unrecorded,
                       breaks>>
    BY DEF RedeemLookUp, Goes, entries, Affords
  <1>2. crowded' = (crowded \/ \E d \in Calls : Writes(d))
    BY DEF RedeemLookUp, Crowds, Writes
  <1>3. PointsTypeOK'
    <2>1. r \in [do : PointSteps, on : Earnings \cup Prizes \cup {"nothing"}]
      BY DEF PointSteps
    <2>2. crowded' \in BOOLEAN
      BY <1>2, Zenon DEF PointInv, PointsTypeOK
    <2>. QED
      BY <1>1, <2>1, <2>2 DEF PointInv, PointsTypeOK
  <1>4. CallsAim'
    BY <1>1 DEF PointInv, PointsTypeOK, CallsAim
  <1>5. Debited' = Debited
    <2>1. r.do # "enter"
      OBVIOUS
    <2>. QED
      BY <1>1, <2>1, DebitedStays, IdleRests DEF PointInv
  <1>6. BalanceIsLedger'
    BY <1>1, <1>5 DEF PointInv, BalanceIsLedger
  <1>7. ~crowded' => ~crowded /\ \A d \in Calls : ~Writes(d)
    BY <1>2, Zenon
  <1>8. WithinMeans'
    BY <1>1, <1>7 DEF PointInv, WithinMeans
  <1>9. Unhurried'
    <2>1. SUFFICES ASSUME ~crowded' PROVE  Unhurried'
      BY DEF Unhurried
    <2>2. \A d \in Calls \ {c} : call'[d] = call[d] /\ call[d].do \notin Writing
      BY <1>1, <1>7, <2>1 DEF PointInv, PointsTypeOK, Writes
    <2>3. call'[c] = r
      BY <1>1 DEF PointInv, PointsTypeOK
    <2>4. \A d, e \in Calls : call'[d].do \in Writing /\ call'[e].do \in Writing => d = e
      BY <2>2
    <2>5. \A d \in Calls : call'[d].do # "credit"
      BY <2>2, <2>3 DEF Writing
    <2>. QED
      BY <1>1, <2>4, <2>5 DEF Unhurried, Writes
  <1>. QED
    BY <1>3, <1>4, <1>6, <1>8, <1>9 DEF PointInv

LEMMA IssueVoucherStep ==
  ASSUME PointInv, NEW c \in Calls, IssueVoucher(c)
  PROVE  PointInv'
  <1>. DEFINE w == call[c].on
              r == [do |-> "debit", on |-> w]
  <1>1. /\ call' = [call EXCEPT ![c] = r] /\ call[c].do = "coupon" /\ w \in Prizes
        /\ vouchers' = [vouchers EXCEPT ![w] = @ + 1]
        /\ UNCHANGED <<balance, credited, redeemed, expired, today, old, unrecorded, crowded,
                       breaks>>
    BY DEF IssueVoucher, Goes, entries, PointInv, CallsAim
  <1>2. r.do = "debit" /\ call[c].do # "enter" /\ Writes(c)
    BY <1>1 DEF Writes, Writing
  <1>3. PointsTypeOK'
    <2>1. r \in [do : PointSteps, on : Earnings \cup Prizes \cup {"nothing"}]
      BY <1>1 DEF PointSteps
    <2>2. vouchers' \in [Prizes -> Nat]
      BY <1>1 DEF PointInv, PointsTypeOK
    <2>. QED
      BY <1>1, <2>1, <2>2 DEF PointInv, PointsTypeOK
  <1>4. CallsAim'
    BY <1>1 DEF PointInv, PointsTypeOK, CallsAim
  <1>5. Debited' = Debited
    BY <1>1, <1>2, DebitedStays, "debit" # "enter" DEF PointInv
  <1>6. BalanceIsLedger' /\ WithinMeans'
    BY <1>1, <1>5 DEF PointInv, BalanceIsLedger, WithinMeans
  <1>7. Unhurried'
    BY <1>1, <1>2, UnhurriedStep
  <1>. QED
    BY <1>3, <1>4, <1>6, <1>7 DEF PointInv

\* One call more is between its debit and its entry, and the balance is less by a cost.
LEMMA DebitStep ==
  ASSUME PointInv, NEW c \in Calls, Debit(c)
  PROVE  PointInv'
  <1>. DEFINE w == call[c].on
              r == [do |-> "enter", on |-> w]
  <1>1. /\ call' = [call EXCEPT ![c] = r] /\ call[c].do = "debit" /\ w \in Prizes
        /\ balance' = balance - Cost
        /\ UNCHANGED <<credited, redeemed, expired, today, old, vouchers, unrecorded, crowded,
                       breaks>>
    BY DEF Debit, Goes, entries, PointInv, CallsAim
  <1>2. r.do \notin Writing /\ Writes(c)
    BY <1>1 DEF Writes, Writing
  <1>3. PointsTypeOK'
    <2>1. r \in [do : PointSteps, on : Earnings \cup Prizes \cup {"nothing"}]
      BY <1>1 DEF PointSteps
    <2>2. balance' \in Int
      BY <1>1, PointsAssumption DEF PointInv, PointsTypeOK
    <2>. QED
      BY <1>1, <2>1, <2>2 DEF PointInv, PointsTypeOK
  <1>4. CallsAim'
    BY <1>1 DEF PointInv, PointsTypeOK, CallsAim
  <1>5. Cardinality(Debited') = Cardinality(Debited) + 1
    <2>1. Debited' = Debited \cup {c} /\ c \notin Debited
      BY <1>1 DEF PointInv, PointsTypeOK, Debited
    <2>. QED
      BY <2>1, CountOfPoints, FS_AddElement DEF PointInv
  <1>6. BalanceIsLedger'
    <2>. DEFINE p == Worth * (Cardinality(credited) - Cardinality(expired))
                n == Cardinality(redeemed) + unrecorded + Cardinality(Debited)
    <2>1. p \in Int /\ n \in Nat /\ balance = p - Cost * n
      BY CountOfPoints, PointsAssumption DEF PointInv, BalanceIsLedger, PointsTypeOK
    <2>2. Cost * (n + 1) = Cost * n + Cost
      BY <2>1, PointsAssumption
    <2>3. balance - Cost = p - Cost * (n + 1)
      BY <2>1, <2>2, PointsAssumption
    <2>4. n + 1 = Cardinality(redeemed) + unrecorded + (Cardinality(Debited) + 1)
      BY CountOfPoints DEF PointInv, PointsTypeOK
    <2>. QED
      BY <1>1, <1>5, <2>3, <2>4 DEF BalanceIsLedger
  <1>7. Unhurried'
    BY <1>1, <1>2, UnhurriedStep
  <1>8. WithinMeans'
    <2>1. ~crowded /\ expired = {} => balance >= Cost
      BY <1>1 DEF PointInv, Unhurried
    <2>2. balance >= Cost => balance' >= 0
      BY <1>1, PointsAssumption DEF PointInv, PointsTypeOK
    <2>. QED
      BY <1>1, <2>1, <2>2 DEF PointInv, WithinMeans
  <1>. QED
    BY <1>3, <1>4, <1>6, <1>7, <1>8 DEF PointInv

\* One call less is between its debit and its entry: its redemption is in the ledger, or
\* among the unrecorded.
LEMMA EnterRedemptionStep ==
  ASSUME PointInv, NEW c \in Calls, EnterRedemption(c)
  PROVE  PointInv'
  <1>. DEFINE w == call[c].on
  <1>1. /\ call' = [call EXCEPT ![c] = Idle] /\ call[c].do = "enter" /\ w \in Prizes
        /\ UNCHANGED <<balance, credited, expired, today, old, vouchers, crowded, breaks>>
    BY DEF EnterRedemption, Ends, PointInv, CallsAim
  <1>2. \/ w \in redeemed /\ unrecorded' = unrecorded + 1 /\ redeemed' = redeemed
        \/ w \notin redeemed /\ redeemed' = redeemed \cup {w} /\ unrecorded' = unrecorded
    BY DEF EnterRedemption
  <1>3. PointsTypeOK'
    <2>1. redeemed' \subseteq Prizes /\ unrecorded' \in Nat
      BY <1>1, <1>2 DEF PointInv, PointsTypeOK
    <2>. QED
      BY <1>1, <2>1, IdleRests DEF PointInv, PointsTypeOK
  <1>4. CallsAim'
    BY <1>1 DEF PointInv, PointsTypeOK, CallsAim, Idle
  <1>5. Cardinality(Debited') = Cardinality(Debited) - 1
    <2>1. Debited' = Debited \ {c} /\ c \in Debited
      BY <1>1, IdleRests DEF PointInv, PointsTypeOK, Debited
    <2>. QED
      BY <2>1, CountOfPoints, FS_RemoveElement DEF PointInv
  <1>6. Cardinality(redeemed') + unrecorded' = (Cardinality(redeemed) + unrecorded) + 1
    <2>1. unrecorded \in Nat /\ Cardinality(redeemed) \in Nat
      BY CountOfPoints DEF PointInv, PointsTypeOK
    <2>2. CASE w \in redeemed /\ unrecorded' = unrecorded + 1 /\ redeemed' = redeemed
      BY <2>1, <2>2
    <2>3. CASE w \notin redeemed /\ redeemed' = redeemed \cup {w} /\ unrecorded' = unrecorded
      <3>1. Cardinality(redeemed') = Cardinality(redeemed) + 1
        BY <2>3, CountOfPoints, FS_AddElement DEF PointInv
      <3>. QED
        BY <2>1, <2>3, <3>1
    <2>. QED
      BY <1>2, <2>2, <2>3
  <1>7. BalanceIsLedger'
    <2>. DEFINE a == Cardinality(redeemed) + unrecorded
                b == Cardinality(Debited)
    <2>1. a \in Nat /\ b \in Nat
      BY CountOfPoints DEF PointInv, PointsTypeOK
    <2>2. (a + 1) + (b - 1) = a + b
      BY <2>1
    <2>. QED
      BY <1>1, <1>5, <1>6, <2>2 DEF PointInv, BalanceIsLedger
  <1>8. Unhurried' /\ WithinMeans'
    BY <1>1, UnhurriedStep, IdleRests DEF PointInv, WithinMeans
  <1>. QED
    BY <1>3, <1>4, <1>7, <1>8 DEF PointInv

LEMMA ExpireLookUpStep ==
  ASSUME PointInv, NEW c \in Calls, NEW k \in Earnings, ExpireLookUp(c, k)
  PROVE  PointInv'
  <1>. DEFINE r == [do |-> "expire", on |-> k]
  <1>1. /\ call' = [call EXCEPT ![c] = r] /\ call[c] = Idle
        /\ UNCHANGED <<balance, credited, redeemed, expired, today, old, vouchers, unrecorded,
                       crowded, breaks>>
    BY DEF ExpireLookUp, Goes, entries
  <1>2. r.do \notin Writing /\ r.do # "enter"
    BY DEF Writing
  <1>3. PointsTypeOK'
    <2>1. r \in [do : PointSteps, on : Earnings \cup Prizes \cup {"nothing"}]
      BY DEF PointSteps
    <2>. QED
      BY <1>1, <2>1 DEF PointInv, PointsTypeOK
  <1>4. CallsAim'
    BY <1>1 DEF PointInv, PointsTypeOK, CallsAim
  <1>5. Debited' = Debited
    BY <1>1, <1>2, DebitedStays, IdleRests DEF PointInv
  <1>6. BalanceIsLedger' /\ WithinMeans'
    BY <1>1, <1>5 DEF PointInv, BalanceIsLedger, WithinMeans
  <1>7. Unhurried'
    BY <1>1, <1>2, UnhurriedStep
  <1>. QED
    BY <1>3, <1>4, <1>6, <1>7 DEF PointInv

\* What expires is taken back once: the second time it has its expire:<id>.
LEMMA ExpireCommitStep ==
  ASSUME PointInv, NEW c \in Calls, ExpireCommit(c)
  PROVE  PointInv'
  <1>. DEFINE k == call[c].on
  <1>1. /\ call' = [call EXCEPT ![c] = Idle] /\ call[c].do = "expire" /\ k \in Earnings
        /\ UNCHANGED <<credited, redeemed, today, old, vouchers, unrecorded, crowded, breaks>>
    BY DEF ExpireCommit, Ends, PointInv, CallsAim
  <1>2. \/ k \notin expired /\ balance' = balance - Worth /\ expired' = expired \cup {k}
        \/ balance' = balance /\ expired' = expired
    BY DEF ExpireCommit, Unexpired
  <1>3. PointsTypeOK'
    <2>1. expired' \subseteq Earnings /\ balance' \in Int
      BY <1>1, <1>2, PointsAssumption DEF PointInv, PointsTypeOK
    <2>. QED
      BY <1>1, <2>1, IdleRests DEF PointInv, PointsTypeOK
  <1>4. CallsAim'
    BY <1>1 DEF PointInv, PointsTypeOK, CallsAim, Idle
  <1>5. Debited' = Debited
    BY <1>1, DebitedStays, IdleRests DEF PointInv
  <1>6. BalanceIsLedger'
    <2>1. CASE balance' = balance /\ expired' = expired
      BY <1>1, <1>5, <2>1 DEF PointInv, BalanceIsLedger
    <2>2. CASE k \notin expired /\ balance' = balance - Worth /\ expired' = expired \cup {k}
      <3>. DEFINE n == Cardinality(credited)
                  e == Cardinality(expired)
                  r == Cardinality(redeemed) + unrecorded + Cardinality(Debited)
      <3>1. n \in Nat /\ e \in Nat /\ r \in Nat /\ balance = Worth * (n - e) - Cost * r
        BY CountOfPoints DEF PointInv, BalanceIsLedger, PointsTypeOK
      <3>2. Worth * (n - (e + 1)) = Worth * (n - e) - Worth
        BY <3>1, PointsAssumption
      <3>3. balance - Worth = Worth * (n - (e + 1)) - Cost * r
        BY <3>1, <3>2, PointsAssumption
      <3>4. Cardinality(expired') = e + 1
        BY <2>2, CountOfPoints, FS_AddElement DEF PointInv
      <3>. QED
        BY <1>1, <1>5, <2>2, <3>3, <3>4 DEF BalanceIsLedger
    <2>. QED
      BY <1>2, <2>1, <2>2
  <1>7. expired' = {} => expired = {} /\ balance' = balance
    BY <1>2
  <1>8. Unhurried'
    BY <1>1, <1>7, UnhurriedStep, IdleRests
  <1>9. WithinMeans'
    BY <1>1, <1>7 DEF PointInv, WithinMeans
  <1>. QED
    BY <1>3, <1>4, <1>6, <1>8, <1>9 DEF PointInv

\* What a redemption had debited when it broke off is among the unrecorded.
LEMMA BreaksOffStep ==
  ASSUME PointInv, NEW c \in Calls, BreaksOff(c)
  PROVE  PointInv'
  <1>1. /\ call' = [call EXCEPT ![c] = Idle] /\ breaks' = breaks + 1
        /\ unrecorded' = unrecorded + (IF call[c].do = "enter" THEN 1 ELSE 0)
        /\ UNCHANGED <<balance, credited, redeemed, expired, today, old, vouchers, crowded>>
    BY DEF BreaksOff, Ends, entries
  <1>2. PointsTypeOK'
    <2>1. breaks' \in Nat /\ unrecorded' \in Nat
      BY <1>1 DEF PointInv, PointsTypeOK
    <2>. QED
      BY <1>1, <2>1, IdleRests DEF PointInv, PointsTypeOK
  <1>3. CallsAim'
    BY <1>1 DEF PointInv, PointsTypeOK, CallsAim, Idle
  <1>a. Cardinality(Debited') \in Nat
    BY <1>1, PointsAssumption, FS_Subset, FS_CardinalityType DEF Debited
  <1>4. unrecorded' + Cardinality(Debited') = unrecorded + Cardinality(Debited)
    <2>1. CASE call[c].do = "enter"
      <3>1. Debited' = Debited \ {c} /\ c \in Debited
        BY <1>1, <2>1, IdleRests DEF PointInv, PointsTypeOK, Debited
      <3>2. Cardinality(Debited') = Cardinality(Debited) - 1
        BY <3>1, CountOfPoints, FS_RemoveElement DEF PointInv
      <3>. QED
        BY <1>1, <2>1, <3>2, CountOfPoints DEF PointInv, PointsTypeOK
    <2>2. CASE call[c].do # "enter"
      <3>1. Debited' = Debited
        BY <1>1, <2>2, DebitedStays, IdleRests DEF PointInv
      <3>. QED
        BY <1>1, <2>2, <3>1 DEF PointInv, PointsTypeOK
    <2>. QED
      BY <2>1, <2>2
  <1>5. BalanceIsLedger'
    <2>. DEFINE q == Cardinality(redeemed)
                d == Cardinality(Debited)
                e == Cardinality(Debited')
    <2>1. q \in Nat /\ unrecorded \in Nat /\ unrecorded' \in Nat /\ d \in Nat /\ e \in Int
      BY <1>2, <1>a, CountOfPoints DEF PointInv, PointsTypeOK
    <2>2. q + unrecorded' + e = q + unrecorded + d
      BY <1>4, <2>1
    <2>. QED
      BY <1>1, <2>2 DEF PointInv, BalanceIsLedger
  <1>6. Unhurried' /\ WithinMeans'
    BY <1>1, UnhurriedStep, IdleRests DEF PointInv, WithinMeans
  <1>. QED
    BY <1>2, <1>3, <1>5, <1>6 DEF PointInv

\* A day ends: nothing is of this day, and every limit is as free as it can be.
LEMMA DayEndsStep ==
  ASSUME PointInv, DayEnds
  PROVE  PointInv'
  <1>1. /\ today' = {}
        /\ UNCHANGED <<balance, credited, redeemed, expired, old, vouchers, call, unrecorded,
                       crowded, breaks>>
    BY DEF DayEnds, entries
  <1>2. PointsTypeOK' /\ CallsAim' /\ BalanceIsLedger'
    BY <1>1 DEF PointInv, PointsTypeOK, CallsAim, BalanceIsLedger, Debited
  <1>. DEFINE n == Cardinality(today \cap Services)
  <1>3. Cardinality((today \cap Services)') = 0 /\ n \in Nat
    <2>1. (today \cap Services)' = {}
      BY <1>1
    <2>. QED
      BY <2>1, FS_EmptySet, CountOfPoints DEF PointInv
  <1>4. Worth * (0 + 1) <= Worth * (n + 1) /\ Worth * 0 <= Worth * n
    BY <1>3, PointsAssumption
  <1>5. \A k : WithinLimit(k) => WithinLimit(k)'
    <2>1. Worth * (n + 1) \in Int /\ Worth * (0 + 1) \in Int
      BY <1>3, PointsAssumption
    <2>. QED
      BY <1>3, <1>4, <2>1, PointsAssumption DEF WithinLimit
  <1>6. Unhurried'
    BY <1>1, <1>5 DEF PointInv, Unhurried, Writes
  <1>7. WithinMeans'
    <2>1. Worth * Cardinality((today \cap Services)') <= DailyLimit
      BY <1>3, PointsAssumption
    <2>. QED
      BY <1>1, <2>1 DEF PointInv, WithinMeans
  <1>. QED
    BY <1>2, <1>6, <1>7 DEF PointInv

LEMMA PointStep ==
  ASSUME PointInv, PointsNext \/ UNCHANGED pointVars
  PROVE  PointInv'
  <1>1. CASE UNCHANGED pointVars
    BY <1>1 DEF pointVars, PointInv, PointsTypeOK, CallsAim, BalanceIsLedger, Debited,
                Unhurried, Writes, WithinLimit, WithinMeans
  <1>2. ASSUME NEW c \in Calls, Redeem(c)
        PROVE  PointInv'
    BY <1>2, IssueVoucherStep, DebitStep, EnterRedemptionStep DEF Redeem
  <1>3. ASSUME NEW k \in Earnings, GrowsOld(k)
        PROVE  PointInv'
    <2>1. /\ old' = old \cup {k}
          /\ UNCHANGED <<balance, credited, redeemed, expired, today, vouchers, call, unrecorded,
                         crowded, breaks>>
      BY <1>3 DEF GrowsOld, entries
    <2>. QED
      BY <2>1 DEF PointInv, PointsTypeOK, CallsAim, BalanceIsLedger, Debited, Unhurried, Writes,
                  WithinLimit, WithinMeans
  <1>. QED
    BY <1>1, <1>2, <1>3, AddCommitStep, ExpireCommitStep, BreaksOffStep, AddLookUpStep,
       ExpireLookUpStep, RedeemLookUpStep, DayEndsStep DEF PointsNext

\* A claim gives points once, whether it overlaps another claim or a call of the points.
LEMMA ClaimPoints ==
  ASSUME PointInv, ClaimStep, \A v \in Visits : visit[v].do = "claim" => visit[v].on \in AllMissions
  PROVE  PointInv'
  <1>1. ASSUME NEW v \in Visits, ClaimCommit(v)
        PROVE  PointInv'
    <2>. DEFINE m == visit[v].on
    <2>1. /\ m \in AllMissions /\ Reward(m)
          /\ UNCHANGED <<redeemed, expired, old, vouchers, call, unrecorded, crowded, breaks>>
      BY <1>1 DEF ClaimCommit
    <2>2. \/ NoCredit
          \/ m \in MissionIds /\ m \notin credited /\ Credit(m)
      BY <2>1 DEF Reward, AllMissions
    <2>3. CASE NoCredit
      BY <2>1, <2>3, PointStep DEF NoCredit, pointVars
    <2>4. CASE m \in MissionIds /\ m \notin credited /\ Credit(m)
      BY <2>1, <2>4, PointsAdded
    <2>. QED
      BY <2>2, <2>3, <2>4
  <1>2. ASSUME UNCHANGED pointVars
        PROVE  PointInv'
    BY <1>2, PointStep
  <1>. QED
    BY <1>1, <1>2 DEF ClaimStep, ClaimAbort, ClaimRead

(***************************************************************************)
(* Missions.                                                               *)
(***************************************************************************)

\* Every visit that has its turn on a mission names it.
VisitsAim == \A v \in Visits : visit[v].do \notin {"idle", "next"} => visit[v].on \in AllMissions

\* While no two claims of a mission overlap, a mission is claimed by one visit at a time,
\* and a coupon was given only for what has been claimed.
OneClaim ==
    ~jostled =>
       /\ \A m \in CouponMissions : m \notin claimedAt => coupons[m] = 0
       /\ \A m \in CouponMissions : coupons[m] <= 1
       /\ \A v \in Visits : visit[v].do = "claim" => visit[v].on \notin claimedAt
       /\ \A v, w \in Visits :
             visit[v].do = "claim" /\ visit[w].do = "claim" /\ visit[v].on = visit[w].on => v = w

MissionInv == MissionsTypeOK /\ VisitsAim /\ OneClaim /\ ClaimIsPaid
RewardsInv == PointInv /\ MissionInv

VisitRecords == [do : VisitSteps, at : 0 .. Events, left : SUBSET AllMissions,
                 on : AllMissions \cup {"none"}, value : Nat]

LEMMA NoVisitFits == NoVisit \in VisitRecords /\ NoVisit.do = "idle"
  BY MissionsAssumption DEF NoVisit, VisitRecords, VisitSteps

\* A visit that was not a claim and does not become one moves, and nothing of what claims
\* give or leave behind does.
LEMMA TrackMoves ==
  ASSUME MissionInv, NEW v \in Visits, NEW r \in VisitRecords, visit' = [visit EXCEPT ![v] = r],
         r.do # "claim", r.do \notin {"idle", "next"} => r.on \in AllMissions,
         UNCHANGED <<claimedAt, coupons, jostled, credited>>
  PROVE  VisitsAim' /\ OneClaim' /\ ClaimIsPaid' /\ visit' \in [Visits -> VisitRecords]
  <1>1. visit \in [Visits -> VisitRecords]
    BY DEF MissionInv, MissionsTypeOK, VisitRecords
  <1>2. visit'[v] = r /\ \A w \in Visits \ {v} : visit'[w] = visit[w]
    BY <1>1
  <1>3. VisitsAim' /\ visit' \in [Visits -> VisitRecords]
    BY <1>1, <1>2 DEF MissionInv, VisitsAim
  <1>4. \A w \in Visits : visit'[w].do = "claim" => visit'[w] = visit[w]
    BY <1>2
  <1>5. OneClaim'
    BY <1>4 DEF MissionInv, OneClaim
  <1>. QED
    BY <1>3, <1>5 DEF MissionInv, ClaimIsPaid

LEMMA TrackKeeps ==
  ASSUME MissionInv, TrackStep, UNCHANGED pointVars
  PROVE  MissionInv'
  <1>. USE MissionsAssumption
  <1>1. visit \in [Visits -> VisitRecords]
    BY DEF MissionInv, MissionsTypeOK, VisitRecords
  <1>2. credited' = credited
    BY DEF pointVars
  <1>3. ASSUME NEW v \in Visits, NEW r \in VisitRecords, visit' = [visit EXCEPT ![v] = r],
               r.do # "claim", r.do \notin {"idle", "next"} => r.on \in AllMissions,
               UNCHANGED <<claimedAt, coupons, jostled>>,
               progress' \in [AllMissions -> Nat],
               mission' \in [AllMissions -> {"ACTIVE", "COMPLETED", "CLAIMED"}],
               events' \subseteq 1 .. Events, tracked' \in 0 .. Events
        PROVE  MissionInv'
    <2>1. VisitsAim' /\ OneClaim' /\ ClaimIsPaid' /\ visit' \in [Visits -> VisitRecords]
      BY <1>2, <1>3, TrackMoves
    <2>2. coupons' \in [AllMissions -> Nat] /\ claimedAt' \subseteq AllMissions
      BY <1>3 DEF MissionInv, MissionsTypeOK
    <2>3. jostled' \in BOOLEAN
      BY <1>3 DEF MissionInv, MissionsTypeOK
    <2>4. MissionsTypeOK'
      BY <1>3, <2>1, <2>2, <2>3 DEF MissionsTypeOK, VisitRecords
    <2>. QED
      BY <2>1, <2>4 DEF MissionInv
  <1>4. ASSUME NEW v \in Visits, Track(v)
        PROVE  MissionInv'
    <2>. DEFINE r == [NoVisit EXCEPT !.do = "next", !.at = tracked + 1, !.left = AllMissions]
    <2>1. tracked + 1 \in 1 .. Events
      BY <1>4 DEF Track, MissionInv, MissionsTypeOK
    <2>2. r \in VisitRecords /\ r.do = "next"
      <3>. DEFINE at == tracked + 1
      <3>. HIDE DEF at
      <3>1. at \in 0 .. Events
        BY <2>1 DEF at
      <3>. SUFFICES LET q == [NoVisit EXCEPT !.do = "next", !.at = at, !.left = AllMissions]
                    IN  q \in VisitRecords /\ q.do = "next"
        BY DEF at
      <3>. QED
        BY <3>1, NoVisitFits DEF VisitRecords, VisitSteps
    <2>3. visit' = [visit EXCEPT ![v] = r]
      BY <1>4 DEF Track
    <2>4. UNCHANGED <<progress, mission, claimedAt, coupons, jostled>>
      BY <1>4 DEF Track, progressRow
    <2>5. events' \subseteq 1 .. Events /\ tracked' \in 0 .. Events
      BY <1>4, <2>1 DEF Track, MissionInv, MissionsTypeOK
    <2>. QED
      BY <1>3, <2>2, <2>3, <2>4, <2>5 DEF MissionInv, MissionsTypeOK
  <1>5. ASSUME NEW v \in Visits, NEW m \in AllMissions, ReadProgress(v, m)
        PROVE  MissionInv'
    <2>. DEFINE r == [visit[v] EXCEPT !.left = @ \ {m}, !.on = m,
                                      !.do = IF mission[m] = "CLAIMED" THEN "next" ELSE "apply"]
    <2>1. visit[v] \in VisitRecords
      BY <1>1
    <2>2. /\ r \in VisitRecords /\ r.do # "claim" /\ r.on \in AllMissions
      BY <2>1 DEF VisitRecords, VisitSteps
    <2>3. visit' = [visit EXCEPT ![v] = r]
      BY <1>1, <1>5 DEF ReadProgress
    <2>4. UNCHANGED <<progress, mission, claimedAt, coupons, jostled, events, tracked>>
      BY <1>5 DEF ReadProgress, progressRow
    <2>. QED
      BY <1>3, <2>2, <2>3, <2>4 DEF MissionInv, MissionsTypeOK
  \* The visits that only turn to their next step.
  <1>6. ASSUME NEW v \in Visits, NEW step \in VisitSteps \ {"claim"}, Turns(v, step),
               visit[v].do \in {"apply", "set", "complete", "prune"},
               UNCHANGED <<claimedAt, coupons, jostled>>,
               progress' \in [AllMissions -> Nat],
               mission' \in [AllMissions -> {"ACTIVE", "COMPLETED", "CLAIMED"}],
               events' \subseteq 1 .. Events, tracked' \in 0 .. Events
        PROVE  MissionInv'
    <2>. DEFINE r == [visit[v] EXCEPT !.do = step]
    <2>1. visit[v] \in VisitRecords /\ visit[v].on \in AllMissions
      BY <1>1, <1>6 DEF MissionInv, VisitsAim
    <2>2. r \in VisitRecords /\ r.do = step /\ r.on \in AllMissions
      BY <2>1 DEF VisitRecords
    <2>3. visit' = [visit EXCEPT ![v] = r]
      BY <1>1, <1>6 DEF Turns
    <2>. QED
      BY <1>3, <1>6, <2>2, <2>3
  <1>7. ASSUME NEW v \in Visits, NEW value, AfterUpdate(v, value)
        PROVE  \E step \in VisitSteps \ {"claim"} : Turns(v, step)
    <2>. DEFINE step == IF Reached(value) /\ mission[visit[v].on] # "CLAIMED"
                          THEN "complete" ELSE "next"
    <2>1. step \in VisitSteps \ {"claim"}
      BY DEF VisitSteps
    <2>2. Turns(v, step)
      BY <1>7 DEF AfterUpdate, Turns
    <2>. QED
      BY <2>1, <2>2, Zenon
  <1>8. ASSUME NEW v \in Visits, CountEvent(v)
        PROVE  MissionInv'
    <2>1. PICK step \in VisitSteps \ {"claim"} : Turns(v, step)
      BY <1>7, <1>8 DEF CountEvent
    <2>2. visit[v].on \in AllMissions
      BY <1>8 DEF CountEvent, MissionInv, VisitsAim
    <2>3. progress' \in [AllMissions -> Nat]
      BY <1>8, <2>2 DEF CountEvent, MissionInv, MissionsTypeOK
    <2>. QED
      BY <1>6, <1>8, <2>1, <2>3 DEF CountEvent, MissionInv, MissionsTypeOK
  <1>9. ASSUME NEW v \in Visits, CountWindow(v)
        PROVE  MissionInv'
    <2>. DEFINE n == Cardinality({e \in events : e <= visit[v].at})
                r == [visit[v] EXCEPT !.do = "set", !.value = n]
    <2>1. visit[v] \in VisitRecords /\ visit[v].on \in AllMissions
      BY <1>1, <1>9 DEF CountWindow, MissionInv, VisitsAim
    <2>2. n \in Nat
      <3>1. IsFiniteSet(1 .. Events)
        BY FS_Interval
      <3>2. IsFiniteSet({e \in events : e <= visit[v].at})
        BY <3>1, FS_Subset DEF MissionInv, MissionsTypeOK
      <3>. QED
        BY <3>2, FS_CardinalityType
    <2>3. r \in VisitRecords /\ r.do = "set" /\ r.on \in AllMissions
      BY <2>1, <2>2 DEF VisitRecords, VisitSteps
    <2>4. visit' = [visit EXCEPT ![v] = r]
      BY <1>1, <1>9 DEF CountWindow
    <2>5. UNCHANGED <<progress, mission, claimedAt, coupons, jostled, events, tracked>>
      BY <1>9 DEF CountWindow, progressRow
    <2>. QED
      BY <1>3, <2>3, <2>4, <2>5 DEF MissionInv, MissionsTypeOK
  <1>10. ASSUME NEW v \in Visits, SetWindow(v)
         PROVE  MissionInv'
    <2>1. PICK step \in VisitSteps \ {"claim"} : Turns(v, step)
      BY <1>7, <1>10 DEF SetWindow
    <2>2. visit[v].value \in Nat
      BY <1>1 DEF VisitRecords
    <2>3. progress' \in [AllMissions -> Nat]
      BY <1>10, <2>2 DEF SetWindow, MissionInv, MissionsTypeOK
    <2>. QED
      BY <1>6, <1>10, <2>1, <2>3 DEF SetWindow, MissionInv, MissionsTypeOK
  <1>11. ASSUME NEW v \in Visits, CompleteMission(v)
         PROVE  MissionInv'
    <2>1. mission' \in [AllMissions -> {"ACTIVE", "COMPLETED", "CLAIMED"}]
      BY <1>11 DEF CompleteMission, MissionInv, MissionsTypeOK
    <2>2. "prune" \in VisitSteps \ {"claim"}
      BY DEF VisitSteps
    <2>. QED
      BY <1>6, <1>11, <2>1, <2>2 DEF CompleteMission, MissionInv, MissionsTypeOK
  <1>12. ASSUME NEW v \in Visits, Prune(v)
         PROVE  MissionInv'
    <2>1. events' \subseteq 1 .. Events
      BY <1>12 DEF Prune, MissionInv, MissionsTypeOK
    <2>2. "next" \in VisitSteps \ {"claim"}
      BY DEF VisitSteps
    <2>. QED
      BY <1>6, <1>12, <2>1, <2>2 DEF Prune, progressRow, MissionInv, MissionsTypeOK
  <1>13. ASSUME NEW v \in Visits, EndTracking(v)
         PROVE  MissionInv'
    <2>1. UNCHANGED <<progress, mission, claimedAt, coupons, jostled, events, tracked>>
      BY <1>13 DEF EndTracking, progressRow
    <2>2. visit' = [visit EXCEPT ![v] = NoVisit]
      BY <1>13 DEF EndTracking
    <2>. QED
      BY <1>3, <2>1, <2>2, NoVisitFits DEF MissionInv, MissionsTypeOK
  <1>14. ASSUME CleanUp
         PROVE  MissionInv'
    <2>1. UNCHANGED <<progress, mission, claimedAt, coupons, jostled, tracked, visit>>
          /\ events' = {}
      BY <1>14 DEF CleanUp, progressRow
    <2>. QED
      BY <1>2, <2>1 DEF MissionInv, MissionsTypeOK, VisitsAim, OneClaim, ClaimIsPaid
  <1>. QED
    BY <1>4, <1>5, <1>8, <1>9, <1>10, <1>11, <1>12, <1>13, <1>14 DEF TrackStep

LEMMA ClaimKeeps ==
  ASSUME PointInv, MissionInv, ClaimStep
  PROVE  MissionInv'
  <1>1. visit \in [Visits -> VisitRecords]
    BY DEF MissionInv, MissionsTypeOK, VisitRecords
  <1>2. ASSUME NEW v \in Visits, ClaimAbort(v)
        PROVE  MissionInv'
    <2>1. UNCHANGED <<progress, mission, claimedAt, coupons, jostled, events, tracked, credited>>
      BY <1>2 DEF ClaimAbort, progressRow, pointVars
    <2>2. visit' = [visit EXCEPT ![v] = NoVisit]
      BY <1>2 DEF ClaimAbort
    <2>3. VisitsAim' /\ OneClaim' /\ ClaimIsPaid' /\ visit' \in [Visits -> VisitRecords]
      BY <2>1, <2>2, TrackMoves, NoVisitFits
    <2>. QED
      BY <2>1, <2>3 DEF MissionInv, MissionsTypeOK, VisitRecords
  <1>3. ASSUME NEW v \in Visits, NEW m \in AllMissions, ClaimRead(v, m)
        PROVE  MissionInv'
    <2>. DEFINE r == [visit[v] EXCEPT !.do = "claim", !.on = m]
    <2>1. r \in VisitRecords /\ r.do = "claim" /\ r.on = m
      BY <1>1 DEF VisitRecords, VisitSteps
    <2>2. visit' = [visit EXCEPT ![v] = r] /\ m \notin claimedAt
      BY <1>1, <1>3 DEF ClaimRead, Claimable
    <2>3. UNCHANGED <<progress, mission, claimedAt, coupons, events, tracked, credited>>
      BY <1>3 DEF ClaimRead, progressRow, pointVars
    <2>4. jostled' = (jostled \/ \E w \in Visits : visit[w].do = "claim" /\ visit[w].on = m)
      BY <1>3 DEF ClaimRead
    <2>5. visit'[v] = r /\ \A w \in Visits \ {v} : visit'[w] = visit[w]
      BY <1>1, <2>2
    <2>6. visit' \in [Visits -> VisitRecords] /\ VisitsAim'
      BY <1>1, <2>1, <2>2, <2>5 DEF MissionInv, VisitsAim
    <2>7. OneClaim'
      <3>1. SUFFICES ASSUME ~jostled' PROVE OneClaim'
        BY DEF OneClaim
      <3>2. ~jostled /\ \A w \in Visits : ~(visit[w].do = "claim" /\ visit[w].on = m)
        BY <2>4, <3>1, Zenon
      <3>3. /\ \A n \in CouponMissions : n \notin claimedAt => coupons[n] = 0
            /\ \A n \in CouponMissions : coupons[n] <= 1
            /\ \A w \in Visits : visit[w].do = "claim" => visit[w].on \notin claimedAt
            /\ \A u, w \in Visits :
                  visit[u].do = "claim" /\ visit[w].do = "claim" /\ visit[u].on = visit[w].on => u = w
        BY <3>2 DEF MissionInv, OneClaim
      <3>4. \A w \in Visits : visit'[w].do = "claim" => visit'[w].on \notin claimedAt
        BY <2>1, <2>2, <2>5, <3>3
      <3>5. \A u, w \in Visits :
              visit'[u].do = "claim" /\ visit'[w].do = "claim" /\ visit'[u].on = visit'[w].on => u = w
        BY <2>1, <2>5, <3>2, <3>3
      <3>. QED
        BY <2>3, <3>3, <3>4, <3>5 DEF OneClaim
    <2>8. jostled' \in BOOLEAN
      BY <2>4, Zenon DEF MissionInv, MissionsTypeOK
    <2>9. MissionsTypeOK'
      BY <2>3, <2>6, <2>8 DEF MissionInv, MissionsTypeOK, VisitRecords
    <2>. QED
      BY <2>3, <2>6, <2>7, <2>9 DEF MissionInv, ClaimIsPaid
  <1>4. ASSUME NEW v \in Visits, ClaimCommit(v)
        PROVE  MissionInv'
    <2>. DEFINE m == visit[v].on
    <2>1. /\ visit[v].do = "claim" /\ m \in AllMissions /\ claimedAt' = claimedAt \cup {m}
          /\ mission' = [mission EXCEPT ![m] = "CLAIMED"] /\ events' = {}
          /\ visit' = [visit EXCEPT ![v] = NoVisit]
          /\ UNCHANGED <<progress, tracked, jostled>>
      BY <1>4 DEF ClaimCommit, MissionInv, VisitsAim
    <2>2. \/ /\ m \in CouponMissions /\ coupons' = [coupons EXCEPT ![m] = @ + 1]
             /\ credited' = credited
          \/ /\ m \notin CouponMissions /\ coupons' = coupons /\ m \in credited'
             /\ credited \subseteq credited'
      BY <1>4 DEF ClaimCommit, Reward, NoCredit, Credit
    <2>3. visit'[v] = NoVisit /\ \A w \in Visits \ {v} : visit'[w] = visit[w]
      BY <1>1, <2>1
    <2>4. visit' \in [Visits -> VisitRecords] /\ VisitsAim'
      BY <1>1, <2>1, <2>3, NoVisitFits DEF MissionInv, VisitsAim
    <2>5. coupons' \in [AllMissions -> Nat] /\ \A n \in AllMissions \ {m} : coupons'[n] = coupons[n]
      BY <2>1, <2>2 DEF MissionInv, MissionsTypeOK
    <2>6. m \in CouponMissions => coupons'[m] = coupons[m] + 1
      BY <2>1, <2>2 DEF MissionInv, MissionsTypeOK
    <2>7. \A n \in AllMissions : coupons[n] \in Nat /\ coupons'[n] \in Nat
      BY <2>5 DEF MissionInv, MissionsTypeOK
    <2>8. MissionsTypeOK'
      <3>1. jostled' \in BOOLEAN
        BY <2>1 DEF MissionInv, MissionsTypeOK
      <3>2. mission' \in [AllMissions -> {"ACTIVE", "COMPLETED", "CLAIMED"}]
        BY <2>1 DEF MissionInv, MissionsTypeOK
      <3>. QED
        BY <2>1, <2>4, <2>5, <3>1, <3>2 DEF MissionInv, MissionsTypeOK, VisitRecords
    <2>9. ClaimIsPaid'
      <3>1. \A n \in claimedAt : coupons[n] > 0 => coupons'[n] > 0
        BY <2>2, <2>5, <2>6, <2>7 DEF MissionInv, MissionsTypeOK
      <3>2. coupons'[m] > 0 \/ m \in credited'
        BY <2>1, <2>2, <2>6, <2>7
      <3>3. credited \subseteq credited'
        BY <2>2
      <3>. QED
        BY <2>1, <3>1, <3>2, <3>3 DEF MissionInv, ClaimIsPaid
    <2>10. OneClaim'
      <3>1. SUFFICES ASSUME ~jostled PROVE OneClaim'
        BY <2>1 DEF OneClaim
      <3>2. /\ \A n \in CouponMissions : n \notin claimedAt => coupons[n] = 0
            /\ \A n \in CouponMissions : coupons[n] <= 1
            /\ \A w \in Visits : visit[w].do = "claim" => visit[w].on \notin claimedAt
            /\ \A u, w \in Visits :
                  visit[u].do = "claim" /\ visit[w].do = "claim" /\ visit[u].on = visit[w].on => u = w
        BY <3>1 DEF MissionInv, OneClaim
      <3>3. \A n \in CouponMissions : n # m => coupons'[n] = coupons[n]
        BY <2>5 DEF AllMissions
      <3>4. m \in CouponMissions => coupons[m] = 0 /\ coupons'[m] = 1
        BY <2>1, <2>6, <3>2
      <3>5. \A n \in CouponMissions : n \notin claimedAt' => coupons'[n] = 0
        BY <2>1, <3>2, <3>3
      <3>6. \A n \in CouponMissions : coupons'[n] <= 1
        BY <3>2, <3>3, <3>4
      <3>7. \A w \in Visits : visit'[w].do = "claim" => w # v /\ visit'[w] = visit[w]
        BY <2>3, NoVisitFits
      <3>8. \A w \in Visits : visit'[w].do = "claim" => visit'[w].on \notin claimedAt'
        BY <2>1, <3>2, <3>7
      <3>9. \A u, w \in Visits :
              visit'[u].do = "claim" /\ visit'[w].do = "claim" /\ visit'[u].on = visit'[w].on => u = w
        BY <3>2, <3>7
      <3>. QED
        BY <3>5, <3>6, <3>8, <3>9 DEF OneClaim
    <2>. QED
      BY <2>4, <2>8, <2>9, <2>10 DEF MissionInv
  <1>. QED
    BY <1>2, <1>3, <1>4 DEF ClaimStep

LEMMA RewardsStart == RewardsInit => RewardsInv
  <1>. SUFFICES ASSUME RewardsInit PROVE RewardsInv
    OBVIOUS
  <1>1. PointInv /\ credited = {}
    BY PointInit DEF RewardsInit, PointsInit
  <1>2. MissionsInit
    BY DEF RewardsInit
  <1>3. MissionsTypeOK
    <2>1. visit \in [Visits -> VisitRecords]
      BY <1>2, NoVisitFits DEF MissionsInit
    <2>2. jostled \in BOOLEAN
      BY <1>2 DEF MissionsInit
    <2>3. /\ progress \in [AllMissions -> Nat] /\ coupons \in [AllMissions -> Nat]
          /\ mission \in [AllMissions -> {"ACTIVE", "COMPLETED", "CLAIMED"}]
          /\ claimedAt = {} /\ events = {} /\ tracked \in 0 .. Events
      BY <1>2, MissionsAssumption DEF MissionsInit
    <2>. QED
      BY <2>1, <2>2, <2>3 DEF MissionsTypeOK, VisitRecords
  <1>4. \A v \in Visits : visit[v].do = "idle"
    BY <1>2, NoVisitFits DEF MissionsInit
  <1>5. \A m \in CouponMissions : coupons[m] = 0
    BY <1>2 DEF MissionsInit, AllMissions
  <1>6. VisitsAim /\ OneClaim /\ ClaimIsPaid
    BY <1>2, <1>4, <1>5 DEF MissionsInit, VisitsAim, OneClaim, ClaimIsPaid
  <1>. QED
    BY <1>1, <1>3, <1>6 DEF RewardsInv, MissionInv

LEMMA RewardsStep ==
  ASSUME RewardsInv, [RewardsNext]_<<pointVars, missionVars>>
  PROVE  RewardsInv'
  <1>. USE DEF RewardsInv
  <1>1. CASE UNCHANGED missionVars /\ (PointsNext \/ UNCHANGED pointVars)
    <2>1. PointInv'
      BY <1>1, PointStep
    <2>2. credited \subseteq credited'
      BY <1>1 DEF PointsNext, AddCommit, Credit, NoCredit, Redeem, IssueVoucher, Debit,
                  EnterRedemption, ExpireCommit, BreaksOff, AddLookUp, ExpireLookUp, RedeemLookUp,
                  DayEnds, GrowsOld, entries, pointVars
    <2>3. MissionInv'
      BY <1>1, <2>2 DEF missionVars, MissionInv, MissionsTypeOK, VisitsAim, OneClaim, ClaimIsPaid
    <2>. QED
      BY <2>1, <2>3
  <1>2. CASE TrackStep /\ UNCHANGED pointVars
    BY <1>2, PointStep, TrackKeeps
  <1>3. CASE ClaimStep
    BY <1>3, ClaimPoints, ClaimKeeps DEF MissionInv, VisitsAim
  <1>. QED
    BY <1>1, <1>2, <1>3 DEF RewardsNext, MissionsNext

LEMMA RewardsInvariant == RewardsSpec => []RewardsInv
  <1>. QED
    BY RewardsStart, RewardsStep, PTL DEF RewardsSpec

\* The balance of LoyaltyService is what its ledger says, less the redemptions that were
\* debited and never entered, for any number of calls and claims at once.
THEOREM BalanceAlwaysLedger == RewardsSpec => []BalanceIsLedger
  <1>1. RewardsInv => BalanceIsLedger
    BY DEF RewardsInv, PointInv
  <1>. QED
    BY <1>1, RewardsInvariant, PTL

\* While no two calls of addPoints or redeemPoints read before either writes, the daily
\* limit holds, and the balance is not negative until points expire, whatever missions add.
THEOREM AlwaysWithinMeans == RewardsSpec => []WithinMeans
  <1>1. RewardsInv => WithinMeans
    BY DEF RewardsInv, PointInv
  <1>. QED
    BY <1>1, RewardsInvariant, PTL

\* claimMission gives the coupon of a mission once unless two claims of it overlap, however
\* often trackEvent completes the mission again.
THEOREM CouponGivenOnce == RewardsSpec => []CouponOnce
  <1>1. RewardsInv => CouponOnce
    BY DEF RewardsInv, MissionInv, OneClaim, CouponOnce
  <1>. QED
    BY <1>1, RewardsInvariant, PTL

\* Whatever claims, events and expirations overlap, a mission with claimedAt has given its
\* coupon, or its points are in the ledger.
THEOREM ClaimsArePaid == RewardsSpec => []ClaimIsPaid
  <1>1. RewardsInv => ClaimIsPaid
    BY DEF RewardsInv, MissionInv
  <1>. QED
    BY <1>1, RewardsInvariant, PTL

(***************************************************************************)
(* Coupons.                                                                *)
(***************************************************************************)

TakenUp == {"booked", "ended", "finished"}
Counted == {d \in Deals : finishing[d] \in {"close", "done"}}

\* What holds of a deal by itself.
DealsFit ==
    /\ usage = {d \in Deals : deal[d] \in TakenUp}
    /\ \A d \in Deals : finishing[d] # "no" => deal[d] \in TakenUp
    /\ \A d \in Deals : finishing[d] \in {"count", "count twice", "close", "done"}
                        => deal[d] = "finished"

\* While no two requests of a client and no two completions of a booking overlap: each
\* deal on the way to a discount is of a client of its own, and each completion is counted
\* once.
OneDeal ==
    ~pressed =>
       /\ \A d \in Deals : finishing[d] \notin {"twice", "count twice"}
       /\ \A d, e \in Deals : /\ deal[d] \in TakenUp \cup {"quoted"}
                              /\ deal[e] \in TakenUp \cup {"quoted"}
                              /\ buyer[d] = buyer[e]
                              => d = e
       /\ uses <= Cardinality(Counted)

FullIsClosed ==
    uses >= MaxUses => \/ couponStatus = "USED_UP" \/ unfinished
                       \/ \E d \in Deals : finishing[d] \in {"count", "close"}

CouponInv == CouponsTypeOK /\ DealsFit /\ OneDeal /\ FullIsClosed

LEMMA CouponStart == CouponsInit => CouponInv
  <1>. SUFFICES ASSUME CouponsInit PROVE CouponInv
    OBVIOUS
  <1>1. (CHOOSE b \in Buyers : TRUE) \in Buyers
    BY CouponsAssumption
  <1>2. CouponsTypeOK
    <2>1. pressed \in BOOLEAN /\ unfinished \in BOOLEAN
      BY DEF CouponsInit
    <2>2. /\ buyer \in [Deals -> Buyers]
          /\ deal \in [Deals -> {"none", "quoted", "refused", "booked", "ended", "finished"}]
          /\ finishing \in [Deals -> {"no", "write", "twice", "count", "count twice", "close",
                                     "done"}]
      BY <1>1 DEF CouponsInit
    <2>3. couponStatus \in {"ACTIVE", "USED_UP"} /\ uses \in Nat /\ usage \subseteq Deals
          /\ served \subseteq Buyers
      BY DEF CouponsInit
    <2>. QED
      BY <2>1, <2>2, <2>3 DEF CouponsTypeOK
  <1>3. DealsFit
    BY DEF CouponsInit, DealsFit, TakenUp
  <1>4. OneDeal
    <2>1. Counted = {} /\ uses = 0
      BY DEF CouponsInit, Counted
    <2>2. uses <= Cardinality(Counted)
      BY <2>1, FS_EmptySet
    <2>. QED
      BY <2>2 DEF CouponsInit, OneDeal, TakenUp
  <1>5. FullIsClosed
    BY CouponsAssumption DEF CouponsInit, FullIsClosed
  <1>. QED
    BY <1>2, <1>3, <1>4, <1>5 DEF CouponInv

\* The count of the completions is finite and grows by the deal that is new in it.
LEMMA CountedGrows ==
  ASSUME CouponsTypeOK, NEW d \in Deals, NEW f, finishing' = [finishing EXCEPT ![d] = f]
  PROVE  /\ Cardinality(Counted) \in Nat /\ Cardinality(Counted') \in Nat
         /\ (finishing[d] \in {"close", "done"} <=> f \in {"close", "done"})
               => Cardinality(Counted') = Cardinality(Counted)
         /\ finishing[d] \notin {"close", "done"} /\ f \in {"close", "done"}
               => Cardinality(Counted') = Cardinality(Counted) + 1
  <1>1. IsFiniteSet(Counted) /\ IsFiniteSet(Counted')
    BY CouponsAssumption, FS_Subset DEF Counted
  <1>2. Cardinality(Counted) \in Nat /\ Cardinality(Counted') \in Nat
    BY <1>1, FS_CardinalityType
  <1>3. CASE finishing[d] \in {"close", "done"} <=> f \in {"close", "done"}
    <2>1. Counted' = Counted
      BY <1>3 DEF CouponsTypeOK, Counted
    <2>. QED
      BY <1>2, <1>3, <2>1
  <1>4. CASE finishing[d] \notin {"close", "done"} /\ f \in {"close", "done"}
    <2>1. Counted' = Counted \cup {d} /\ d \notin Counted
      BY <1>4 DEF CouponsTypeOK, Counted
    <2>. QED
      BY <1>1, <1>2, <1>4, <2>1, FS_AddElement
  <1>5. CASE finishing[d] \in {"close", "done"} /\ f \notin {"close", "done"}
    BY <1>2, <1>5
  <1>. QED
    BY <1>3, <1>4, <1>5

LEMMA CouponStep ==
  ASSUME CouponInv, [CouponsNext]_couponVars
  PROVE  CouponInv'
  <1>. USE DEF CouponInv
  <1>1. CASE UNCHANGED couponVars
    BY <1>1 DEF couponVars, CouponsTypeOK, DealsFit, OneDeal, FullIsClosed, Counted
  <1>u. uses \in Nat
    BY DEF CouponsTypeOK
  \* The steps that move a deal and not its completion.
  <1>2. ASSUME NEW d \in Deals, NEW b \in Buyers, Quote(d, b)
        PROVE  CouponInv'
    <2>1. /\ deal' = [deal EXCEPT ![d] = "quoted"] /\ buyer' = [buyer EXCEPT ![d] = b]
          /\ deal[d] = "none" /\ ~ \E e \in usage : buyer[e] = b
          /\ UNCHANGED <<couponStatus, uses, usage, finishing, served, unfinished>>
      BY <1>2 DEF Quote, Applies, NotYetUsedBy
    <2>2. pressed' = (pressed \/ \E e \in Deals : deal[e] = "quoted" /\ buyer[e] = b)
      BY <1>2 DEF Quote
    <2>3. CouponsTypeOK'
      <3>1. pressed' \in BOOLEAN /\ unfinished' \in BOOLEAN
        BY <2>1, <2>2, Zenon DEF CouponsTypeOK
      <3>. QED
        BY <2>1, <3>1 DEF CouponsTypeOK
    <2>4. DealsFit'
      BY <2>1 DEF CouponsTypeOK, DealsFit, TakenUp
    <2>5. Counted' = Counted
      BY <2>1 DEF Counted
    <2>6. OneDeal'
      <3>1. SUFFICES ASSUME ~pressed' PROVE OneDeal'
        BY DEF OneDeal
      <3>2. ~pressed /\ \A e \in Deals : ~(deal[e] = "quoted" /\ buyer[e] = b)
        BY <2>2, <3>1, Zenon
      <3>3. \A e \in Deals : deal[e] \in TakenUp \cup {"quoted"} => buyer[e] # b
        BY <2>1, <3>2 DEF DealsFit
      <3>4. \A e, f \in Deals : /\ deal'[e] \in TakenUp \cup {"quoted"}
                                /\ deal'[f] \in TakenUp \cup {"quoted"}
                                /\ buyer'[e] = buyer'[f]
                                => e = f
        BY <2>1, <3>2, <3>3 DEF CouponsTypeOK, OneDeal
      <3>. QED
        BY <2>1, <2>5, <3>2, <3>4 DEF OneDeal
    <2>7. FullIsClosed'
      BY <2>1 DEF FullIsClosed
    <2>. QED
      BY <2>3, <2>4, <2>6, <2>7
  <1>3. ASSUME NEW d \in Deals, Book(d)
        PROVE  CouponInv'
    <2>1. /\ \/ deal' = [deal EXCEPT ![d] = "booked"] /\ usage' = usage \cup {d}
             \/ deal' = [deal EXCEPT ![d] = "refused"] /\ usage' = usage
          /\ deal[d] = "quoted"
          /\ UNCHANGED <<couponStatus, uses, buyer, finishing, served, pressed, unfinished>>
      BY <1>3 DEF Book
    <2>2. CouponsTypeOK'
      BY <2>1 DEF CouponsTypeOK
    <2>3. DealsFit'
      BY <2>1 DEF CouponsTypeOK, DealsFit, TakenUp
    <2>4. \A e \in Deals : deal'[e] \in TakenUp \cup {"quoted"} => deal[e] \in TakenUp \cup {"quoted"}
      BY <2>1 DEF CouponsTypeOK, TakenUp
    <2>5. OneDeal' /\ FullIsClosed'
      BY <2>1, <2>4 DEF OneDeal, FullIsClosed, Counted
    <2>. QED
      BY <2>2, <2>3, <2>5
  <1>4. ASSUME NEW d \in Deals, LosesBooking(d) \/ FinishedByOthers(d)
        PROVE  CouponInv'
    <2>1. /\ \/ deal' = [deal EXCEPT ![d] = "ended"]
             \/ deal' = [deal EXCEPT ![d] = "finished"]
          /\ deal[d] = "booked" /\ served' \subseteq Buyers
          /\ UNCHANGED <<couponStatus, uses, buyer, usage, finishing, pressed, unfinished>>
      BY <1>4 DEF LosesBooking, FinishedByOthers, CouponsTypeOK
    <2>2. CouponsTypeOK'
      BY <2>1 DEF CouponsTypeOK
    <2>3. DealsFit'
      BY <2>1 DEF CouponsTypeOK, DealsFit, TakenUp
    <2>4. \A e \in Deals : deal'[e] \in TakenUp \cup {"quoted"} => deal[e] \in TakenUp \cup {"quoted"}
      BY <2>1 DEF CouponsTypeOK, TakenUp
    <2>5. OneDeal' /\ FullIsClosed'
      BY <2>1, <2>4 DEF OneDeal, FullIsClosed, Counted
    <2>. QED
      BY <2>2, <2>3, <2>5
  \* The steps of a completion.
  <1>5. ASSUME NEW d \in Deals, CompleteRead(d)
        PROVE  CouponInv'
    <2>1. /\ \/ finishing' = [finishing EXCEPT ![d] = "write"] /\ pressed' = pressed
             \/ finishing' = [finishing EXCEPT ![d] = "twice"] /\ pressed' = TRUE
          /\ deal[d] = "booked" /\ finishing[d] = "no"
          /\ UNCHANGED <<couponStatus, uses, deal, buyer, usage, served, unfinished>>
      BY <1>5 DEF CompleteRead, MayComplete
    <2>2. CouponsTypeOK'
      BY <2>1 DEF CouponsTypeOK
    <2>3. DealsFit'
      BY <2>1 DEF CouponsTypeOK, DealsFit, TakenUp
    <2>4. Cardinality(Counted') = Cardinality(Counted)
      BY <2>1, CountedGrows
    <2>5. OneDeal'
      <3>1. CASE pressed'
        BY <3>1 DEF OneDeal
      <3>2. CASE ~pressed'
        BY <2>1, <2>4, <3>2 DEF OneDeal, CouponsTypeOK
      <3>. QED
        BY <3>1, <3>2
    <2>6. FullIsClosed'
      BY <2>1 DEF FullIsClosed, CouponsTypeOK
    <2>. QED
      BY <2>2, <2>3, <2>5, <2>6
  <1>6. ASSUME NEW d \in Deals, CompleteWrite(d)
        PROVE  CouponInv'
    <2>. DEFINE f == IF finishing[d] = "twice" THEN "count twice" ELSE "count"
    <2>1. /\ finishing' = [finishing EXCEPT ![d] = f]
          /\ deal' = [deal EXCEPT ![d] = "finished"] /\ finishing[d] \in {"write", "twice"}
          /\ UNCHANGED <<couponStatus, uses, buyer, usage, served, pressed, unfinished>>
      BY <1>6 DEF CompleteWrite, CouponsTypeOK
    <2>f. f \in {"count", "count twice"} /\ (finishing[d] # "twice" => f = "count")
      OBVIOUS
    <2>. HIDE DEF f
    <2>2. CouponsTypeOK'
      BY <2>1, <2>f DEF CouponsTypeOK
    <2>3. DealsFit'
      BY <2>1, <2>f DEF CouponsTypeOK, DealsFit, TakenUp
    <2>4. Cardinality(Counted') = Cardinality(Counted)
      BY <2>1, <2>f, CountedGrows
    <2>5. \A e \in Deals : deal'[e] \in TakenUp \cup {"quoted"} => deal[e] \in TakenUp \cup {"quoted"}
      BY <2>1, <2>f DEF CouponsTypeOK, DealsFit, TakenUp
    <2>6. OneDeal'
      BY <2>1, <2>f, <2>4, <2>5 DEF OneDeal, CouponsTypeOK
    <2>7. FullIsClosed'
      BY <2>1, <2>f DEF FullIsClosed, CouponsTypeOK
    <2>. QED
      BY <2>2, <2>3, <2>6, <2>7
  <1>7. ASSUME NEW d \in Deals, CountUse(d)
        PROVE  CouponInv'
    <2>1. /\ finishing' = [finishing EXCEPT ![d] = Again(d)] /\ uses' = uses + 1
          /\ finishing[d] \in {"count", "count twice"} /\ Again(d) \in {"count", "close"}
          /\ finishing[d] = "count" => Again(d) = "close"
          /\ UNCHANGED <<couponStatus, deal, buyer, usage, served, pressed, unfinished>>
      BY <1>7 DEF CountUse, Again
    <2>u. uses' = uses + 1
      BY <2>1
    <2>2. CouponsTypeOK'
      <3>1. uses' \in Nat
        BY <1>u, <2>u
      <3>2. finishing' \in [Deals -> {"no", "write", "twice", "count", "count twice", "close",
                                    "done"}]
        BY <2>1 DEF CouponsTypeOK
      <3>. QED
        BY <2>1, <3>1, <3>2 DEF CouponsTypeOK
    <2>3. DealsFit'
      BY <2>1 DEF CouponsTypeOK, DealsFit, TakenUp
    <2>4. finishing[d] = "count" => Cardinality(Counted') = Cardinality(Counted) + 1
      BY <2>1, CountedGrows
    <2>5. OneDeal'
      <3>1. SUFFICES ASSUME ~pressed PROVE OneDeal'
        BY <2>1 DEF OneDeal
      <3>2. finishing[d] = "count" /\ uses <= Cardinality(Counted)
        BY <2>1, <3>1 DEF OneDeal
      <3>3. uses \in Nat /\ Cardinality(Counted) \in Nat
        BY <2>1, CountedGrows DEF CouponsTypeOK
      <3>4. uses' <= Cardinality(Counted')
        BY <2>1, <2>4, <3>2, <3>3
      <3>. QED
        BY <2>1, <3>1, <3>4 DEF OneDeal, CouponsTypeOK
    <2>6. FullIsClosed'
      BY <2>1 DEF FullIsClosed, CouponsTypeOK
    <2>. QED
      BY <2>2, <2>3, <2>5, <2>6
  <1>8. ASSUME NEW d \in Deals, CloseCoupon(d) \/ CompletionDies(d)
        PROVE  CouponInv'
    <2>1. /\ finishing' = [finishing EXCEPT ![d] = "done"]
          /\ finishing[d] \in {"count", "count twice", "close"}
          /\ UNCHANGED <<uses, deal, buyer, usage, served, pressed>>
          /\ couponStatus' \in {couponStatus, "USED_UP"}
      BY <1>8 DEF CloseCoupon, CompletionDies
    <2>2. \/ unfinished' = unfinished /\ (uses >= MaxUses => couponStatus' = "USED_UP")
          \/ unfinished' = TRUE
      BY <1>8 DEF CloseCoupon, CompletionDies, IsFull
    <2>3. CouponsTypeOK'
      <3>1. unfinished' \in BOOLEAN /\ pressed' \in BOOLEAN
        BY <2>1, <2>2 DEF CouponsTypeOK
      <3>. QED
        BY <2>1, <3>1 DEF CouponsTypeOK
    <2>4. DealsFit'
      BY <2>1 DEF CouponsTypeOK, DealsFit, TakenUp
    <2>5. /\ Cardinality(Counted) \in Nat /\ Cardinality(Counted') \in Nat
          /\ \/ Cardinality(Counted') = Cardinality(Counted)
             \/ Cardinality(Counted') = Cardinality(Counted) + 1
      <3>1. CASE finishing[d] = "close"
        BY <2>1, <3>1, CountedGrows
      <3>2. CASE finishing[d] # "close"
        <4>1. finishing[d] \notin {"close", "done"}
          BY <2>1, <3>2
        <4>. QED
          BY <2>1, <4>1, CountedGrows
      <3>. QED
        BY <3>1, <3>2
    <2>6. OneDeal'
      <3>1. uses' = uses
        BY <2>1
      <3>2. uses <= Cardinality(Counted) => uses' <= Cardinality(Counted')
        BY <1>u, <2>5, <3>1
      <3>. QED
        BY <2>1, <3>2 DEF OneDeal, CouponsTypeOK
    <2>7. FullIsClosed'
      BY <2>1, <2>2 DEF FullIsClosed
    <2>. QED
      BY <2>3, <2>4, <2>6, <2>7
  <1>. QED
    BY <1>1, <1>2, <1>3, <1>4, <1>5, <1>6, <1>7, <1>8 DEF CouponsNext

LEMMA CouponInvariant == CouponsSpec => []CouponInv
  <1>. QED
    BY CouponStart, CouponStep, PTL DEF CouponsSpec

\* A client gets the discount of applyCoupon once, whatever its bookings come to and
\* whoever finishes them, unless two of its requests or two completions overlap.
THEOREM DiscountGivenOnce == CouponsSpec => []DiscountOnce
  <1>1. CouponInv => DiscountOnce
    BY DEF CouponInv, DealsFit, OneDeal, DiscountOnce
  <1>. QED
    BY <1>1, CouponInvariant, PTL

\* markCouponAsUsed counts no more than the services that were booked with the coupon, and
\* a coupon counted as often as it may be is closed or about to be.
THEOREM UsesAlwaysServices == CouponsSpec => []UsesAreServices
  <1>1. ASSUME CouponInv PROVE UsesAreServices
    <2>. DEFINE given == {d \in usage : deal[d] = "finished"}
    <2>1. Counted \subseteq given /\ IsFiniteSet(given)
      <3>1. Counted \subseteq given /\ given \subseteq Deals
        BY <1>1 DEF CouponInv, DealsFit, Counted
      <3>. QED
        BY <3>1, CouponsAssumption, FS_Subset
    <2>2. /\ Cardinality(Counted) \in Nat /\ Cardinality(given) \in Nat
          /\ Cardinality(Counted) <= Cardinality(given)
      BY <2>1, FS_Subset, FS_CardinalityType
    <2>3. ~pressed => uses <= Cardinality(given)
      <3>1. uses \in Nat
        BY <1>1 DEF CouponInv, CouponsTypeOK
      <3>2. ~pressed => uses <= Cardinality(Counted)
        BY <1>1 DEF CouponInv, OneDeal
      <3>. QED
        BY <2>2, <3>1, <3>2
    <2>. QED
      BY <1>1, <2>3 DEF CouponInv, FullIsClosed, UsesAreServices
  <1>2. CouponInv => UsesAreServices
    BY <1>1
  <1>. QED
    BY <1>2, CouponInvariant, PTL

(***************************************************************************)
(* Weekly hours.                                                           *)
(***************************************************************************)

ChangeRecords == [do : {"idle", "item", "insert", "update", "remove", "create"},
                  id : SlotIds, item : Slot, seen : SUBSET Booked]

\* While no two requests met, one at most is under way, and an item that it has checked
\* and not written yet meets no other slot.
OneChanger ==
    ~met => \A e, f \in Changers : change[e] # NoChange /\ change[f] # NoChange => e = f

ItemFree(e) ==
    \A j \in Slots : \/ change[e].do = "update" /\ j = change[e].id
                     \/ ~Meets(change[e].item, slot[j])

CheckedFree ==
    ~loose /\ ~met => \A e \in Changers : change[e].do \in {"insert", "update"} => ItemFree(e)

WeeklyInv == WeeklyTypeOK /\ OneChanger /\ CheckedFree /\ SlotsApart

\* There is a slot, and a row without one holds none.
LEMMA SlotsExist ==
  /\ NoItem \in Slot /\ NoChange \in ChangeRecords /\ NoChange.do = "idle"
  /\ Unused \notin Slot /\ Removed \notin Slot
  <1>1. PICK d \in Days : TRUE
    BY WeeklyHoursAssumption
  <1>2. [day |-> d, from |-> 0, to |-> 1] \in Slot
    BY WeeklyHoursAssumption DEF Slot
  <1>3. NoItem \in Slot
    BY <1>2, Zenon DEF NoItem
  <1>4. (CHOOSE i \in SlotIds : TRUE) \in SlotIds
    BY WeeklyHoursAssumption
  <1>5. NoChange \in ChangeRecords /\ NoChange.do = "idle"
    BY <1>3, <1>4 DEF NoChange, ChangeRecords
  <1>6. Unused \notin Slot /\ Removed \notin Slot
    BY WeeklyHoursAssumption DEF Slot, Unused, Removed
  <1>. QED
    BY <1>3, <1>5, <1>6

LEMMA MeetsBoth ==
  ASSUME NEW s \in Slot, NEW t \in Slot
  PROVE  Meets(s, t) => Meets(t, s)
  BY DEF Meets

LEMMA WeeklyStart == WeeklyInit => WeeklyInv
  <1>. SUFFICES ASSUME WeeklyInit PROVE WeeklyInv
    OBVIOUS
  <1>1. WeeklyTypeOK
    <2>1. loose \in BOOLEAN /\ met \in BOOLEAN
      BY DEF WeeklyInit
    <2>2. change \in [Changers -> ChangeRecords]
      BY SlotsExist DEF WeeklyInit
    <2>3. slot \in [SlotIds -> Slot \cup {Unused, Removed}] /\ booked \subseteq Booked
      BY DEF WeeklyInit
    <2>. QED
      BY <2>1, <2>2, <2>3 DEF WeeklyTypeOK, ChangeRecords
  <1>2. Slots = {}
    BY SlotsExist DEF WeeklyInit, Slots
  <1>3. \A e \in Changers : change[e] = NoChange
    BY DEF WeeklyInit
  <1>. QED
    BY <1>1, <1>2, <1>3, SlotsExist DEF WeeklyInv, OneChanger, CheckedFree, SlotsApart

\* One request moves on to a step that it alone takes, and writes no slot.
LEMMA ChangeMoves ==
  ASSUME WeeklyInv, NEW e \in Changers, NEW r \in ChangeRecords,
         change' = [change EXCEPT ![e] = r], slot' = slot,
         loose' \in BOOLEAN, met' \in BOOLEAN, ~loose' => ~loose,
         booked' = booked,
         ~met' => ~met /\ (change[e] # NoChange \/ r = NoChange \/ Changing = {}),
         r.do \in {"insert", "update"} => ItemFree(e)'
  PROVE  WeeklyInv'
  <1>1. change \in [Changers -> ChangeRecords]
    BY DEF WeeklyInv, WeeklyTypeOK, ChangeRecords
  <1>2. change'[e] = r /\ \A f \in Changers \ {e} : change'[f] = change[f]
    BY <1>1
  <1>3. change' \in [Changers -> ChangeRecords]
    BY <1>1
  <1>4. WeeklyTypeOK'
    BY <1>3 DEF WeeklyInv, WeeklyTypeOK, ChangeRecords
  <1>5. OneChanger'
    <2>1. SUFFICES ASSUME ~met' PROVE OneChanger'
      BY DEF OneChanger
    <2>2. \A f, g \in Changers : change[f] # NoChange /\ change[g] # NoChange => f = g
      BY <2>1 DEF WeeklyInv, OneChanger
    <2>3. CASE r = NoChange
      BY <1>2, <2>2, <2>3 DEF OneChanger
    <2>4. CASE change[e] # NoChange
      BY <1>2, <2>2, <2>4 DEF OneChanger
    <2>5. CASE Changing = {}
      BY <1>2, <2>5 DEF OneChanger, Changing
    <2>. QED
      BY <2>1, <2>3, <2>4, <2>5
  <1>6. Slots' = Slots
    BY DEF Slots
  <1>7. CheckedFree'
    <2>1. SUFFICES ASSUME ~loose', ~met', NEW f \in Changers, change'[f].do \in {"insert", "update"}
                   PROVE  ItemFree(f)'
      BY DEF CheckedFree
    <2>2. CASE f = e
      BY <1>2, <2>1, <2>2
    <2>3. CASE f # e
      <3>1. ItemFree(f)
        BY <1>2, <2>1, <2>3 DEF WeeklyInv, CheckedFree
      <3>. QED
        BY <1>2, <1>6, <2>3, <3>1 DEF ItemFree
    <2>. QED
      BY <2>2, <2>3
  <1>8. SlotsApart'
    BY <1>6 DEF WeeklyInv, SlotsApart
  <1>. QED
    BY <1>4, <1>5, <1>7, <1>8 DEF WeeklyInv

\* A slot goes: those that are left are as they were.
LEMMA SlotGoes ==
  ASSUME WeeklyInv, NEW i \in SlotIds, slot' = [slot EXCEPT ![i] = Removed],
         \/ change' = change
         \/ \E e \in Changers : Changes(e, "item") /\ change[e].do = "remove",
         UNCHANGED <<booked, loose, met>>
  PROVE  WeeklyInv'
  <1>1. change \in [Changers -> ChangeRecords] /\ change' \in [Changers -> ChangeRecords]
    BY DEF WeeklyInv, WeeklyTypeOK, ChangeRecords, Changes
  <1>2. Slots' \subseteq Slots /\ \A j \in Slots' : slot'[j] = slot[j]
    BY SlotsExist DEF WeeklyInv, WeeklyTypeOK, Slots
  <1>3. \A e \in Changers : \/ change'[e] = change[e]
                            \/ change[e].do = "remove" /\ change'[e].do = "item"
    <2>2. CASE change' = change
      BY <2>2
    <2>3. CASE \E e \in Changers : Changes(e, "item") /\ change[e].do = "remove"
      <3>1. PICK e \in Changers : Changes(e, "item") /\ change[e].do = "remove"
        BY <2>3
      <3>. DEFINE r == [change[e] EXCEPT !.do = "item"]
      <3>2. change[e] \in ChangeRecords
        BY <1>1
      <3>3. r.do = "item"
        BY <3>2 DEF ChangeRecords
      <3>4. change' = [change EXCEPT ![e] = r]
        BY <1>1, <3>1 DEF Changes
      <3>5. change'[e] = r /\ \A f \in Changers \ {e} : change'[f] = change[f]
        BY <1>1, <3>4
      <3>6. change'[e].do = "item" /\ change[e].do = "remove"
        BY <3>1, <3>3, <3>5
      <3>. QED
        BY <3>5, <3>6
    <2>. QED
      BY <2>2, <2>3
  <1>4. WeeklyTypeOK'
    BY <1>1 DEF WeeklyInv, WeeklyTypeOK, ChangeRecords
  <1>5. \A e \in Changers : change'[e] # NoChange => change[e] # NoChange
    BY <1>3, SlotsExist
  <1>6. OneChanger'
    BY <1>5 DEF WeeklyInv, OneChanger
  <1>7. CheckedFree'
    BY <1>2, <1>3 DEF WeeklyInv, CheckedFree, ItemFree
  <1>8. SlotsApart'
    BY <1>2 DEF WeeklyInv, SlotsApart
  <1>. QED
    BY <1>4, <1>6, <1>7, <1>8 DEF WeeklyInv

\* An item is written where it was found free.
LEMMA ItemWritten ==
  ASSUME WeeklyInv, NEW e \in Changers, NEW i \in SlotIds,
         slot' = [slot EXCEPT ![i] = change[e].item],
         \/ change[e].do = "insert" /\ i \notin Slots
         \/ change[e].do = "update" /\ i = change[e].id,
         Changes(e, "item"), UNCHANGED <<booked, loose, met>>
  PROVE  WeeklyInv'
  <1>. DEFINE r == [change[e] EXCEPT !.do = "item"]
              item == change[e].item
  <1>1. change \in [Changers -> ChangeRecords] /\ r \in ChangeRecords /\ r.do = "item"
        /\ item \in Slot
    BY DEF WeeklyInv, WeeklyTypeOK, ChangeRecords
  <1>2. change' = [change EXCEPT ![e] = r] /\ change' \in [Changers -> ChangeRecords]
    BY <1>1 DEF Changes
  <1>3. WeeklyTypeOK'
    BY <1>1, <1>2 DEF WeeklyInv, WeeklyTypeOK, ChangeRecords
  <1>4. change'[e].do = "item" /\ \A f \in Changers \ {e} : change'[f] = change[f]
    BY <1>1, <1>2
  <1>5. change[e] # NoChange
    BY SlotsExist
  <1>6. OneChanger'
    BY <1>4, <1>5 DEF WeeklyInv, OneChanger
  <1>7. CheckedFree'
    <2>1. SUFFICES ASSUME ~met, NEW f \in Changers, change'[f].do \in {"insert", "update"}
                   PROVE  FALSE
      BY DEF CheckedFree
    <2>2. f # e /\ change[f] # NoChange
      BY <1>4, <2>1, SlotsExist
    <2>. QED
      BY <1>5, <2>1, <2>2 DEF WeeklyInv, OneChanger
  <1>8. SlotsApart'
    <2>1. SUFFICES ASSUME ~loose, ~met, NEW j \in Slots', NEW k \in Slots', j # k
                   PROVE  ~Meets(slot'[j], slot'[k])
      BY DEF SlotsApart
    <2>2. slot'[i] = item /\ \A n \in SlotIds \ {i} : slot'[n] = slot[n]
      BY DEF WeeklyInv, WeeklyTypeOK
    <2>3. \A n \in Slots' : n \in SlotIds /\ slot'[n] \in Slot /\ (n # i => n \in Slots)
      BY <2>2 DEF Slots
    <2>4. ItemFree(e)
      BY <2>1 DEF WeeklyInv, CheckedFree
    <2>5. \A n \in Slots' : n # i => slot'[n] = slot[n] /\ ~Meets(item, slot[n])
      BY <2>2, <2>3, <2>4 DEF ItemFree
    <2>6. CASE j = i
      BY <2>1, <2>2, <2>5, <2>6
    <2>7. CASE k = i
      BY <1>1, <2>1, <2>2, <2>3, <2>5, <2>7, MeetsBoth
    <2>8. CASE j # i /\ k # i
      BY <2>1, <2>3, <2>5, <2>8 DEF WeeklyInv, SlotsApart
    <2>. QED
      BY <2>6, <2>7, <2>8
  <1>. QED
    BY <1>3, <1>6, <1>7, <1>8 DEF WeeklyInv

LEMMA WeeklyStep ==
  ASSUME WeeklyInv, [WeeklyNext]_weeklyVars
  PROVE  WeeklyInv'
  <1>1. change \in [Changers -> ChangeRecords]
    BY DEF WeeklyInv, WeeklyTypeOK, ChangeRecords
  <1>2. loose \in BOOLEAN /\ met \in BOOLEAN
    BY DEF WeeklyInv, WeeklyTypeOK
  <1>3. CASE UNCHANGED weeklyVars
    BY <1>3 DEF weeklyVars, WeeklyInv, WeeklyTypeOK, OneChanger, CheckedFree, ItemFree, SlotsApart,
                Slots
  <1>4. ASSUME NEW e \in Changers, BatchBegins(e)
        PROVE  WeeklyInv'
    <2>. DEFINE r == [change[e] EXCEPT !.do = "item", !.seen = booked]
    <2>1. r \in ChangeRecords /\ r.do = "item"
      BY <1>1 DEF ChangeRecords, WeeklyInv, WeeklyTypeOK
    <2>2. change' = [change EXCEPT ![e] = r] /\ slot' = slot /\ booked' = booked /\ loose' = loose
          /\ met' = (met \/ Changing # {})
      BY <1>1, <1>4 DEF BatchBegins
    <2>3. met' \in BOOLEAN /\ (~met' => ~met /\ Changing = {})
      BY <1>2, <2>2, Zenon
    <2>. QED
      BY <1>2, <2>1, <2>2, <2>3, ChangeMoves
  <1>5. ASSUME NEW e \in Changers, CheckItem(e)
        PROVE  WeeklyInv'
    <2>1. PICK item \in Slot, i \in SlotIds, step \in {"insert", "update", "remove"} :
             /\ \A j \in Slots : (step # "insert" /\ j = i) \/ ~Meets(item, slot[j])
             /\ change' = [change EXCEPT ![e].do = step, ![e].id = i, ![e].item = item]
      BY <1>5 DEF CheckItem
    <2>. DEFINE r == [change[e] EXCEPT !.do = step, !.id = i, !.item = item]
    <2>2. change[e] \in ChangeRecords
      BY <1>1
    <2>3. r \in ChangeRecords /\ r.do = step /\ r.id = i /\ r.item = item
      BY <2>2 DEF ChangeRecords
    <2>4. change' = [change EXCEPT ![e] = r] /\ change'[e] = r
      BY <1>1, <2>1
    <2>5. UNCHANGED <<slot, booked, loose, met>> /\ change[e].do = "item"
      BY <1>5 DEF CheckItem
    <2>6. change[e] # NoChange
      BY <2>5, SlotsExist
    <2>7. r.do \in {"insert", "update"} => ItemFree(e)'
      <3>1. Slots' = Slots /\ slot' = slot
        BY <2>5 DEF Slots
      <3>2. change'[e].do = step /\ change'[e].id = i /\ change'[e].item = item
        BY <2>3, <2>4
      <3>3. SUFFICES ASSUME step \in {"insert", "update"}, NEW j \in Slots
                     PROVE  \/ change'[e].do = "update" /\ j = change'[e].id
                            \/ ~Meets(change'[e].item, slot[j])
        BY <2>3, <3>1 DEF ItemFree
      <3>. QED
        BY <2>1, <3>2, <3>3
    <2>. QED
      BY <1>2, <2>3, <2>4, <2>5, <2>6, <2>7, ChangeMoves
  <1>6. ASSUME NEW e \in Changers, WriteItem(e)
        PROVE  WeeklyInv'
    <2>1. change[e].id \in SlotIds
      BY <1>1 DEF ChangeRecords
    <2>2. CASE change[e].do = "remove"
      <3>1. slot' = [slot EXCEPT ![change[e].id] = Removed] /\ Changes(e, "item")
            /\ UNCHANGED <<booked, loose, met>>
        BY <1>6, <2>2 DEF WriteItem
      <3>. QED
        BY <2>1, <2>2, <3>1, SlotGoes
    <2>3. CASE change[e].do = "update"
      <3>1. slot' = [slot EXCEPT ![change[e].id] = change[e].item] /\ Changes(e, "item")
            /\ UNCHANGED <<booked, loose, met>>
        BY <1>6, <2>3 DEF WriteItem
      <3>. QED
        BY <2>1, <2>3, <3>1, ItemWritten
    <2>4. CASE change[e].do = "insert"
      <3>1. PICK j \in SlotIds : slot[j] = Unused /\ slot' = [slot EXCEPT ![j] = change[e].item]
        BY <1>6, <2>4 DEF WriteItem
      <3>2. j \notin Slots
        BY <3>1, SlotsExist DEF Slots
      <3>3. Changes(e, "item") /\ UNCHANGED <<booked, loose, met>>
        BY <1>6 DEF WriteItem
      <3>. QED
        BY <2>4, <3>1, <3>2, <3>3, ItemWritten
    <2>. QED
      BY <1>6, <2>2, <2>3, <2>4 DEF WriteItem
  <1>7. ASSUME NEW e \in Changers, BatchEnds(e)
        PROVE  WeeklyInv'
    <2>1. change' = [change EXCEPT ![e] = NoChange] /\ UNCHANGED <<slot, booked, loose, met>>
      BY <1>7 DEF BatchEnds, Leaves
    <2>. QED
      BY <1>2, <2>1, SlotsExist, ChangeMoves
  <1>8. ASSUME NEW e \in Changers, CreateCheck(e)
        PROVE  WeeklyInv'
    <2>1. PICK item \in Slot :
             change' = [change EXCEPT ![e].do = "create", ![e].item = item, ![e].seen = booked]
      BY <1>8 DEF CreateCheck
    <2>. DEFINE r == [change[e] EXCEPT !.do = "create", !.item = item, !.seen = booked]
    <2>2. r \in ChangeRecords /\ r.do = "create"
      BY <1>1 DEF ChangeRecords, WeeklyInv, WeeklyTypeOK
    <2>3. change' = [change EXCEPT ![e] = r]
      BY <1>1, <2>1
    <2>4. slot' = slot /\ booked' = booked /\ loose' = loose /\ met' = (met \/ Changing # {})
      BY <1>8 DEF CreateCheck
    <2>5. met' \in BOOLEAN /\ (~met' => ~met /\ Changing = {})
      BY <1>2, <2>4, Zenon
    <2>. QED
      BY <1>2, <2>2, <2>3, <2>4, <2>5, ChangeMoves
  \* From here on, slots may meet.
  <1>9. ASSUME NEW e \in Changers, CreateWrite(e)
        PROVE  WeeklyInv'
    <2>1. PICK i \in SlotIds : slot' = [slot EXCEPT ![i] = change[e].item]
      BY <1>9 DEF CreateWrite
    <2>2. loose' = TRUE /\ change' = [change EXCEPT ![e] = NoChange] /\ UNCHANGED <<booked, met>>
      BY <1>9 DEF CreateWrite, Leaves
    <2>3. change' \in [Changers -> ChangeRecords] /\ change[e].item \in Slot
      BY <1>1, <2>2, SlotsExist DEF ChangeRecords
    <2>4. WeeklyTypeOK'
      <3>1. slot' \in [SlotIds -> Slot \cup {Unused, Removed}]
        BY <2>1, <2>3 DEF WeeklyInv, WeeklyTypeOK
      <3>2. loose' \in BOOLEAN /\ met' \in BOOLEAN
        BY <1>2, <2>2
      <3>. QED
        BY <2>2, <2>3, <3>1, <3>2 DEF WeeklyInv, WeeklyTypeOK, ChangeRecords
    <2>5. \A f \in Changers : change'[f] # NoChange => change[f] # NoChange
      BY <1>1, <2>2
    <2>6. OneChanger'
      BY <2>2, <2>5 DEF WeeklyInv, OneChanger
    <2>. QED
      BY <2>2, <2>4, <2>6 DEF WeeklyInv, CheckedFree, SlotsApart
  <1>10. ASSUME NEW i \in SlotIds, DeleteSlot(i)
         PROVE  WeeklyInv'
    <2>1. slot' = [slot EXCEPT ![i] = Removed] /\ UNCHANGED <<booked, change, loose, met>>
      BY <1>10 DEF DeleteSlot
    <2>. QED
      BY <2>1, SlotGoes
  <1>11. ASSUME HourBooked
         PROVE  WeeklyInv'
    <2>1. booked' \subseteq Booked /\ UNCHANGED <<slot, change, loose, met>>
      BY <1>11 DEF HourBooked, WeeklyInv, WeeklyTypeOK
    <2>. QED
      BY <2>1 DEF WeeklyInv, WeeklyTypeOK, OneChanger, CheckedFree, ItemFree, SlotsApart, Slots
  <1>. QED
    BY <1>3, <1>4, <1>5, <1>6, <1>7, <1>8, <1>9, <1>10, <1>11 DEF WeeklyNext

\* Whatever updateAvailability changes, moves and removes, and wherever it stops, the slots
\* of a day stay apart, as long as requests do not meet and createAvailability is not used.
THEOREM SlotsStayApart == WeeklySpec => []SlotsApart
  <1>1. WeeklyInv => SlotsApart
    BY DEF WeeklyInv
  <1>. QED
    BY <1>1, WeeklyStart, WeeklyStep, PTL DEF WeeklySpec

(***************************************************************************)
(* Prices.                                                                 *)
(***************************************************************************)

\* As long as the price is open, a multiplier above the base comes from a rule that raised it.
RaisedByARule == price = "open" /\ multiplier > Unit => impact > 0

PricingInv == PricingTypeOK /\ RaisedByARule /\ PriceIsExplained

LEMMA Shares ==
  ASSUME NEW a \in Nat, NEW b \in Nat \ {0}
  PROVE  a \div b \in Nat /\ (a >= b => a \div b >= 1)
  OBVIOUS

LEMMA ProductIsNat ==
  ASSUME NEW m \in Nat, NEW f \in Nat
  PROVE  Product(m, f) \in Nat /\ Product(0, f) = 0
  <1>1. m * f \in Nat /\ 0 * f = 0
    OBVIOUS
  <1>2. 0 \div Unit = 0
    BY PricingAssumption
  <1>. QED
    BY <1>1, <1>2, Shares, PricingAssumption DEF Product

\* What a rule makes of a multiplier: no more than its cap, and nothing of nothing.
LEMMA AfterRule ==
  ASSUME PricingTypeOK, NEW rule \in Rule
  PROVE  /\ After(rule) \in Nat /\ (rule.cap # NoCap => After(rule) <= rule.cap)
         /\ Raised(rule) => multiplier > 0
  <1>1. multiplier \in Nat
    BY DEF PricingTypeOK
  <1>2. rule.factor \in Nat /\ rule.cap \in Nat
    <2>1. rule.factor \in Factors /\ rule.cap \in Caps \cup {NoCap}
      BY DEF Rule
    <2>2. Factors \subseteq Nat /\ Caps \cup {NoCap} \subseteq Nat
      BY PricingAssumption DEF NoCap
    <2>. QED
      BY <2>1, <2>2
  <1>. DEFINE p == Product(multiplier, rule.factor)
  <1>3. p \in Nat /\ (multiplier = 0 => p = 0)
    BY <1>1, <1>2, ProductIsNat
  <1>4. After(rule) = IF rule.cap # NoCap /\ p > rule.cap THEN rule.cap ELSE p
    BY DEF After
  <1>. HIDE DEF p
  <1>5. After(rule) \in Nat /\ (rule.cap # NoCap => After(rule) <= rule.cap)
    BY <1>2, <1>3, <1>4
  <1>6. multiplier = 0 => After(rule) = 0
    BY <1>2, <1>3, <1>4
  <1>. QED
    BY <1>1, <1>5, <1>6 DEF Raised

LEMMA PricingStart == PricingInit => PricingInv
  <1>. SUFFICES ASSUME PricingInit PROVE PricingInv
    OBVIOUS
  <1>1. rules \in Seq(Rule)
    <2>1. PICK n \in 0 .. MaxRules : rules \in [1 .. n -> Rule]
      BY DEF PricingInit
    <2>. QED
      BY <2>1, SeqDef, PricingAssumption
  <1>2. PricingTypeOK
    BY <1>1, PricingAssumption DEF PricingInit, PricingTypeOK
  <1>. QED
    BY <1>2, PricingAssumption DEF PricingInit, PricingInv, RaisedByARule, PriceIsExplained

LEMMA ApplyRuleStep ==
  ASSUME PricingInv, ApplyRule
  PROVE  PricingInv'
  <1>. DEFINE rule == Head(rules)
              a == After(rule)
  <1>1. /\ rules # <<>> /\ price = "open" /\ multiplier' = a /\ caps' = rule.cap
        /\ impact' = IF Raised(rule) /\ a * Unit > impact * multiplier
                       THEN (a * Unit) \div multiplier ELSE impact
        /\ rules' = Tail(rules) /\ UNCHANGED <<demand, price>>
    BY DEF ApplyRule
  <1>2. rule \in Rule /\ rules' \in Seq(Rule)
    BY <1>1, HeadTailProperties DEF PricingInv, PricingTypeOK
  <1>3. /\ a \in Nat /\ (rule.cap # NoCap => a <= rule.cap)
        /\ Raised(rule) => multiplier > 0
    BY <1>2, AfterRule DEF PricingInv
  <1>4. rule.cap \in Caps \cup {NoCap}
    BY <1>2 DEF Rule
  <1>5. multiplier \in Nat /\ impact \in Nat /\ Unit \in Nat \ {0}
    BY PricingAssumption DEF PricingInv, PricingTypeOK
  <1>6. Raised(rule) <=> a > multiplier
    BY DEF Raised
  <1>. HIDE DEF a
  <1>7. a * Unit \in Nat /\ impact * multiplier \in Nat
    BY <1>3, <1>5
  <1>8. ASSUME Raised(rule)
        PROVE  a * Unit >= multiplier /\ a * Unit > 0
    <2>1. a > multiplier /\ multiplier > 0
      BY <1>3, <1>6, <1>8
    <2>2. \A x \in Nat, u \in Nat \ {0} : x * u >= x
      OBVIOUS
    <2>. QED
      BY <1>3, <1>5, <1>7, <2>1, <2>2
  <1>9. impact' \in Nat /\ (Raised(rule) => impact' > 0)
    <2>1. CASE Raised(rule) /\ a * Unit > impact * multiplier
      <3>1. impact' = (a * Unit) \div multiplier /\ multiplier \in Nat \ {0}
        BY <1>1, <1>3, <1>5, <2>1
      <3>2. (a * Unit) \div multiplier \in Nat /\ (a * Unit) \div multiplier >= 1
        BY <1>7, <1>8, <2>1, <3>1, Shares
      <3>. QED
        BY <3>1, <3>2
    <2>2. CASE Raised(rule) /\ ~(a * Unit > impact * multiplier)
      <3>1. impact' = impact /\ impact * multiplier > 0
        BY <1>1, <1>7, <1>8, <2>2
      <3>2. 0 * multiplier = 0
        BY <1>5
      <3>. QED
        BY <1>5, <3>1, <3>2
    <2>3. CASE ~Raised(rule)
      BY <1>1, <1>5, <2>3
    <2>. QED
      BY <2>1, <2>2, <2>3
  <1>10. PricingTypeOK'
    BY <1>1, <1>2, <1>3, <1>4, <1>9 DEF PricingInv, PricingTypeOK
  <1>11. RaisedByARule'
    <2>1. SUFFICES ASSUME a > Unit PROVE impact' > 0
      BY <1>1 DEF RaisedByARule
    <2>2. CASE Raised(rule)
      BY <1>9, <2>2
    <2>3. CASE ~Raised(rule)
      <3>1. multiplier > Unit
        BY <1>3, <1>5, <1>6, <2>1, <2>3
      <3>. QED
        BY <1>1, <2>3, <3>1 DEF PricingInv, RaisedByARule
    <2>. QED
      BY <2>2, <2>3
  <1>12. PriceIsExplained'
    BY <1>1, <1>3 DEF PriceIsExplained
  <1>. QED
    BY <1>10, <1>11, <1>12 DEF PricingInv

LEMMA PricingStep ==
  ASSUME PricingInv, [PricingNext]_priceVars
  PROVE  PricingInv'
  <1>1. CASE UNCHANGED priceVars
    BY <1>1 DEF priceVars, PricingInv, PricingTypeOK, RaisedByARule, PriceIsExplained
  <1>2. CASE SkipRule
    <2>1. rules' \in Seq(Rule) /\ UNCHANGED <<demand, multiplier, impact, caps, price>>
      BY <1>2, HeadTailProperties DEF SkipRule, PricingInv, PricingTypeOK
    <2>. QED
      BY <2>1 DEF PricingInv, PricingTypeOK, RaisedByARule, PriceIsExplained
  <1>3. CASE GivePrice
    <2>1. /\ price = "open" /\ multiplier' = Limited(multiplier)
          /\ price' = IF multiplier' > Unit /\ impact > 0 THEN "surge" ELSE "base_price"
          /\ UNCHANGED <<rules, demand, impact, caps>>
      BY <1>3 DEF GivePrice
    <2>2. multiplier \in Nat /\ Limited(multiplier) \in Nat
          /\ (Limited(multiplier) > Unit => multiplier > Unit)
      BY PricingAssumption DEF PricingInv, PricingTypeOK, Limited
    <2>3. multiplier' > Unit => impact > 0
      BY <2>1, <2>2 DEF PricingInv, RaisedByARule
    <2>4. PricingTypeOK'
      BY <2>1, <2>2 DEF PricingInv, PricingTypeOK
    <2>. QED
      BY <2>1, <2>3, <2>4 DEF PricingInv, RaisedByARule, PriceIsExplained
  <1>. QED
    BY <1>1, <1>2, <1>3, ApplyRuleStep DEF PricingNext

\* Whatever rules calculatePrice meets, in whatever order and with whatever factors and
\* caps, a price above the base comes with a reason and one at or below it with none.
THEOREM PriceAlwaysExplained == PricingSpec => []PriceIsExplained
  <1>1. PricingInv => PriceIsExplained
    BY DEF PricingInv
  <1>. QED
    BY <1>1, PricingStart, PricingStep, PTL DEF PricingSpec

=============================================================================
