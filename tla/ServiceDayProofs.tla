---------------------------- MODULE ServiceDayProofs ----------------------------
(***************************************************************************)
(* Proofs about ServiceDay for any number of handlers, any price, any      *)
(* refunds and any number of decisions and faults.                         *)
(*                                                                         *)
(* That a dispute holds back its amount once needs to know that an open    *)
(* insert of a Dispute row is alone and that no row is committed           *)
(* (InsertInv); that a booking is credited once needs to know that what    *)
(* resolveDispute has not found is still not there (CreditInv).            *)
(***************************************************************************)
EXTENDS ServiceDay, TLAPS

Goals   == Statuses \cup DisputeStatuses \cup {"NONE"}
Towards == {"start", "write"} \cup Resolving
Judging == {"decide"} \cup Deciding

\* What a handler is about to write is a status of the right table.
GoalInv ==
    \A h \in Handlers : /\ pc[h] \in Towards => goal[h] \in Statuses
                        /\ pc[h] \in Judging => goal[h] \in DisputeStatuses

LocalsOK ==
    /\ pc \in [Handlers -> Steps] /\ goal \in [Handlers -> Goals]
    /\ amount \in [Handlers -> Nat]
    /\ found \in [Handlers -> [earning : Nat, fee : Nat]]
    /\ GoalInv

\* An open insert is the only one and has no committed row to meet; a decision has.
InsertInv ==
    /\ \A h \in Handlers : pc[h] \in Creating => dispute = "NONE"
    /\ \A g, h \in Handlers : pc[g] \in Creating /\ pc[h] \in Creating => g = h
    /\ \A h \in Handlers : pc[h] \in Judging => dispute # "NONE"

\* Without overlapping calls, one resolveDispute is in flight at most, and what it
\* has not found is still missing.
CreditInv ==
    ~overlapped =>
        /\ \A g, h \in Handlers : pc[g] \in Resolving /\ pc[h] \in Resolving => g = h
        /\ \A h \in Handlers : pc[h] = "credit" =>
              /\ found[h].earning = 0 => earnings = 0
              /\ found[h].fee = 0 => fees = 0

TypeInv == TypeOK /\ GoalInv
IInv    == TypeInv /\ InsertInv /\ HeldWithDispute /\ CreditInv /\ CreditedOnce
-----------------------------------------------------------------------------
(***************************************************************************)
(* Type correctness.                                                       *)
(***************************************************************************)

\* The table of transitions leads to statuses of the schema.
LEMMA TransitionStatuses == \A s \in Statuses : Transitions[s] \subseteq Statuses
  BY DEF Transitions, Statuses, Waiting, OnSite, Closed

\* So do the provider's own steps.
LEMMA FollowingStatuses ==
    \A s \in DOMAIN Following : Following[s] \in Statuses
  BY DEF Following, Statuses, OnSite, Closed

\* The names of statuses that the actions write.
LEMMA Names ==
    /\ "CONFIRMED" \in Statuses /\ "FINISHED" \in Statuses /\ "PENDING_DISPUTE" \in Statuses
    /\ "NONE" \notin DisputeStatuses /\ "PENDING" \in DisputeStatuses
  BY DEF Statuses, Closed, DisputeStatuses, ActiveDisputes

\* A handler that returns keeps the locals in order.
LEMMA ReturnKeeps ==
    ASSUME LocalsOK, NEW h \in Handlers, Return(h)
    PROVE  LocalsOK'
  <1>1. pc' = [pc EXCEPT ![h] = "idle"] /\ goal' = [goal EXCEPT ![h] = "NONE"]
        /\ amount' = [amount EXCEPT ![h] = 0] /\ found' = [found EXCEPT ![h] = NothingFound]
    BY DEF Return, Goto, Aim
  <1>2. pc' \in [Handlers -> Steps] /\ goal' \in [Handlers -> Goals]
        /\ amount' \in [Handlers -> Nat]
    BY <1>1 DEF LocalsOK, Steps, Goals
  <1>3. found' \in [Handlers -> [earning : Nat, fee : Nat]]
    BY <1>1 DEF LocalsOK, NothingFound
  <1>4. GoalInv'
    BY <1>1 DEF LocalsOK, GoalInv, Towards, Judging, Resolving, Deciding
  <1>. QED
    BY <1>2, <1>3, <1>4 DEF LocalsOK

\* So does one that goes on with the goal it has.
LEMMA GotoKeeps ==
    ASSUME LocalsOK, NEW h \in Handlers, NEW s \in Steps, Goto(h, s),
           UNCHANGED <<goal, amount, found>>,
           s \in Towards => goal[h] \in Statuses,
           s \in Judging => goal[h] \in DisputeStatuses
    PROVE  LocalsOK'
  BY DEF LocalsOK, GoalInv, Goto

\* So does one that takes a new goal.
LEMMA AimKeeps ==
    ASSUME LocalsOK, NEW h \in Handlers, NEW s \in Steps, NEW to \in Goals, NEW n \in Nat,
           Goto(h, s), Aim(h, to, n), UNCHANGED found,
           s \in Towards => to \in Statuses,
           s \in Judging => to \in DisputeStatuses
    PROVE  LocalsOK'
  BY DEF LocalsOK, GoalInv, Goto, Aim

LEMMA TypeInit == Init => TypeInv
  <1>. SUFFICES ASSUME Init PROVE TypeInv
    OBVIOUS
  <1>1. pc \in [Handlers -> Steps] /\ GoalInv
    BY DEF Init, Steps, GoalInv, Towards, Judging, Resolving, Deciding
  <1>2. found \in [Handlers -> [earning : Nat, fee : Nat]]
    BY DEF Init, NothingFound
  <1>. QED
    BY <1>1, <1>2, Names DEF Init, TypeInv, TypeOK, Moments

\* The steps that only change the locals and the bounds' counters.
LEMMA LocalsFirst ==
    ASSUME TypeOK, GoalInv
    PROVE  LocalsOK
  BY DEF TypeOK, LocalsOK, Goals

LEMMA TypeOfStatusChange ==
    ASSUME TypeInv, NEW h \in Handlers, StatusChange(h)
    PROVE  TypeInv'
  <1>. USE DEF TypeInv, booking, row, credits, ledger, budget
  <1>0. LocalsOK
    BY LocalsFirst
  <1>1. LocalsOK' /\ status' \in Statuses
    <2>1. CASE ProviderRead(h)
      <3>1. /\ Following[status] \in Statuses
            /\ Aim(h, Following[status], 0)
            /\ \E s \in {"start", "write"} : Goto(h, s)
        BY <2>1, FollowingStatuses DEF ProviderRead
      <3>2. PICK s \in {"start", "write"} : Goto(h, s)
        BY <3>1
      <3>3. s \in Steps /\ s \notin Judging /\ Following[status] \in Goals
        BY <3>1 DEF Steps, Judging, Deciding, Goals
      <3>. QED
        BY <1>0, <2>1, <3>1, <3>2, <3>3, AimKeeps DEF ProviderRead, TypeOK
    <2>2. CASE StartCheck(h)
      <3>1. CASE clock = "window"
        <4>1. "write" \in Steps /\ "write" \notin Judging /\ goal[h] \in Statuses
          BY <2>2 DEF Steps, Judging, Deciding, StartCheck, GoalInv, Towards
        <4>. QED
          BY <1>0, <2>2, <3>1, <4>1, GotoKeeps DEF StartCheck, TypeOK
      <3>2. CASE clock # "window"
        BY <1>0, <2>2, <3>2, ReturnKeeps DEF StartCheck, TypeOK
      <3>. QED
        BY <3>1, <3>2
    <2>3. CASE UpdateRead(h)
      <3>1. PICK to \in Transitions[status] : Aim(h, to, 0)
        BY <2>3 DEF UpdateRead
      <3>2. to \in Statuses /\ to \in Goals /\ "write" \in Steps /\ "write" \notin Judging
        BY <3>1, TransitionStatuses DEF TypeOK, Steps, Judging, Deciding, Goals
      <3>. QED
        BY <1>0, <2>3, <3>1, <3>2, AimKeeps DEF UpdateRead, TypeOK
    <2>4. CASE Write(h)
      <3>1. status' \in Statuses
        BY <2>4 DEF Write, GoalInv, Towards
      <3>. QED
        BY <1>0, <2>4, <3>1, ReturnKeeps DEF Write
    <2>5. CASE CronRead(h)
      <3>1. "cron" \in Steps /\ "cron" \notin Judging /\ "cron" \notin Towards
        BY DEF Steps, Judging, Deciding, Towards, Resolving
      <3>. QED
        BY <1>0, <2>5, <3>1, GotoKeeps DEF CronRead, TypeOK
    <2>6. CASE CronWrite(h)
      BY <1>0, <2>6, ReturnKeeps, Names DEF CronWrite
    <2>. QED
      BY <2>1, <2>2, <2>3, <2>4, <2>5, <2>6 DEF StatusChange
  <1>2. UNCHANGED <<paid, clock, row, ledger, budget>>
    BY DEF StatusChange, ProviderRead, StartCheck, UpdateRead, Write, CronRead, CronWrite
  <1>. QED
    BY <1>1, <1>2 DEF TypeOK, LocalsOK, Goals

LEMMA TypeOfCreateDispute ==
    ASSUME TypeInv, NEW h \in Handlers, CreateDispute(h)
    PROVE  TypeInv'
  <1>. USE DEF TypeInv, booking, row, credits, ledger, budget
  <1>0. LocalsOK
    BY LocalsFirst
  <1>a. \A s \in {"insert"} \cup Creating :
           s \in Steps /\ s \notin Towards /\ s \notin Judging
    BY DEF Steps, Creating, Towards, Judging, Resolving, Deciding
  <1>1. CASE CreateStart(h)
    <2>1. PICK n \in 1..Price : Aim(h, "NONE", n)
      BY <1>1 DEF CreateStart
    <2>2. n \in Nat /\ "NONE" \in Goals
      BY <2>1, MoneyAssumption DEF Goals
    <2>3. LocalsOK'
      BY <1>0, <1>a, <1>1, <2>1, <2>2, AimKeeps DEF CreateStart
    <2>. QED
      BY <1>1, <2>3 DEF CreateStart, TypeOK, LocalsOK, Goals
  <1>2. CASE CreateInsert(h)
    <2>1. LocalsOK'
      <3>1. CASE dispute = "NONE"
        <4>1. Goto(h, "markRead") /\ "markRead" \in Creating
          BY <1>2, <3>1 DEF CreateInsert, Creating
        <4>. QED
          BY <1>0, <1>a, <1>2, <3>1, <4>1, GotoKeeps DEF CreateInsert
      <3>2. CASE dispute # "NONE"
        BY <1>0, <1>2, <3>2, ReturnKeeps DEF CreateInsert
      <3>. QED
        BY <3>1, <3>2
    <2>. QED
      BY <1>2, <2>1 DEF CreateInsert, TypeOK, LocalsOK, Goals
  <1>3. CASE CreateMarkRead(h)
    <2>1. PICK s \in Creating : Goto(h, s)
      BY <1>3 DEF CreateMarkRead, Creating
    <2>2. LocalsOK'
      BY <1>0, <1>a, <1>3, <2>1, GotoKeeps DEF CreateMarkRead
    <2>. QED
      BY <1>3, <2>2 DEF CreateMarkRead, TypeOK, LocalsOK, Goals
  <1>4. CASE CreateMark(h)
    <2>1. Goto(h, "commit") /\ "commit" \in Creating
      BY <1>4 DEF CreateMark, Creating
    <2>2. LocalsOK'
      BY <1>0, <1>a, <1>4, <2>1, GotoKeeps DEF CreateMark
    <2>. QED
      BY <1>4, <2>2, Names DEF CreateMark, TypeOK, LocalsOK, Goals
  <1>5. CASE CreateCommit(h)
    <2>1. LocalsOK'
      BY <1>0, <1>5, ReturnKeeps DEF CreateCommit
    <2>2. amount[h] \in Nat
      BY DEF TypeOK
    <2>. QED
      BY <1>5, <2>1, <2>2, Names DEF CreateCommit, TypeOK, LocalsOK, Goals
  <1>6. CASE CreateAbort(h)
    <2>1. LocalsOK'
      BY <1>0, <1>6, ReturnKeeps DEF CreateAbort
    <2>. QED
      BY <1>6, <2>1 DEF CreateAbort, Fault, TypeOK, LocalsOK, Goals
  <1>. QED
    BY <1>1, <1>2, <1>3, <1>4, <1>5, <1>6 DEF CreateDispute

\* What a decision releases is not negative.
LEMMA ReleaseType == TypeOK => Release \in Nat
  <1>1. ASSUME TypeOK PROVE PaymentHold \in Nat /\ held \in Nat
    BY <1>1, MoneyAssumption DEF PaymentHold, TypeOK
  <1>. QED
    BY <1>1 DEF Release

LEMMA TypeOfUpdateDispute ==
    ASSUME TypeInv, NEW h \in Handlers, UpdateDispute(h)
    PROVE  TypeInv'
  <1>. USE DEF TypeInv, booking, row, credits, ledger, budget
  <1>0. LocalsOK
    BY LocalsFirst
  <1>a. \A s \in Judging : s \in Steps /\ s \notin Towards
    BY DEF Steps, Towards, Judging, Resolving, Deciding
  <1>b. pc[h] \in Judging => goal[h] \in DisputeStatuses
    BY DEF GoalInv
  <1>1. CASE DecideStart(h)
    <2>1. PICK to \in DisputeStatuses, n \in Refunds : Aim(h, to, n)
      BY <1>1 DEF DecideStart
    <2>2. n \in Nat /\ to \in Goals /\ "decide" \in Judging
      BY <2>1, MoneyAssumption DEF Goals, Judging
    <2>3. LocalsOK'
      BY <1>0, <1>a, <1>1, <2>1, <2>2, AimKeeps DEF DecideStart
    <2>. QED
      BY <1>1, <2>3 DEF DecideStart, TypeOK, LocalsOK, Goals
  <1>2. CASE DecideUpdate(h)
    <2>1. PICK s \in Judging : Goto(h, s)
      BY <1>2 DEF DecideUpdate, Judging, Deciding
    <2>2. pc[h] \in Judging
      BY <1>2 DEF DecideUpdate, Judging
    <2>3. LocalsOK'
      BY <1>0, <1>a, <1>b, <1>2, <2>1, <2>2, GotoKeeps DEF DecideUpdate
    <2>. QED
      BY <1>2, <2>3 DEF DecideUpdate, TypeOK, LocalsOK, Goals
  <1>3. CASE FinishRead(h)
    <2>1. PICK s \in Judging : Goto(h, s)
      BY <1>3 DEF FinishRead, Judging, Deciding
    <2>2. pc[h] \in Judging
      BY <1>3 DEF FinishRead, Judging, Deciding
    <2>3. LocalsOK'
      BY <1>0, <1>a, <1>b, <1>3, <2>1, <2>2, GotoKeeps DEF FinishRead
    <2>. QED
      BY <1>3, <2>3 DEF FinishRead, TypeOK, LocalsOK, Goals
  <1>4. CASE Finish(h)
    <2>1. Goto(h, "decided") /\ "decided" \in Judging /\ pc[h] \in Judging
      BY <1>4 DEF Finish, Judging, Deciding
    <2>2. LocalsOK'
      BY <1>0, <1>a, <1>b, <1>4, <2>1, GotoKeeps DEF Finish
    <2>. QED
      BY <1>4, <2>2, Names DEF Finish, TypeOK, LocalsOK, Goals
  <1>5. CASE DecideCommit(h)
    <2>1. LocalsOK'
      BY <1>0, <1>5, ReturnKeeps DEF DecideCommit
    <2>2. goal[h] \in DisputeStatuses
      BY <1>5, <1>b DEF DecideCommit, Judging, Deciding
    <2>3. released' \in Nat
      BY <1>5, ReleaseType DEF DecideCommit, TypeOK
    <2>4. refunded' \in Nat
      <3>1. amount[h] \in Nat /\ refunded \in Nat
        BY DEF TypeOK
      <3>. QED
        BY <1>5, <3>1 DEF DecideCommit
    <2>. QED
      BY <1>5, <2>1, <2>2, <2>3, <2>4 DEF DecideCommit, TypeOK, LocalsOK, Goals
  <1>6. CASE DecideAbort(h)
    <2>1. LocalsOK'
      BY <1>0, <1>6, ReturnKeeps DEF DecideAbort
    <2>. QED
      BY <1>6, <2>1 DEF DecideAbort, Fault, TypeOK, LocalsOK, Goals
  <1>. QED
    BY <1>1, <1>2, <1>3, <1>4, <1>5, <1>6 DEF UpdateDispute

LEMMA TypeOfResolveDispute ==
    ASSUME TypeInv, NEW h \in Handlers, ResolveDispute(h)
    PROVE  TypeInv'
  <1>. USE DEF TypeInv, booking, row, credits, ledger, budget
  <1>0. LocalsOK
    BY LocalsFirst
  <1>a. \A s \in Resolving : s \in Steps /\ s \in Towards /\ s \notin Judging
    BY DEF Steps, Towards, Judging, Resolving, Deciding
  <1>b. pc[h] \in Resolving => goal[h] \in Statuses
    BY <1>a DEF GoalInv
  <1>1. CASE ResolveStart(h)
    <2>1. PICK to \in Transitions[status], n \in Refunds : Aim(h, to, n)
      BY <1>1 DEF ResolveStart
    <2>2. n \in Nat /\ to \in Goals /\ to \in Statuses /\ "resolve" \in Resolving
      BY <2>1, MoneyAssumption, TransitionStatuses DEF Goals, Resolving, TypeOK
    <2>3. LocalsOK'
      BY <1>0, <1>a, <1>1, <2>1, <2>2, AimKeeps DEF ResolveStart
    <2>4. overlapped' \in BOOLEAN
      BY <1>1 DEF ResolveStart, TypeOK
    <2>. QED
      BY <1>1, <2>3, <2>4 DEF ResolveStart, TypeOK, LocalsOK, Goals
  <1>2. CASE ResolveLook(h)
    <2>1. EntriesSeen \in [earning : Nat, fee : Nat]
      BY DEF EntriesSeen, TypeOK
    <2>2. found' \in [Handlers -> [earning : Nat, fee : Nat]]
      <3>. DEFINE e == EntriesSeen
      <3>1. found' = [found EXCEPT ![h] = e] /\ e \in [earning : Nat, fee : Nat]
        BY <1>2, <2>1 DEF ResolveLook
      <3>. HIDE DEF e
      <3>. QED
        BY <3>1 DEF TypeOK
    <2>3. pc' \in [Handlers -> Steps] /\ GoalInv'
      <3>1. goal[h] \in Statuses
        BY <1>b, <1>2 DEF ResolveLook, Resolving
      <3>2. pc' = [pc EXCEPT ![h] = "credit"] /\ goal' = goal
        BY <1>2 DEF ResolveLook, Goto
      <3>3. "credit" \in Steps /\ "credit" \notin Judging
        BY <1>a DEF Resolving
      <3>. QED
        BY <3>1, <3>2, <3>3 DEF TypeOK, GoalInv
    <2>. QED
      BY <1>2, <2>2, <2>3 DEF ResolveLook, TypeOK
  <1>3. CASE ResolveCommit(h)
    <2>1. LocalsOK'
      BY <1>0, <1>3, ReturnKeeps DEF ResolveCommit
    <2>2. goal[h] \in Statuses
      BY <1>b, <1>3 DEF ResolveCommit, Resolving
    <2>3. refunded' \in Nat
      <3>1. amount[h] \in Nat /\ refunded \in Nat
        BY DEF TypeOK
      <3>. QED
        BY <1>3, <3>1 DEF ResolveCommit
    <2>4. earnings' \in Nat /\ fees' \in Nat
      BY <1>3 DEF ResolveCommit, TypeOK
    <2>. QED
      BY <1>3, <2>1, <2>2, <2>3, <2>4 DEF ResolveCommit, TypeOK, LocalsOK, Goals
  <1>4. CASE ResolveAbort(h)
    <2>1. LocalsOK'
      BY <1>0, <1>4, ReturnKeeps DEF ResolveAbort
    <2>. QED
      BY <1>4, <2>1 DEF ResolveAbort, Fault, TypeOK, LocalsOK, Goals
  <1>. QED
    BY <1>1, <1>2, <1>3, <1>4 DEF ResolveDispute

LEMMA TypeStep == TypeInv /\ [Next]_vars => TypeInv'
  <1>. SUFFICES ASSUME TypeInv, [Next]_vars
                PROVE  TypeInv'
    OBVIOUS
  <1>1. CASE UNCHANGED vars
    BY <1>1 DEF TypeInv, TypeOK, GoalInv, vars, booking, row, ledger, locals, budget
  <1>2. CASE TimePasses
    BY <1>2 DEF TimePasses, TypeInv, TypeOK, GoalInv, Moments, row, ledger, locals, budget
  <1>3. ASSUME NEW h \in Handlers, Crash(h)
        PROVE  TypeInv'
    <2>1. LocalsOK'
      BY <1>3, LocalsFirst, ReturnKeeps DEF Crash, TypeInv
    <2>. QED
      BY <1>3, <2>1
      DEF Crash, Fault, TypeInv, TypeOK, LocalsOK, Goals, booking, row, ledger
  <1>. QED
    BY <1>1, <1>2, <1>3, TypeOfStatusChange, TypeOfCreateDispute, TypeOfUpdateDispute,
       TypeOfResolveDispute DEF Next

\* Type correctness of every behaviour of ServiceDay.
THEOREM TypeCorrect == Spec => []TypeOK
  <1>1. TypeInv => TypeOK
    BY DEF TypeInv
  <1>. QED
    BY <1>1, TypeInit, TypeStep, PTL DEF Spec
-----------------------------------------------------------------------------
(***************************************************************************)
(* One HOLD per dispute.                                                   *)
(***************************************************************************)

\* Handlers that neither insert a dispute nor decide one may move as they like.
LEMMA InsertFrame ==
    ASSUME TypeOK, InsertInv, HeldWithDispute, NEW h \in Handlers,
           NEW s \in Steps, s \notin Creating, s \in Judging => dispute # "NONE",
           pc' = [pc EXCEPT ![h] = s], UNCHANGED <<dispute, proposed, held>>
    PROVE  InsertInv' /\ HeldWithDispute'
  <1>1. \A g \in Handlers : pc'[g] = IF g = h THEN s ELSE pc[g]
    BY DEF TypeOK
  <1>. QED
    BY <1>1 DEF InsertInv, HeldWithDispute

LEMMA HeldStatusChange ==
    ASSUME TypeOK, InsertInv, HeldWithDispute, NEW h \in Handlers, StatusChange(h)
    PROVE  InsertInv' /\ HeldWithDispute'
  <1>1. \A s \in {"idle", "start", "write", "cron"} :
           s \in Steps /\ s \notin Creating /\ s \notin Judging
    BY DEF Steps, Creating, Judging, Deciding
  <1>2. PICK s \in {"idle", "start", "write", "cron"} : pc' = [pc EXCEPT ![h] = s]
    BY DEF StatusChange, ProviderRead, StartCheck, UpdateRead, Write, CronRead, CronWrite,
           Goto, Return
  <1>3. UNCHANGED <<dispute, proposed, held>>
    BY DEF StatusChange, ProviderRead, StartCheck, UpdateRead, Write, CronRead, CronWrite,
           row, ledger
  <1>. QED
    BY <1>1, <1>2, <1>3, InsertFrame

LEMMA HeldCreateDispute ==
    ASSUME TypeOK, InsertInv, HeldWithDispute, NEW h \in Handlers, CreateDispute(h)
    PROVE  InsertInv' /\ HeldWithDispute'
  <1>. USE DEF row, ledger, credits
  <1>a. /\ "idle" \in Steps /\ "idle" \notin Creating /\ "idle" \notin Judging
        /\ "insert" \in Steps /\ "insert" \notin Creating /\ "insert" \notin Judging
        /\ \A s \in Creating : s \notin Judging
    BY DEF Steps, Creating, Judging, Deciding
  <1>1. CASE CreateStart(h)
    BY <1>a, <1>1, InsertFrame DEF CreateStart, Goto
  <1>2. CASE CreateInsert(h)
    <2>1. CASE dispute = "NONE"
      <3>1. \A g \in Handlers : pc'[g] = IF g = h THEN "markRead" ELSE pc[g]
        BY <1>2, <2>1 DEF CreateInsert, Goto, TypeOK
      <3>2. /\ \A g \in Handlers \ {h} : pc[g] \notin Creating
            /\ UNCHANGED <<dispute, proposed, held>>
        BY <1>2 DEF CreateInsert, UniqueFree
      <3>3. "markRead" \in Creating
        BY DEF Creating
      <3>. QED
        BY <1>a, <2>1, <3>1, <3>2, <3>3 DEF InsertInv, HeldWithDispute
    <2>2. CASE dispute # "NONE"
      BY <1>a, <1>2, <2>2, InsertFrame DEF CreateInsert, Return, Goto
    <2>. QED
      BY <2>1, <2>2
  <1>3. CASE CreateMarkRead(h) \/ CreateMark(h)
    <2>1. PICK s \in Creating : pc' = [pc EXCEPT ![h] = s]
      BY <1>3 DEF CreateMarkRead, CreateMark, Goto, Creating
    <2>2. pc[h] \in Creating /\ UNCHANGED <<dispute, proposed, held>>
      BY <1>3 DEF CreateMarkRead, CreateMark, Creating
    <2>3. \A g \in Handlers : pc'[g] = IF g = h THEN s ELSE pc[g]
      BY <2>1 DEF TypeOK
    <2>. QED
      BY <1>a, <2>1, <2>2, <2>3 DEF InsertInv, HeldWithDispute
  <1>4. CASE CreateCommit(h)
    <2>1. pc[h] \in Creating
      BY <1>4 DEF CreateCommit, Creating
    <2>2. held = 0
      BY <2>1 DEF InsertInv, HeldWithDispute
    <2>3. dispute' = "PENDING" /\ proposed' = amount[h] /\ held' = amount[h]
      <3>1. amount[h] \in Nat
        BY DEF TypeOK
      <3>. QED
        BY <1>4, <2>2, <3>1 DEF CreateCommit
    <2>4. \A g \in Handlers : pc'[g] = IF g = h THEN "idle" ELSE pc[g]
      BY <1>4 DEF CreateCommit, Return, Goto, TypeOK
    <2>5. \A g \in Handlers : pc'[g] \notin Creating
      BY <1>a, <2>1, <2>4 DEF InsertInv
    <2>. QED
      BY <2>3, <2>5 DEF InsertInv, HeldWithDispute
  <1>5. CASE CreateAbort(h)
    BY <1>a, <1>5, InsertFrame DEF CreateAbort, Return, Goto
  <1>. QED
    BY <1>1, <1>2, <1>3, <1>4, <1>5 DEF CreateDispute

LEMMA HeldUpdateDispute ==
    ASSUME TypeOK, GoalInv, InsertInv, HeldWithDispute, NEW h \in Handlers, UpdateDispute(h)
    PROVE  InsertInv' /\ HeldWithDispute'
  <1>. USE DEF row, ledger, credits
  <1>a. /\ "idle" \in Steps /\ "idle" \notin Creating /\ "idle" \notin Judging
        /\ \A s \in Judging : s \in Steps /\ s \notin Creating
    BY DEF Steps, Creating, Judging, Deciding
  <1>b. ASSUME pc[h] \in Judging PROVE dispute # "NONE" /\ goal[h] \in DisputeStatuses
    BY <1>b DEF InsertInv, GoalInv
  <1>1. CASE DecideStart(h)
    <2>1. dispute # "NONE" /\ pc' = [pc EXCEPT ![h] = "decide"] /\ "decide" \in Judging
      BY <1>1 DEF DecideStart, Goto, Judging
    <2>. QED
      BY <1>a, <1>1, <2>1, InsertFrame DEF DecideStart
  <1>2. CASE DecideUpdate(h) \/ FinishRead(h) \/ Finish(h)
    <2>1. PICK s \in Judging : pc' = [pc EXCEPT ![h] = s]
      BY <1>2 DEF DecideUpdate, FinishRead, Finish, Goto, Judging, Deciding
    <2>2. pc[h] \in Judging /\ UNCHANGED <<dispute, proposed, held>>
      BY <1>2 DEF DecideUpdate, FinishRead, Finish, Judging, Deciding
    <2>. QED
      BY <1>a, <1>b, <2>1, <2>2, InsertFrame
  <1>3. CASE DecideCommit(h)
    <2>1. pc[h] \in Judging
      BY <1>3 DEF DecideCommit, Judging, Deciding
    <2>2. dispute # "NONE" /\ dispute' # "NONE" /\ UNCHANGED <<proposed, held>>
      BY <1>b, <1>3, <2>1, Names DEF DecideCommit
    <2>3. \A g \in Handlers : pc'[g] = IF g = h THEN "idle" ELSE pc[g]
      BY <1>3 DEF DecideCommit, Return, Goto, TypeOK
    <2>. QED
      BY <1>a, <2>2, <2>3 DEF InsertInv, HeldWithDispute
  <1>4. CASE DecideAbort(h)
    BY <1>a, <1>4, InsertFrame DEF DecideAbort, Return, Goto
  <1>. QED
    BY <1>1, <1>2, <1>3, <1>4 DEF UpdateDispute

LEMMA HeldResolveDispute ==
    ASSUME TypeOK, InsertInv, HeldWithDispute, NEW h \in Handlers, ResolveDispute(h)
    PROVE  InsertInv' /\ HeldWithDispute'
  <1>1. \A s \in {"idle", "resolve", "credit"} :
           s \in Steps /\ s \notin Creating /\ s \notin Judging
    BY DEF Steps, Creating, Judging, Deciding, Resolving
  <1>2. PICK s \in {"idle", "resolve", "credit"} : pc' = [pc EXCEPT ![h] = s]
    BY DEF ResolveDispute, ResolveStart, ResolveLook, ResolveCommit, ResolveAbort, Goto, Return
  <1>3. UNCHANGED <<dispute, proposed, held>>
    BY DEF ResolveDispute, ResolveStart, ResolveLook, ResolveCommit, ResolveAbort, row, ledger
  <1>. QED
    BY <1>1, <1>2, <1>3, InsertFrame

LEMMA HeldStep ==
    ASSUME TypeInv, InsertInv, HeldWithDispute, [Next]_vars
    PROVE  InsertInv' /\ HeldWithDispute'
  <1>. USE DEF TypeInv
  <1>1. CASE UNCHANGED vars
    BY <1>1 DEF InsertInv, HeldWithDispute, vars, row, ledger, locals
  <1>2. CASE TimePasses
    BY <1>2 DEF TimePasses, InsertInv, HeldWithDispute, row, ledger, locals
  <1>3. ASSUME NEW h \in Handlers, Crash(h)
        PROVE  InsertInv' /\ HeldWithDispute'
    <2>1. "idle" \in Steps /\ "idle" \notin Creating /\ "idle" \notin Judging
      BY DEF Steps, Creating, Judging, Deciding
    <2>. QED
      BY <1>3, <2>1, InsertFrame DEF Crash, Return, Goto, row, ledger
  <1>. QED
    BY <1>1, <1>2, <1>3, HeldStatusChange, HeldCreateDispute, HeldUpdateDispute,
       HeldResolveDispute DEF Next
-----------------------------------------------------------------------------
(***************************************************************************)
(* One credit per booking.                                                 *)
(***************************************************************************)

\* Handlers that are not in resolveDispute may move as they like.
LEMMA CreditFrame ==
    ASSUME TypeOK, CreditInv, CreditedOnce, NEW h \in Handlers,
           \A g \in Handlers \ {h} : pc'[g] = pc[g] /\ found'[g] = found[g],
           pc'[h] \notin Resolving, UNCHANGED <<credits, overlapped>>
    PROVE  CreditInv' /\ CreditedOnce'
  <1>1. "credit" \in Resolving
    BY DEF Resolving
  <1>. QED
    BY <1>1 DEF CreditInv, CreditedOnce, credits

LEMMA CreditOthers ==
    ASSUME TypeOK, CreditInv, CreditedOnce, NEW h \in Handlers,
           StatusChange(h) \/ CreateDispute(h) \/ UpdateDispute(h) \/ Crash(h)
    PROVE  CreditInv' /\ CreditedOnce'
  <1>1. UNCHANGED <<credits, overlapped>>
    BY DEF StatusChange, ProviderRead, StartCheck, UpdateRead, Write, CronRead, CronWrite,
           CreateDispute, CreateStart, CreateInsert, CreateMarkRead, CreateMark, CreateCommit,
           CreateAbort, UpdateDispute, DecideStart, DecideUpdate, FinishRead, Finish,
           DecideCommit, DecideAbort, Crash, credits, ledger, budget
  <1>2. \E s \in Steps \ Resolving : pc' = [pc EXCEPT ![h] = s]
    BY DEF StatusChange, ProviderRead, StartCheck, UpdateRead, Write, CronRead, CronWrite,
           CreateDispute, CreateStart, CreateInsert, CreateMarkRead, CreateMark, CreateCommit,
           CreateAbort, UpdateDispute, DecideStart, DecideUpdate, FinishRead, Finish,
           DecideCommit, DecideAbort, Crash, Goto, Return, Steps, Resolving, Creating, Deciding
  <1>3. \/ found' = found
        \/ found' = [found EXCEPT ![h] = NothingFound]
    BY DEF StatusChange, ProviderRead, StartCheck, UpdateRead, Write, CronRead, CronWrite,
           CreateDispute, CreateStart, CreateInsert, CreateMarkRead, CreateMark, CreateCommit,
           CreateAbort, UpdateDispute, DecideStart, DecideUpdate, FinishRead, Finish,
           DecideCommit, DecideAbort, Crash, Return
  <1>4. /\ \A g \in Handlers \ {h} : pc'[g] = pc[g] /\ found'[g] = found[g]
        /\ pc'[h] \notin Resolving
    BY <1>2, <1>3 DEF TypeOK
  <1>. QED
    BY <1>1, <1>4, CreditFrame

LEMMA CreditResolve ==
    ASSUME TypeOK, CreditInv, CreditedOnce, NEW h \in Handlers, ResolveDispute(h)
    PROVE  CreditInv' /\ CreditedOnce'
  <1>. USE DEF credits, ledger, budget
  <1>a. "credit" \in Resolving /\ "resolve" \in Resolving /\ "idle" \notin Resolving
    BY DEF Resolving
  <1>1. CASE ResolveStart(h)
    <2>1. /\ \A g \in Handlers : pc'[g] = IF g = h THEN "resolve" ELSE pc[g]
          /\ UNCHANGED <<earnings, fees, found>>
          /\ overlapped' = (overlapped \/ \E g \in Handlers : pc[g] \in Resolving)
      BY <1>1 DEF ResolveStart, Goto, TypeOK
    <2>2. CASE overlapped'
      BY <2>2 DEF CreditInv, CreditedOnce
    <2>3. CASE ~overlapped'
      <3>1. ~overlapped /\ \A g \in Handlers : pc[g] \notin Resolving
        BY <2>1, <2>3
      <3>. QED
        BY <1>a, <2>1, <3>1 DEF CreditInv, CreditedOnce
    <2>. QED
      BY <2>2, <2>3
  <1>2. CASE ResolveLook(h)
    <2>1. /\ \A g \in Handlers : pc'[g] = IF g = h THEN "credit" ELSE pc[g]
          /\ \A g \in Handlers \ {h} : found'[g] = found[g]
          /\ found'[h] = EntriesSeen
          /\ UNCHANGED <<earnings, fees, overlapped>>
          /\ pc[h] \in Resolving
      BY <1>a, <1>2 DEF ResolveLook, Goto, TypeOK
    <2>2. /\ found'[h].earning = 0 => earnings = 0
          /\ found'[h].fee = 0 => fees = 0
      BY <2>1 DEF EntriesSeen
    <2>3. CASE overlapped
      BY <2>1, <2>3 DEF CreditInv, CreditedOnce
    <2>4. CASE ~overlapped
      <3>1. \A g \in Handlers : pc[g] \in Resolving => g = h
        BY <2>1, <2>4 DEF CreditInv
      <3>2. \A g \in Handlers : pc'[g] \in Resolving => g = h
        BY <2>1, <3>1
      <3>3. \A g \in Handlers : pc'[g] = "credit" =>
              (found'[g].earning = 0 => earnings' = 0) /\ (found'[g].fee = 0 => fees' = 0)
        BY <1>a, <2>1, <2>2, <3>2
      <3>. QED
        BY <2>1, <2>4, <3>2, <3>3 DEF CreditInv, CreditedOnce
    <2>. QED
      BY <2>3, <2>4
  <1>3. CASE ResolveCommit(h)
    <2>1. /\ \A g \in Handlers : pc'[g] = IF g = h THEN "idle" ELSE pc[g]
          /\ \A g \in Handlers \ {h} : found'[g] = found[g]
          /\ pc[h] = "credit" /\ UNCHANGED overlapped
      BY <1>3 DEF ResolveCommit, Return, Goto, TypeOK
    <2>2. /\ earnings' = earnings \/ (earnings' = earnings + 1 /\ found[h].earning = 0)
          /\ fees' = fees \/ (fees' = fees + 1 /\ found[h].fee = 0)
      BY <1>3 DEF ResolveCommit
    <2>3. ASSUME ~overlapped
          PROVE  /\ earnings' <= 1 /\ fees' <= 1
                 /\ \A g \in Handlers : pc'[g] \notin Resolving
      <3>1. \A g \in Handlers : pc[g] \in Resolving => g = h
        BY <1>a, <2>1, <2>3 DEF CreditInv
      <3>2. (found[h].earning = 0 => earnings = 0) /\ (found[h].fee = 0 => fees = 0)
        BY <2>1, <2>3 DEF CreditInv
      <3>3. earnings <= 1 /\ fees <= 1 /\ earnings \in Nat /\ fees \in Nat
        BY <2>3 DEF CreditedOnce, TypeOK
      <3>. QED
        BY <1>a, <2>1, <2>2, <3>1, <3>2, <3>3
    <2>. QED
      BY <1>a, <2>1, <2>3 DEF CreditInv, CreditedOnce
  <1>4. CASE ResolveAbort(h)
    <2>1. /\ pc' = [pc EXCEPT ![h] = "idle"] /\ found' = [found EXCEPT ![h] = NothingFound]
          /\ UNCHANGED <<credits, overlapped>>
      BY <1>4 DEF ResolveAbort, Return, Goto
    <2>2. /\ \A g \in Handlers \ {h} : pc'[g] = pc[g] /\ found'[g] = found[g]
          /\ pc'[h] \notin Resolving
      BY <1>a, <2>1 DEF TypeOK
    <2>. QED
      BY <2>1, <2>2, CreditFrame
  <1>. QED
    BY <1>1, <1>2, <1>3, <1>4 DEF ResolveDispute

LEMMA CreditStep ==
    ASSUME TypeOK, CreditInv, CreditedOnce, [Next]_vars
    PROVE  CreditInv' /\ CreditedOnce'
  <1>1. CASE UNCHANGED vars
    BY <1>1 DEF CreditInv, CreditedOnce, vars, ledger, locals, budget
  <1>2. CASE TimePasses
    BY <1>2 DEF TimePasses, CreditInv, CreditedOnce, ledger, locals, budget
  <1>3. ASSUME NEW h \in Handlers,
               StatusChange(h) \/ CreateDispute(h) \/ UpdateDispute(h) \/ Crash(h)
        PROVE  CreditInv' /\ CreditedOnce'
    BY <1>3, CreditOthers
  <1>4. ASSUME NEW h \in Handlers, ResolveDispute(h)
        PROVE  CreditInv' /\ CreditedOnce'
    BY <1>4, CreditResolve
  <1>. QED
    BY <1>1, <1>2, <1>3, <1>4 DEF Next
-----------------------------------------------------------------------------
LEMMA InvInit == Init => IInv
  <1>. SUFFICES ASSUME Init PROVE IInv
    OBVIOUS
  <1>1. \A h \in Handlers : pc[h] = "idle"
    BY DEF Init
  <1>2. InsertInv /\ CreditInv
    BY <1>1 DEF InsertInv, CreditInv, Creating, Judging, Deciding, Resolving
  <1>3. HeldWithDispute /\ CreditedOnce
    BY DEF Init, HeldWithDispute, CreditedOnce
  <1>. QED
    BY <1>2, <1>3, TypeInit DEF IInv

LEMMA InvStep == IInv /\ [Next]_vars => IInv'
  BY TypeStep, HeldStep, CreditStep DEF IInv, TypeInv

\* The dispute's HOLD is in the ledger exactly while the dispute is, with its amount.
THEOREM HeldOnce == Spec => []HeldWithDispute
  <1>1. IInv => HeldWithDispute
    BY DEF IInv
  <1>. QED
    BY <1>1, InvInit, InvStep, PTL DEF Spec

\* One EARNING and one FEE at most, unless calls of resolveDispute overlap.
THEOREM OneCredit == Spec => []CreditedOnce
  <1>1. IInv => CreditedOnce
    BY DEF IInv
  <1>. QED
    BY <1>1, InvInit, InvStep, PTL DEF Spec
=============================================================================
