----------------------------- MODULE PayoutsProofs -----------------------------
(***************************************************************************)
(* Proofs about Payouts for any sets of handlers and keys, any amounts and *)
(* any number of faults:                                                   *)
(*   - an idempotency key is debited exactly once if its payout exists,    *)
(*     even when locks expire under a live request (the unique key does    *)
(*     it, not the lock);                                                  *)
(*   - withdrawals never overdraw the ledger as long as no request has     *)
(*     outlived its lock: the check of the balance is a read, and only the *)
(*     lock makes it still true at the debit.                              *)
(***************************************************************************)
EXTENDS Payouts, TLAPS

\* A key with an open insert has no committed payout and no second insert; an
\* update that is under way has a payout to update.
KeyInv ==
    /\ \A h \in Handlers : pc[h] \in TxSteps =>
         /\ payout[seen[h].key] = "NONE"
         /\ \A g \in Handlers \ {h} : pc[g] \in TxSteps => seen[g].key # seen[h].key
    /\ \A h \in Handlers : pc[h] \in {"job.write", "apply"} => payout[seen[h].key] # "NONE"

\* While nobody outlives the lock, a request in progress holds it, and what its
\* check allowed is still covered.
CheckedSteps == {"req.insert", "req.send", "req.commit"}
FundsInv ==
    \A h \in Handlers :
        /\ pc[h] \in ReqSteps => lock = h
        /\ pc[h] \in CheckedSteps => Debit(seen[h].key) <= ledgerSum + disputed

KInv == TypeOK /\ KeyInv /\ KeyDebitedOnce
Solvent == ledgerSum + disputed >= 0

FInv == TypeOK /\ (stalls = 0 => FundsInv /\ Solvent)
-----------------------------------------------------------------------------
(***************************************************************************)
(* Type correctness.                                                       *)
(***************************************************************************)

LEMMA BlankType == Blank \in Seen /\ \A k \in Keys : Debit(k) \in Nat
  BY AmountsAssumption DEF Blank, Seen, PayoutStatuses, Debit

LEMMA NormalStatus == \A s \in Reported : NormalizeStatus(s) \in PayoutStatuses
  BY DEF Reported, NormalizeStatus, PayoutStatuses

LEMMA HandlerTypes ==
    ASSUME TypeOK, NEW h \in Handlers
    PROVE  /\ \A s \in Steps : Goto(h, s) => pc' \in [Handlers -> Steps]
           /\ Return(h) => pc' \in [Handlers -> Steps] /\ seen' \in [Handlers -> Seen]
           /\ Fault => faults' \in Nat
  BY BlankType DEF Goto, Return, Fault, TypeOK, Steps

LEMMA TypeInit == Init => TypeOK
  BY BlankType DEF Init, TypeOK, Steps, Event

LEMMA TypeStep == TypeOK /\ [Next]_vars => TypeOK'
  <1>. SUFFICES ASSUME TypeOK, [Next]_vars
                PROVE  TypeOK'
    OBVIOUS
  <1>. USE DEF rows, money, psp, budget
  <1>0. CASE UNCHANGED vars
    BY <1>0 DEF TypeOK, vars
  <1>1. ASSUME NEW h \in Handlers, NEW k \in Keys, NEW to \in PayoutStatuses,
               NEW by \in {"psp", "manual", "job"},
               seen' = [seen EXCEPT ![h] = [key |-> k, to |-> to, by |-> by]]
        PROVE  seen' \in [Handlers -> Seen]
    BY <1>1 DEF Seen, TypeOK
  <1>2. ASSUME NEW h \in Handlers, Begin(h)
        PROVE  TypeOK'
    <2>1. CASE LockTake(h)
      <3>1. seen' \in [Handlers -> Seen]
        BY <2>1 DEF LockTake, TypeOK, Seen
      <3>. QED
        BY <2>1, <3>1, HandlerTypes DEF LockTake, TypeOK, Steps, ReqSteps
    <2>2. CASE AdminDecides(h)
      <3>1. seen' \in [Handlers -> Seen]
        BY <2>2, <1>1 DEF AdminDecides, StartApply, PayoutStatuses
      <3>. QED
        BY <2>2, <3>1, HandlerTypes DEF AdminDecides, StartApply, TypeOK, Steps
    <2>3. CASE WebhookStart(h)
      <3>1. seen' \in [Handlers -> Seen]
        BY <2>3, <1>1, NormalStatus DEF WebhookStart, TypeOK, Event
      <3>. QED
        BY <2>3, <3>1, HandlerTypes DEF WebhookStart, TypeOK, Steps
    <2>4. CASE JobStart(h)
      <3>1. seen' \in [Handlers -> Seen]
        BY <2>4, <1>1 DEF JobStart, TypeOK, PayoutStatuses
      <3>2. pc' \in [Handlers -> Steps]
        BY <2>4 DEF JobStart, Goto, TypeOK, Steps
      <3>. QED
        BY <2>4, <3>1, <3>2 DEF JobStart, TypeOK
    <2>. QED
      BY <1>2, <2>1, <2>2, <2>3, <2>4 DEF Begin
  <1>3. ASSUME NEW h \in Handlers, RequestStep(h)
        PROVE  TypeOK'
    <2>1. CASE ReqRead(h)
      BY <2>1, HandlerTypes DEF ReqRead, TypeOK, Steps, ReqSteps
    <2>2. CASE ReqInsert(h)
      BY <2>2, HandlerTypes DEF ReqInsert, TypeOK, Steps, ReqSteps
    <2>3. CASE PspAccepts(h)
      <3>1. seen' \in [Handlers -> Seen] /\ seen[h].key \in Keys
        BY <2>3 DEF PspAccepts, TypeOK, Seen, PayoutStatuses
      <3>. QED
        BY <2>3, <3>1, HandlerTypes DEF PspAccepts, TypeOK, Steps, ReqSteps
    <2>4. CASE EnqueueJob(h)
      BY <2>4, HandlerTypes DEF EnqueueJob, TypeOK, Steps, ReqSteps
    <2>5. CASE ReqCommit(h)
      <3>1. seen[h].key \in Keys /\ seen[h].to \in PayoutStatuses
        BY DEF TypeOK, Seen
      <3>2. ledgerSum' \in Int
        BY <2>5, <3>1, BlankType DEF ReqCommit, TypeOK
      <3>. QED
        BY <2>5, <3>1, <3>2, HandlerTypes DEF ReqCommit, TypeOK, Steps, ReqSteps
    <2>6. CASE Unlock(h)
      BY <2>6, HandlerTypes DEF Unlock, TypeOK
    <2>. QED
      BY <1>3, <2>1, <2>2, <2>3, <2>4, <2>5, <2>6 DEF RequestStep
  <1>4. ASSUME NEW h \in Handlers, UpdateStep(h)
        PROVE  TypeOK'
    <2>0. seen[h].key \in Keys /\ seen[h].to \in PayoutStatuses
          /\ seen[h].by \in {"psp", "manual", "job"}
      BY DEF TypeOK, Seen
    <2>1. CASE WebhookRecord(h)
      BY <2>1, HandlerTypes DEF WebhookRecord, TypeOK, Steps
    <2>2. CASE WebhookRead(h)
      BY <2>2, HandlerTypes DEF WebhookRead, TypeOK, Steps
    <2>3. CASE JobWrite(h)
      BY <2>0, <2>3, HandlerTypes DEF JobWrite, TypeOK, Steps, PayoutStatuses
    <2>4. CASE Apply(h)
      <3>1. ledgerSum' \in Int /\ released' \in [Keys -> Nat]
        <4>1. CASE seen[h].to \in RolledBack
          <5>1. /\ released' = [released EXCEPT ![seen[h].key] = @ + 1]
                /\ ledgerSum' = ledgerSum + Amount[seen[h].key]
            BY <2>4, <4>1 DEF Apply
          <5>2. released \in [Keys -> Nat] /\ ledgerSum \in Int
            BY DEF TypeOK
          <5>. QED
            BY <2>0, <5>1, <5>2, AmountsAssumption
        <4>2. CASE seen[h].to \notin RolledBack
          BY <2>4, <4>2 DEF Apply, TypeOK
        <4>. QED
          BY <4>1, <4>2
      <3>2. payout' \in [Keys -> PayoutStatuses \cup {"NONE"}]
            /\ gateway' \in [Keys -> {"none", "psp", "manual", "job"}]
            /\ jobs' \in [Keys -> {"none", "queued", "active", "done"}]
        BY <2>0, <2>4 DEF Apply, TypeOK
      <3>. QED
        BY <2>4, <3>1, <3>2, HandlerTypes DEF Apply, TypeOK
    <2>. QED
      BY <1>4, <2>1, <2>2, <2>3, <2>4 DEF UpdateStep
  <1>5. ASSUME NEW h \in Handlers, Fail(h)
        PROVE  TypeOK'
    <2>0. seen[h].key \in Keys
      BY DEF TypeOK, Seen
    <2>1. CASE PspFails(h)
      BY <2>0, <2>1, HandlerTypes DEF PspFails, TypeOK, Steps, ReqSteps
    <2>2. CASE ReqAbort(h)
      BY <2>2, HandlerTypes DEF ReqAbort, TypeOK, Steps, ReqSteps
    <2>3. CASE Crash(h)
      BY <2>0, <2>3, HandlerTypes DEF Crash, TypeOK
    <2>. QED
      BY <1>5, <2>1, <2>2, <2>3 DEF Fail
  <1>6. CASE Environment
    <2>1. CASE LockExpires \/ LockExpiresOnHolder
      BY <2>1 DEF LockExpires, LockExpiresOnHolder, TypeOK
    <2>2. CASE PaymentHeld \/ EarningWritten \/ EarningSettles \/ DisputeHold
      BY <2>2, AmountsAssumption
        DEF PaymentHeld, EarningWritten, EarningSettles, DisputeHold, TypeOK
    <2>3. ASSUME NEW final \in BOOLEAN, PspReports(final)
          PROVE  TypeOK'
      <3>1. events' \subseteq Event
        BY <2>3 DEF PspReports, TypeOK, Event, Final, Reported
      <3>. QED
        BY <2>3, <3>1 DEF PspReports, TypeOK
    <2>. QED
      BY <1>6, <2>1, <2>2, <2>3 DEF Environment
  <1>. QED
    BY <1>0, <1>2, <1>3, <1>4, <1>5, <1>6 DEF Next

\* Every reachable state is well typed.
THEOREM TypeCorrect == Spec => []TypeOK
  BY TypeInit, TypeStep, PTL DEF Spec
-----------------------------------------------------------------------------
(***************************************************************************)
(* Idempotency.                                                            *)
(***************************************************************************)

Updating == {"job.write", "apply"}

\* Only h moves.
Alone(h) == \A g \in Handlers \ {h} : pc'[g] = pc[g] /\ seen'[g] = seen[g]

LEMMA Moves ==
    ASSUME TypeOK, NEW h \in Handlers
    PROVE  /\ \A s \in Steps : Goto(h, s) =>
                 pc'[h] = s /\ \A g \in Handlers \ {h} : pc'[g] = pc[g]
           /\ Return(h) => pc'[h] = "idle" /\ Alone(h)
  BY DEF Goto, Return, TypeOK, Steps, Alone

\* A step that writes no payout and opens no insert keeps the key invariant, if
\* what it starts to update exists.
LEMMA KeyKept ==
    ASSUME KeyInv, KeyDebitedOnce, NEW h \in Handlers, Alone(h),
           UNCHANGED <<payout, debits>>,
           pc'[h] \in TxSteps => pc[h] \in TxSteps /\ seen'[h].key = seen[h].key,
           pc'[h] \in Updating => payout[seen'[h].key] # "NONE"
    PROVE  KeyInv' /\ KeyDebitedOnce'
  BY DEF KeyInv, KeyDebitedOnce, Alone, Updating

LEMMA KeyInit == Init => KInv
  BY TypeInit DEF Init, KInv, KeyInv, KeyDebitedOnce, TxSteps

LEMMA KeyBegin ==
    ASSUME KInv, NEW h \in Handlers, Begin(h)
    PROVE  KeyInv' /\ KeyDebitedOnce'
  <1>. USE DEF KInv, rows
  <1>1. CASE LockTake(h)
    <2>1. Alone(h) /\ pc'[h] = "req.read"
      BY <1>1 DEF LockTake, Goto, Alone, TypeOK
    <2>. QED
      BY <1>1, <2>1, KeyKept DEF LockTake, TxSteps, Updating
  <1>2. CASE AdminDecides(h)
    <2>1. PICK k \in Keys, to \in {"PAID", "FAILED", "CANCELED"} :
            KeyTaken(k) /\ StartApply(h, k, to, "manual")
      BY <1>2 DEF AdminDecides
    <2>2. Alone(h) /\ pc'[h] = "apply" /\ seen'[h].key = k
      BY <2>1 DEF StartApply, Goto, Alone, TypeOK
    <2>. QED
      BY <1>2, <2>1, <2>2, KeyKept DEF AdminDecides, KeyTaken, TxSteps, Updating
  <1>3. CASE WebhookStart(h)
    <2>1. Alone(h) /\ pc'[h] = "wh.record"
      BY <1>3 DEF WebhookStart, Goto, Alone, TypeOK
    <2>. QED
      BY <1>3, <2>1, KeyKept DEF WebhookStart, TxSteps, Updating
  <1>4. CASE JobStart(h)
    <2>1. PICK k \in Keys :
            \/ /\ payout[k] = "PENDING" /\ Goto(h, "job.write")
               /\ seen' = [seen EXCEPT ![h] = [key |-> k, to |-> "PAID", by |-> "job"]]
            \/ UNCHANGED <<pc, seen>>
      BY <1>4 DEF JobStart
    <2>2. CASE UNCHANGED <<pc, seen>>
      BY <1>4, <2>2 DEF JobStart, KeyInv, KeyDebitedOnce
    <2>3. CASE ~UNCHANGED <<pc, seen>>
      <3>1. Alone(h) /\ pc'[h] = "job.write" /\ seen'[h].key = k /\ payout[k] # "NONE"
        BY <2>1, <2>3 DEF Goto, Alone, TypeOK
      <3>. QED
        BY <1>4, <3>1, KeyKept DEF JobStart, TxSteps, Updating
    <2>. QED
      BY <2>2, <2>3
  <1>. QED
    BY <1>1, <1>2, <1>3, <1>4 DEF Begin

LEMMA KeyRequest ==
    ASSUME KInv, NEW h \in Handlers, RequestStep(h)
    PROVE  KeyInv' /\ KeyDebitedOnce'
  <1>. USE DEF KInv, rows, TxSteps, Updating
  <1>1. CASE ReqRead(h)
    <2>1. Alone(h) /\ pc'[h] \in {"req.insert", "req.unlock"}
      BY <1>1 DEF ReqRead, Goto, Alone, TypeOK
    <2>. QED
      BY <1>1, <2>1, KeyKept DEF ReqRead
  <1>2. CASE ReqInsert(h)
    <2>1. Alone(h) /\ seen' = seen
          /\ pc'[h] = IF KeyTaken(seen[h].key) THEN "req.unlock" ELSE "req.send"
      BY <1>2 DEF ReqInsert, Goto, Alone, TypeOK
    <2>2. CASE KeyTaken(seen[h].key)
      BY <1>2, <2>1, <2>2, KeyKept DEF ReqInsert
    <2>3. CASE ~KeyTaken(seen[h].key)
      <3>1. \A g \in Handlers \ {h} : pc[g] \in TxSteps => seen[g].key # seen[h].key
        BY <1>2 DEF ReqInsert
      <3>2. KeyInv'
        BY <1>2, <2>1, <2>3, <3>1 DEF ReqInsert, KeyInv, KeyTaken, Alone
      <3>. QED
        BY <1>2, <3>2 DEF ReqInsert, KeyDebitedOnce
    <2>. QED
      BY <2>2, <2>3
  <1>3. CASE PspAccepts(h)
    <2>1. Alone(h) /\ pc[h] = "req.send" /\ pc'[h] = "req.commit"
          /\ seen'[h].key = seen[h].key
      BY <1>3 DEF PspAccepts, Goto, Alone, TypeOK, Seen
    <2>. QED
      BY <1>3, <2>1, KeyKept DEF PspAccepts
  <1>4. CASE EnqueueJob(h)
    <2>1. Alone(h) /\ pc[h] = "req.send" /\ pc'[h] = "req.commit"
          /\ seen'[h].key = seen[h].key
      BY <1>4 DEF EnqueueJob, Goto, Alone, TypeOK
    <2>. QED
      BY <1>4, <2>1, KeyKept DEF EnqueueJob
  <1>5. CASE ReqCommit(h)
    <2>. DEFINE k == seen[h].key
    <2>1. k \in Keys /\ seen[h].to # "NONE"
      BY DEF TypeOK, Seen, PayoutStatuses
    <2>2. Alone(h) /\ pc'[h] = "req.unlock" /\ seen' = seen
      BY <1>5 DEF ReqCommit, Goto, Alone, TypeOK
    <2>3. payout[k] = "NONE" /\ debits[k] = 0
      BY <1>5, <2>1 DEF ReqCommit, KeyInv, KeyDebitedOnce
    <2>4. /\ payout'[k] # "NONE" /\ debits'[k] = 1
          /\ \A j \in Keys \ {k} : payout'[j] = payout[j] /\ debits'[j] = debits[j]
      BY <1>5, <2>1, <2>3 DEF ReqCommit, TypeOK
    <2>5. \A g \in Handlers : seen[g].key \in Keys
      BY DEF TypeOK, Seen
    <2>6. KeyInv'
      BY <1>5, <2>2, <2>4, <2>5 DEF KeyInv, Alone, ReqCommit
    <2>7. KeyDebitedOnce'
      BY <2>1, <2>4 DEF KeyDebitedOnce
    <2>. QED
      BY <2>6, <2>7
  <1>6. CASE Unlock(h)
    BY <1>6, KeyKept, Moves DEF Unlock
  <1>. QED
    BY <1>1, <1>2, <1>3, <1>4, <1>5, <1>6 DEF RequestStep

\* An update changes the status of a payout that exists, to another status.
LEMMA KeyUpdate ==
    ASSUME KInv, NEW h \in Handlers, UpdateStep(h)
    PROVE  KeyInv' /\ KeyDebitedOnce'
  <1>. USE DEF KInv, rows, TxSteps, Updating
  <1>1. CASE WebhookRecord(h)
    <2>1. Alone(h) /\ pc'[h] = "wh.read"
      BY <1>1 DEF WebhookRecord, Goto, Alone, TypeOK
    <2>. QED
      BY <1>1, <2>1, KeyKept DEF WebhookRecord
  <1>2. CASE WebhookRead(h)
    <2>1. CASE Refused(seen[h].key, seen[h].to)
      BY <1>2, <2>1, KeyKept, Moves DEF WebhookRead
    <2>2. CASE ~Refused(seen[h].key, seen[h].to)
      <3>1. Alone(h) /\ pc'[h] = "apply" /\ seen' = seen
        BY <1>2, <2>2 DEF WebhookRead, Goto, Alone, TypeOK
      <3>. QED
        BY <1>2, <2>2, <3>1, KeyKept DEF WebhookRead, Refused, KeyTaken
    <2>. QED
      BY <2>1, <2>2
  <1>3. ASSUME NEW to \in PayoutStatuses, pc[h] \in Updating,
               payout' = [payout EXCEPT ![seen[h].key] = to], debits' = debits,
               Alone(h), pc'[h] \notin TxSteps,
               pc'[h] \in Updating => seen'[h] = seen[h]
        PROVE  KeyInv' /\ KeyDebitedOnce'
    <2>1. /\ payout[seen[h].key] # "NONE" /\ to # "NONE"
          /\ \A g \in Handlers : seen[g].key \in Keys
      BY <1>3 DEF KeyInv, TypeOK, Seen, PayoutStatuses
    <2>2. \A j \in Keys : payout'[j] = "NONE" <=> payout[j] = "NONE"
      BY <1>3, <2>1 DEF TypeOK
    <2>. QED
      BY <1>3, <2>1, <2>2 DEF KeyInv, KeyDebitedOnce, Alone
  <1>4. CASE JobWrite(h)
    <2>1. Alone(h) /\ pc'[h] = "apply" /\ seen'[h] = seen[h]
      BY <1>4 DEF JobWrite, Goto, Alone, TypeOK
    <2>. QED
      BY <1>3, <1>4, <2>1 DEF JobWrite, PayoutStatuses
  <1>5. CASE Apply(h)
    <2>1. seen[h].to \in PayoutStatuses
      BY DEF TypeOK, Seen
    <2>. QED
      BY <1>3, <1>5, <2>1, Moves DEF Apply
  <1>. QED
    BY <1>1, <1>2, <1>4, <1>5 DEF UpdateStep

LEMMA KeyStep == KInv /\ [Next]_vars => KInv'
  <1>. SUFFICES ASSUME KInv, [Next]_vars
                PROVE  KeyInv' /\ KeyDebitedOnce'
    BY TypeStep DEF KInv
  <1>. USE DEF KInv, rows
  <1>1. ASSUME UNCHANGED <<payout, debits, pc, seen>>
        PROVE  KeyInv' /\ KeyDebitedOnce'
    BY <1>1 DEF KeyInv, KeyDebitedOnce
  <1>2. CASE UNCHANGED vars
    BY <1>1, <1>2 DEF vars
  <1>3. CASE Environment
    BY <1>1, <1>3
      DEF Environment, LockExpires, LockExpiresOnHolder, PaymentHeld, EarningWritten,
          EarningSettles, DisputeHold, PspReports
  <1>4. ASSUME NEW h \in Handlers, Fail(h)
        PROVE  KeyInv' /\ KeyDebitedOnce'
    <2>1. CASE PspFails(h)
      <3>1. Alone(h) /\ pc[h] = "req.send" /\ pc'[h] = "req.commit" /\ seen' = seen
        BY <2>1 DEF PspFails, Goto, Alone, TypeOK
      <3>. QED
        BY <2>1, <3>1, KeyKept DEF PspFails, TxSteps, Updating
    <2>2. CASE ReqAbort(h)
      <3>1. Alone(h) /\ pc'[h] = "req.unlock"
        BY <2>2 DEF ReqAbort, Goto, Alone, TypeOK
      <3>. QED
        BY <2>2, <3>1, KeyKept DEF ReqAbort, TxSteps, Updating
    <2>3. CASE Crash(h)
      BY <2>3, KeyKept, Moves DEF Crash, TxSteps, Updating
    <2>. QED
      BY <1>4, <2>1, <2>2, <2>3 DEF Fail
  <1>. QED
    BY <1>2, <1>3, <1>4, KeyBegin, KeyRequest, KeyUpdate DEF Next

\* One debit per idempotency key that has a payout, none otherwise.
THEOREM DebitedOnce == Spec => []KeyDebitedOnce
  <1>1. KInv => KeyDebitedOnce
    BY DEF KInv
  <1>. QED
    BY <1>1, KeyInit, KeyStep, PTL DEF Spec
-----------------------------------------------------------------------------
(***************************************************************************)
(* Solvency.                                                               *)
(***************************************************************************)

SInv == TypeOK /\ FundsInv /\ Solvent

\* What withdrawals may take grows in every step but a debit.
Covered == ledgerSum + disputed

LEMMA FundsKept ==
    ASSUME TypeOK, TypeOK', FundsInv, Solvent, NEW h \in Handlers, Alone(h),
           Covered <= Covered', lock' = lock,
           pc'[h] \in ReqSteps => pc[h] \in ReqSteps,
           pc'[h] \in CheckedSteps =>
               pc[h] \in CheckedSteps /\ seen'[h].key = seen[h].key
    PROVE  FundsInv' /\ Solvent'
  <1>1. \A g \in Handlers : seen[g].key \in Keys /\ Debit(seen[g].key) \in Nat
    BY BlankType DEF TypeOK, Seen
  <1>2. Covered \in Int /\ Covered' \in Int
    BY DEF TypeOK, Covered
  <1>3. Solvent'
    <2>1. Covered >= 0
      BY DEF Solvent, Covered
    <2>2. Covered' >= 0
      BY <1>2, <2>1
    <2>. QED
      BY <2>2 DEF Solvent, Covered
  <1>4. ASSUME NEW g \in Handlers, pc'[g] \in CheckedSteps
        PROVE  Debit(seen'[g].key) <= Covered'
    <2>1. pc[g] \in CheckedSteps /\ seen'[g].key = seen[g].key
      BY <1>4 DEF Alone
    <2>2. Debit(seen[g].key) <= Covered
      BY <2>1 DEF FundsInv, Covered
    <2>3. Debit(seen'[g].key) = Debit(seen[g].key) /\ Debit(seen[g].key) \in Nat
      BY <1>1, <2>1
    <2>. HIDE DEF Debit
    <2>. QED
      BY <1>2, <2>2, <2>3
  <1>5. ASSUME NEW g \in Handlers, pc'[g] \in ReqSteps
        PROVE  lock' = g
    BY <1>5 DEF FundsInv, Alone
  <1>. QED
    BY <1>3, <1>4, <1>5 DEF FundsInv, Covered

LEMMA FundsInit == Init => FInv
  BY TypeInit DEF Init, FInv, FundsInv, Solvent, ReqSteps, CheckedSteps

LEMMA FundsBegin ==
    ASSUME SInv, TypeOK', NEW h \in Handlers, Begin(h)
    PROVE  FundsInv' /\ Solvent'
  <1>. USE DEF SInv, money, ReqSteps, CheckedSteps, Covered
  <1>0. ledgerSum \in Int /\ disputed \in Nat
    BY DEF TypeOK
  <1>1. CASE LockTake(h)
    <2>1. Alone(h) /\ pc'[h] = "req.read" /\ lock' = h
      BY <1>1 DEF LockTake, Goto, Alone, TypeOK
    <2>2. \A g \in Handlers : pc[g] \notin ReqSteps
      BY <1>1, HandlersAssumption DEF LockTake, LockIsFree, FundsInv
    <2>. QED
      BY <1>1, <2>1, <2>2 DEF LockTake, FundsInv, Solvent, Alone
  <1>2. CASE AdminDecides(h)
    <2>1. Alone(h) /\ pc'[h] = "apply"
      BY <1>2 DEF AdminDecides, StartApply, Goto, Alone, TypeOK
    <2>. QED
      BY <1>0, <1>2, <2>1, FundsKept DEF AdminDecides
  <1>3. CASE WebhookStart(h)
    <2>1. Alone(h) /\ pc'[h] = "wh.record"
      BY <1>3 DEF WebhookStart, Goto, Alone, TypeOK
    <2>. QED
      BY <1>0, <1>3, <2>1, FundsKept DEF WebhookStart
  <1>4. CASE JobStart(h)
    <2>1. Alone(h) /\ (pc'[h] = "job.write" \/ pc'[h] = pc[h]) /\ pc[h] = "idle"
      BY <1>4 DEF JobStart, Goto, Alone, TypeOK
    <2>. QED
      BY <1>0, <1>4, <2>1, FundsKept DEF JobStart
  <1>. QED
    BY <1>1, <1>2, <1>3, <1>4 DEF Begin

LEMMA FundsRequest ==
    ASSUME SInv, TypeOK', NEW h \in Handlers, RequestStep(h)
    PROVE  FundsInv' /\ Solvent'
  <1>. USE DEF SInv, ReqSteps, CheckedSteps
  <1>0. /\ ledgerSum \in Int /\ disputed \in Nat /\ fresh \in Nat
        /\ seen[h].key \in Keys /\ Debit(seen[h].key) \in Nat
    BY BlankType DEF TypeOK, Seen
  <1>1. CASE ReqRead(h)
    <2>1. Alone(h) /\ seen' = seen
          /\ pc[h] = "req.read" /\ pc'[h] \in {"req.insert", "req.unlock"}
          /\ (pc'[h] = "req.insert" => WithinLimits(seen[h].key))
      BY <1>1 DEF ReqRead, Goto, Alone, TypeOK
    <2>2. CASE pc'[h] = "req.unlock"
      BY <1>0, <1>1, <2>1, <2>2, FundsKept DEF ReqRead, money, Covered
    <2>3. CASE pc'[h] = "req.insert"
      <3>1. Debit(seen[h].key) <= ledgerSum + disputed
        BY <1>0, <2>1, <2>3 DEF WithinLimits, Balance
      <3>. QED
        BY <1>1, <2>1, <2>3, <3>1 DEF ReqRead, money, FundsInv, Solvent, Alone
    <2>. QED
      BY <2>1, <2>2, <2>3
  <1>2. CASE ReqInsert(h)
    <2>1. Alone(h) /\ seen' = seen
          /\ pc[h] = "req.insert" /\ pc'[h] \in {"req.send", "req.unlock"}
      BY <1>2 DEF ReqInsert, Goto, Alone, TypeOK
    <2>. QED
      BY <1>0, <1>2, <2>1, FundsKept DEF ReqInsert, money, Covered
  <1>3. CASE PspAccepts(h)
    <2>1. Alone(h) /\ pc[h] = "req.send" /\ pc'[h] = "req.commit"
          /\ seen'[h].key = seen[h].key
      BY <1>3 DEF PspAccepts, Goto, Alone, TypeOK, Seen
    <2>. QED
      BY <1>0, <1>3, <2>1, FundsKept DEF PspAccepts, money, Covered
  <1>4. CASE EnqueueJob(h)
    <2>1. Alone(h) /\ pc[h] = "req.send" /\ pc'[h] = "req.commit"
          /\ seen'[h].key = seen[h].key
      BY <1>4 DEF EnqueueJob, Goto, Alone, TypeOK
    <2>. QED
      BY <1>0, <1>4, <2>1, FundsKept DEF EnqueueJob, money, Covered
  <1>5. CASE ReqCommit(h)
    <2>1. Alone(h) /\ pc[h] = "req.commit" /\ pc'[h] = "req.unlock" /\ seen' = seen
      BY <1>5 DEF ReqCommit, Goto, Alone, TypeOK
    <2>2. /\ ledgerSum' = ledgerSum - Debit(seen[h].key) /\ disputed' = disputed
          /\ lock' = lock
      BY <1>5 DEF ReqCommit
    <2>3. Debit(seen[h].key) <= ledgerSum + disputed
      BY <2>1 DEF FundsInv
    <2>4. Solvent'
      BY <1>0, <2>2, <2>3 DEF Solvent
    <2>5. \A g \in Handlers \ {h} : pc[g] \notin ReqSteps
      BY <2>1 DEF FundsInv
    <2>6. FundsInv'
      BY <2>1, <2>2, <2>5 DEF FundsInv, Alone
    <2>. QED
      BY <2>4, <2>6
  <1>6. CASE Unlock(h)
    <2>1. Alone(h) /\ pc'[h] = "idle" /\ pc[h] = "req.unlock"
      BY <1>6, Moves DEF Unlock
    <2>2. \A g \in Handlers \ {h} : pc[g] \notin ReqSteps
      BY <2>1 DEF FundsInv
    <2>. QED
      BY <1>6, <2>1, <2>2 DEF Unlock, money, FundsInv, Solvent, Alone
  <1>. QED
    BY <1>1, <1>2, <1>3, <1>4, <1>5, <1>6 DEF RequestStep

LEMMA FundsUpdate ==
    ASSUME SInv, TypeOK', NEW h \in Handlers, UpdateStep(h) \/ Fail(h)
    PROVE  FundsInv' /\ Solvent'
  <1>. USE DEF SInv, ReqSteps, CheckedSteps, money, Covered
  <1>0. /\ ledgerSum \in Int /\ disputed \in Nat
        /\ seen[h].key \in Keys /\ Amount[seen[h].key] \in Nat
    BY AmountsAssumption DEF TypeOK, Seen
  <1>1. CASE WebhookRecord(h)
    <2>1. Alone(h) /\ pc'[h] = "wh.read"
      BY <1>1 DEF WebhookRecord, Goto, Alone, TypeOK
    <2>. QED
      BY <1>0, <1>1, <2>1, FundsKept DEF WebhookRecord
  <1>2. CASE WebhookRead(h)
    <2>1. Alone(h) /\ pc'[h] \in {"idle", "apply"}
      BY <1>2 DEF WebhookRead, Return, Goto, Alone, TypeOK
    <2>. QED
      BY <1>0, <1>2, <2>1, FundsKept DEF WebhookRead
  <1>3. CASE JobWrite(h)
    <2>1. Alone(h) /\ pc'[h] = "apply"
      BY <1>3 DEF JobWrite, Goto, Alone, TypeOK
    <2>. QED
      BY <1>0, <1>3, <2>1, FundsKept DEF JobWrite
  <1>4. CASE Apply(h)
    <2>1. Alone(h) /\ pc'[h] = "idle" /\ lock' = lock
      BY <1>4, Moves DEF Apply
    <2>2. Covered <= Covered'
      <3>1. CASE seen[h].to \in RolledBack
        BY <1>0, <1>4, <3>1 DEF Apply
      <3>2. CASE seen[h].to \notin RolledBack
        BY <1>0, <1>4, <3>2 DEF Apply
      <3>. QED
        BY <3>1, <3>2
    <2>. QED
      BY <2>1, <2>2, FundsKept
  <1>5. CASE PspFails(h)
    <2>1. Alone(h) /\ pc[h] = "req.send" /\ pc'[h] = "req.commit" /\ seen' = seen
      BY <1>5 DEF PspFails, Goto, Alone, TypeOK
    <2>. QED
      BY <1>0, <1>5, <2>1, FundsKept DEF PspFails
  <1>6. CASE ReqAbort(h)
    <2>1. Alone(h) /\ pc[h] = "req.commit" /\ pc'[h] = "req.unlock"
      BY <1>6 DEF ReqAbort, Goto, Alone, TypeOK
    <2>. QED
      BY <1>0, <1>6, <2>1, FundsKept DEF ReqAbort
  <1>7. CASE Crash(h)
    BY <1>0, <1>7, FundsKept, Moves DEF Crash
  <1>. QED
    BY <1>1, <1>2, <1>3, <1>4, <1>5, <1>6, <1>7 DEF UpdateStep, Fail

\* A request that has outlived its lock is never forgotten.
LEMMA StallsGrow == TypeOK /\ [Next]_vars => stalls' \in Nat /\ stalls <= stalls'
  <1>. SUFFICES ASSUME TypeOK, [Next]_vars
                PROVE  stalls <= stalls'
    BY TypeStep DEF TypeOK
  <1>. USE DEF budget
  <1>0. stalls \in Nat
    BY DEF TypeOK
  <1>1. CASE UNCHANGED vars
    BY <1>0, <1>1 DEF vars
  <1>2. CASE Environment
    BY <1>0, <1>2
      DEF Environment, LockExpires, LockExpiresOnHolder, PaymentHeld, EarningWritten,
          EarningSettles, DisputeHold, PspReports
  <1>3. ASSUME NEW h \in Handlers, Begin(h)
        PROVE  stalls' = stalls
    BY <1>3 DEF Begin, LockTake, AdminDecides, WebhookStart, JobStart
  <1>4. ASSUME NEW h \in Handlers, RequestStep(h)
        PROVE  stalls' = stalls
    BY <1>4 DEF RequestStep, ReqRead, ReqInsert, PspAccepts, EnqueueJob, ReqCommit, Unlock
  <1>5. ASSUME NEW h \in Handlers, UpdateStep(h) \/ Fail(h)
        PROVE  stalls' = stalls
    BY <1>5 DEF UpdateStep, WebhookRecord, WebhookRead, JobWrite, Apply, Fail, PspFails,
                ReqAbort, Crash
  <1>. QED
    BY <1>0, <1>1, <1>2, <1>3, <1>4, <1>5 DEF Next

LEMMA FundsStep == FInv /\ [Next]_vars => FInv'
  <1>. SUFFICES ASSUME FInv, [Next]_vars, stalls' = 0
                PROVE  FundsInv' /\ Solvent'
    BY TypeStep DEF FInv
  <1>0. /\ TypeOK' /\ SInv /\ stalls = 0
        /\ ledgerSum \in Int /\ disputed \in Nat
    BY TypeStep, StallsGrow DEF FInv, SInv, TypeOK
  <1>1. CASE UNCHANGED vars
    BY <1>0, <1>1 DEF SInv, FundsInv, Solvent, vars
  <1>2. CASE LockExpires
    BY <1>0, <1>2 DEF SInv, LockExpires, HolderGone, FundsInv, Solvent, money
  <1>3. CASE LockExpiresOnHolder
    BY <1>0, <1>3 DEF LockExpiresOnHolder
  <1>4. ASSUME UNCHANGED <<pc, seen, lock>>, Covered <= Covered'
        PROVE  FundsInv' /\ Solvent'
    <2>1. Covered \in Int /\ Covered' \in Int /\ Covered >= 0
      BY <1>0 DEF SInv, TypeOK, Solvent, Covered
    <2>2. Covered' >= 0
      BY <1>4, <2>1
    <2>3. ASSUME NEW g \in Handlers, pc[g] \in CheckedSteps
          PROVE  Debit(seen[g].key) <= Covered'
      <3>1. Debit(seen[g].key) <= Covered
        BY <1>0, <2>3 DEF SInv, FundsInv, Covered
      <3>2. Debit(seen[g].key) \in Nat
        BY <1>0, BlankType DEF SInv, TypeOK, Seen
      <3>. QED
        BY <1>4, <2>1, <3>1, <3>2
    <2>. QED
      BY <1>0, <1>4, <2>2, <2>3 DEF SInv, FundsInv, Solvent, Covered
  <1>5. CASE PaymentHeld \/ EarningWritten \/ EarningSettles \/ DisputeHold
    BY <1>0, <1>4, <1>5, AmountsAssumption
      DEF PaymentHeld, EarningWritten, EarningSettles, DisputeHold, Covered
  <1>6. CASE PspReports(TRUE) \/ PspReports(FALSE)
    BY <1>0, <1>4, <1>6 DEF PspReports, money, Covered
  <1>. QED
    BY <1>0, <1>1, <1>2, <1>3, <1>5, <1>6, FundsBegin, FundsRequest, FundsUpdate
      DEF Next, Environment

\* Withdrawals never overdraw the ledger as long as no request outlives its lock.
THEOREM Solvency == Spec => []NoOverdraft
  <1>1. FInv => NoOverdraft
    BY DEF FInv, Solvent, NoOverdraft
  <1>. QED
    BY <1>1, FundsInit, FundsStep, PTL DEF Spec
-----------------------------------------------------------------------------
(***************************************************************************)
(* PAID is final, as long as no two updates of one payout overlap:         *)
(* applyGatewayUpdate writes what was decided on a payout read before.     *)
(***************************************************************************)

\* No two handlers are about to write the status of one payout.
UpdatesApart ==
    \A g, h \in Handlers :
        g # h /\ pc[g] \in Updating /\ pc[h] \in Updating => seen[g].key # seen[h].key

\* An update that would change a PAID payout is not under way, and a request inserts a
\* payout that is not PAID.
Guarded(h) ==
    /\ pc[h] = "apply" => payout[seen[h].key] # "PAID" \/ seen[h].to = "PAID"
    /\ pc[h] = "job.write" => payout[seen[h].key] # "PAID" /\ seen[h].to = "PAID"
    /\ pc[h] \in ReqSteps \cup {"idle"} => seen[h].to \in {"PENDING", "PROCESSING"}

PaidInv == KInv /\ \A h \in Handlers : Guarded(h)

\* Nothing is written: the others stay guarded.
LEMMA GuardKept ==
    ASSUME \A g \in Handlers : Guarded(g), NEW h \in Handlers, Alone(h), payout' = payout,
           Guarded(h)'
    PROVE  \A g \in Handlers : Guarded(g)'
  BY DEF Guarded, Alone

\* What becomes PAID was nobody else's to update.
LEMMA GuardWritten ==
    ASSUME PaidInv, UpdatesApart, NEW h \in Handlers, Alone(h), NEW to,
           payout' = [payout EXCEPT ![seen[h].key] = to],
           \/ pc[h] \in Updating
           \/ to # "PAID",
           Guarded(h)'
    PROVE  \A g \in Handlers : Guarded(g)'
  <1>1. SUFFICES ASSUME NEW g \in Handlers \ {h} PROVE Guarded(g)'
    OBVIOUS
  <1>2. pc'[g] = pc[g] /\ seen'[g] = seen[g] /\ seen[g].key \in Keys /\ seen[h].key \in Keys
    BY DEF Alone, PaidInv, KInv, TypeOK, Seen
  <1>3. payout'[seen[g].key] = IF seen[g].key = seen[h].key THEN to ELSE payout[seen[g].key]
    BY <1>2 DEF PaidInv, KInv, TypeOK
  <1>4. Guarded(g)
    BY DEF PaidInv
  <1>5. pc[g] \in Updating /\ payout[seen[g].key] # "PAID" => payout'[seen[g].key] # "PAID"
    BY <1>3 DEF UpdatesApart
  <1>. QED
    BY <1>2, <1>4, <1>5 DEF Guarded, Updating

LEMMA GuardStep ==
    ASSUME PaidInv, UpdatesApart, NEW h \in Handlers,
           Begin(h) \/ RequestStep(h) \/ UpdateStep(h) \/ Fail(h)
    PROVE  \A g \in Handlers : Guarded(g)'
  <1>. USE DEF rows
  <1>1. TypeOK /\ Guarded(h) /\ \A g \in Handlers : Guarded(g)
    BY DEF PaidInv, KInv
  <1>2. pc \in [Handlers -> Steps] /\ seen \in [Handlers -> Seen] /\ seen[h].key \in Keys
    BY <1>1 DEF TypeOK, Seen
  \* The steps of a request, up to its commit, keep what they will write.
  <1>3. ASSUME NEW s \in ReqSteps, Goto(h, s), payout' = payout, pc[h] \in ReqSteps \cup {"idle"},
               \A g \in Handlers \ {h} : seen'[g] = seen[g],
               seen'[h].to \in {seen[h].to, "PROCESSING"}
        PROVE  \A g \in Handlers : Guarded(g)'
    <2>1. Alone(h) /\ pc'[h] = s
      BY <1>2, <1>3 DEF Goto, Alone
    <2>2. Guarded(h)'
      BY <1>1, <1>3, <2>1 DEF Guarded, ReqSteps
    <2>. QED
      BY <1>1, <1>3, <2>1, <2>2, GuardKept
  <1>4. ASSUME Return(h), payout' = payout
        PROVE  \A g \in Handlers : Guarded(g)'
    <2>1. Alone(h) /\ pc'[h] = "idle" /\ seen'[h] = Blank
      BY <1>1, <1>2, <1>4, Moves DEF Return
    <2>2. Guarded(h)'
      BY <2>1 DEF Guarded, Blank
    <2>. QED
      BY <1>1, <1>4, <2>1, <2>2, GuardKept
  <1>5. CASE LockTake(h)
    <2>1. PICK k \in Keys : seen' = [seen EXCEPT ![h].key = k]
      BY <1>5 DEF LockTake
    <2>2. seen'[h].to = seen[h].to /\ \A g \in Handlers \ {h} : seen'[g] = seen[g]
      BY <1>2, <2>1 DEF Seen
    <2>. QED
      BY <1>3, <1>5, <2>2 DEF LockTake, ReqSteps
  <1>6. CASE ReqRead(h) \/ ReqInsert(h) \/ EnqueueJob(h) \/ PspFails(h) \/ ReqAbort(h)
    BY <1>3, <1>6 DEF ReqRead, ReqInsert, EnqueueJob, PspFails, ReqAbort, ReqSteps
  <1>7. CASE PspAccepts(h)
    <2>1. seen'[h].to = "PROCESSING" /\ \A g \in Handlers \ {h} : seen'[g] = seen[g]
      BY <1>2, <1>7 DEF PspAccepts, Seen
    <2>. QED
      BY <1>3, <1>7, <2>1 DEF PspAccepts, ReqSteps
  <1>8. CASE ReqCommit(h)
    <2>1. Alone(h) /\ pc'[h] = "req.unlock" /\ seen' = seen /\ pc[h] = "req.commit"
          /\ payout' = [payout EXCEPT ![seen[h].key] = seen[h].to]
      BY <1>2, <1>8 DEF ReqCommit, Goto, Alone
    <2>2. seen[h].to # "PAID" /\ Guarded(h)'
      BY <1>1, <2>1 DEF Guarded, ReqSteps
    <2>. QED
      BY <2>1, <2>2, GuardWritten
  <1>9. CASE Unlock(h) \/ Crash(h)
    BY <1>4, <1>9 DEF Unlock, Crash
  \* The updates that begin have read a payout that is not PAID, or make it PAID.
  <1>10. ASSUME NEW k \in Keys, NEW to, NEW by, StartApply(h, k, to, by), NotPaid(k),
                payout' = payout
         PROVE  \A g \in Handlers : Guarded(g)'
    <2>1. Alone(h) /\ pc'[h] = "apply" /\ seen'[h].key = k
      BY <1>2, <1>10 DEF StartApply, Goto, Alone
    <2>2. Guarded(h)'
      BY <1>10, <2>1 DEF Guarded, NotPaid, ReqSteps
    <2>. QED
      BY <1>1, <1>10, <2>1, <2>2, GuardKept
  <1>11. CASE AdminDecides(h)
    BY <1>10, <1>11 DEF AdminDecides
  <1>12. CASE WebhookStart(h) \/ WebhookRecord(h)
    <2>1. Alone(h) /\ pc'[h] \in {"wh.record", "wh.read"} /\ payout' = payout
      BY <1>2, <1>12 DEF WebhookStart, WebhookRecord, Goto, Alone
    <2>2. Guarded(h)'
      BY <2>1 DEF Guarded, ReqSteps
    <2>. QED
      BY <1>1, <2>1, <2>2, GuardKept
  <1>13. CASE WebhookRead(h)
    <2>1. CASE Refused(seen[h].key, seen[h].to)
      BY <1>4, <1>13, <2>1 DEF WebhookRead
    <2>2. CASE ~Refused(seen[h].key, seen[h].to)
      <3>1. Alone(h) /\ pc'[h] = "apply" /\ seen' = seen /\ payout' = payout
        BY <1>2, <1>13, <2>2 DEF WebhookRead, Goto, Alone
      <3>2. Guarded(h)'
        BY <2>2, <3>1 DEF Guarded, Refused, NotPaid, ReqSteps
      <3>. QED
        BY <1>1, <3>1, <3>2, GuardKept
    <2>. QED
      BY <2>1, <2>2
  <1>14. CASE JobStart(h)
    <2>1. PICK k \in Keys :
            \/ /\ payout[k] = "PENDING" /\ Goto(h, "job.write")
               /\ seen' = [seen EXCEPT ![h] = [key |-> k, to |-> "PAID", by |-> "job"]]
            \/ UNCHANGED <<pc, seen>>
      BY <1>14 DEF JobStart
    <2>2. payout' = payout
      BY <1>14 DEF JobStart
    <2>3. CASE UNCHANGED <<pc, seen>>
      BY <1>1, <2>2, <2>3 DEF Guarded
    <2>4. CASE ~UNCHANGED <<pc, seen>>
      <3>1. Alone(h) /\ pc'[h] = "job.write" /\ seen'[h].key = k /\ seen'[h].to = "PAID"
            /\ payout[k] = "PENDING"
        BY <1>2, <2>1, <2>4 DEF Goto, Alone
      <3>2. Guarded(h)'
        BY <2>2, <3>1 DEF Guarded, ReqSteps
      <3>. QED
        BY <1>1, <2>2, <3>1, <3>2, GuardKept
    <2>. QED
      BY <2>3, <2>4
  <1>15. CASE JobWrite(h)
    <2>1. Alone(h) /\ pc'[h] = "apply" /\ seen' = seen /\ pc[h] = "job.write"
          /\ payout' = [payout EXCEPT ![seen[h].key] = "PROCESSING"]
      BY <1>2, <1>15 DEF JobWrite, Goto, Alone
    <2>2. Guarded(h)'
      BY <1>1, <2>1 DEF Guarded, ReqSteps
    <2>. QED
      BY <2>1, <2>2, GuardWritten DEF Updating
  <1>16. CASE Apply(h)
    <2>1. Alone(h) /\ pc'[h] = "idle" /\ seen'[h] = Blank /\ pc[h] \in Updating
          /\ payout' = [payout EXCEPT ![seen[h].key] = seen[h].to]
      BY <1>1, <1>2, <1>16, Moves DEF Apply, Return, Updating
    <2>2. Guarded(h)'
      BY <2>1 DEF Guarded, Blank
    <2>. QED
      BY <2>1, <2>2, GuardWritten
  <1>. QED
    BY <1>5, <1>6, <1>7, <1>8, <1>9, <1>11, <1>12, <1>13, <1>14, <1>15, <1>16
       DEF Begin, RequestStep, UpdateStep, Fail

LEMMA PaidStart == Init => PaidInv
  BY KeyInit DEF Init, PaidInv, Guarded, Blank

LEMMA PaidStep ==
    ASSUME PaidInv, UpdatesApart, [Next]_vars
    PROVE  PaidInv' /\ \A k \in Keys : payout[k] = "PAID" => payout'[k] = "PAID"
  <1>1. KInv'
    BY KeyStep DEF PaidInv
  <1>2. CASE UNCHANGED <<payout, pc, seen>>
    BY <1>1, <1>2 DEF PaidInv, Guarded
  <1>3. ASSUME NEW h \in Handlers, Begin(h) \/ RequestStep(h) \/ UpdateStep(h) \/ Fail(h)
        PROVE  \A k \in Keys : payout[k] = "PAID" => payout'[k] = "PAID"
    <2>1. payout \in [Keys -> PayoutStatuses \cup {"NONE"}] /\ seen[h].key \in Keys /\ Guarded(h)
      BY DEF PaidInv, KInv, TypeOK, Seen
    <2>2. CASE ReqCommit(h)
      <3>1. payout[seen[h].key] = "NONE"
        BY <2>2 DEF PaidInv, KInv, KeyInv, ReqCommit, TxSteps
      <3>. QED
        BY <2>1, <2>2, <3>1 DEF ReqCommit
    <2>3. CASE JobWrite(h) \/ Apply(h)
      BY <2>1, <2>3 DEF JobWrite, Apply, Guarded
    <2>4. CASE payout' = payout
      BY <2>4
    <2>. QED
      BY <1>3, <2>2, <2>3, <2>4
         DEF Begin, LockTake, AdminDecides, WebhookStart, JobStart, RequestStep, ReqRead, ReqInsert,
             PspAccepts, EnqueueJob, Unlock, UpdateStep, WebhookRecord, WebhookRead,
             Fail, PspFails, ReqAbort, Crash, rows
  <1>4. CASE \E h \in Handlers : Begin(h) \/ RequestStep(h) \/ UpdateStep(h) \/ Fail(h)
    BY <1>1, <1>3, <1>4, GuardStep DEF PaidInv
  <1>5. CASE Environment
    BY <1>2, <1>5 DEF Environment, LockExpires, LockExpiresOnHolder, PaymentHeld, EarningWritten,
                      EarningSettles, DisputeHold, PspReports, rows
  <1>6. CASE UNCHANGED vars
    BY <1>2, <1>6 DEF vars
  <1>. QED
    BY <1>4, <1>5, <1>6 DEF Next

\* A PAID payout stays PAID in every behaviour in which no two updates of one payout, of
\* webhooks, administrators and jobs, overlap, whatever fails or dies in between.
THEOREM PaidStays == Spec /\ []UpdatesApart => PaidIsFinal
  <1>1. PaidInv /\ UpdatesApart /\ [Next]_vars
        => PaidInv' /\ [\A k \in Keys : payout[k] = "PAID" => payout'[k] = "PAID"]_payout
    BY PaidStep
  <1>. QED
    BY <1>1, PaidStart, PTL DEF Spec, PaidIsFinal

\* Where one process takes the webhooks, the decisions and the jobs in turn, nothing
\* more is needed: the code leaves the order to that process.
COROLLARY PaidStaysWithOneHandler ==
    (\A g, h \in Handlers : g = h) => (Spec => PaidIsFinal)
  <1>. SUFFICES ASSUME \A g, h \in Handlers : g = h
                PROVE  Spec => PaidIsFinal
    OBVIOUS
  <1>1. UpdatesApart
    BY DEF UpdatesApart
  <1>. QED
    BY <1>1, PaidStays, PTL
-----------------------------------------------------------------------------
(***************************************************************************)
(* Withdrawals are atomic as long as no request outlives its lock: each    *)
(* step is one of the account of Wallet, or leaves the account alone.      *)
(***************************************************************************)

WalletInv == KInv /\ FInv

AccountMoves == [Account!Next]_<<Funds, Withdrawn>>

\* What adds to the funds, or leaves them alone, is a deposit or nothing.
LEMMA Deposits ==
    ASSUME WalletInv, stalls = 0, Funds' \in Int, Funds <= Funds', Withdrawn' = Withdrawn
    PROVE  AccountMoves
  <1>1. Funds \in Int /\ Funds >= 0
    BY DEF WalletInv, FInv, TypeOK, Solvent, Funds
  <1>2. Funds' \in Nat /\ Funds' >= Funds
    BY <1>1
  <1>. QED
    BY <1>2 DEF AccountMoves, Account!Next, Account!Deposit, Funds, Withdrawn

\* The commit of a request finds what its check found, under its lock.
LEMMA CommitWithdraws ==
    ASSUME WalletInv, stalls = 0, NEW h \in Handlers, ReqCommit(h)
    PROVE  AccountMoves
  <1>. DEFINE k == seen[h].key
  <1>1. k \in Keys /\ Debit(k) \in Nat /\ ledgerSum \in Int /\ disputed \in Nat
        /\ seen[h] \in Seen /\ payout \in [Keys -> PayoutStatuses \cup {"NONE"}]
    BY BlankType DEF WalletInv, KInv, TypeOK, Seen
  <1>2. payout[k] = "NONE" /\ Debit(k) <= Funds
    BY DEF WalletInv, KInv, KeyInv, TxSteps, FInv, FundsInv, CheckedSteps, ReqCommit, Funds
  <1>3. payout' = [payout EXCEPT ![k] = seen[h].to] /\ seen[h].to # "NONE"
    BY <1>1 DEF ReqCommit, Seen, PayoutStatuses
  <1>4. k \notin Withdrawn /\ Withdrawn' = Withdrawn \cup {k}
    BY <1>1, <1>2, <1>3 DEF Withdrawn, KeyTaken
  <1>5. ledgerSum' = ledgerSum - Debit(k) /\ disputed' = disputed
    BY DEF ReqCommit
  <1>6. Funds' = Funds - Debit(k)
    <2>. HIDE DEF k
    <2>. QED
      BY <1>1, <1>5 DEF Funds
  <1>7. Account!Withdraw(k)
    <2>. HIDE DEF k
    <2>. QED
      BY <1>1, <1>2, <1>4, <1>6 DEF Account!Withdraw, Funds, Withdrawn
  <1>. QED
    BY <1>1, <1>7 DEF AccountMoves, Account!Next

LEMMA AccountStep ==
    ASSUME WalletInv, stalls = 0, [Next]_vars
    PROVE  AccountMoves
  <1>. USE DEF rows, money, Withdrawn, KeyTaken, Funds
  <1>1. ledgerSum \in Int /\ disputed \in Nat /\ payout \in [Keys -> PayoutStatuses \cup {"NONE"}]
    BY DEF WalletInv, KInv, TypeOK
  <1>2. CASE UNCHANGED <<payout, ledgerSum, disputed>>
    BY <1>1, <1>2, Deposits
  <1>3. CASE \E h \in Handlers : ReqCommit(h)
    BY <1>3, CommitWithdraws
  \* An update has a payout to update, and writes a status.
  <1>4. ASSUME NEW h \in Handlers, pc[h] \in Updating, NEW to \in PayoutStatuses,
               payout' = [payout EXCEPT ![seen[h].key] = to]
        PROVE  Withdrawn' = Withdrawn
    <2>1. seen[h].key \in Keys /\ payout[seen[h].key] # "NONE" /\ to # "NONE"
      BY <1>4 DEF WalletInv, KInv, KeyInv, TypeOK, Seen, PayoutStatuses, Updating
    <2>2. \A k \in Keys : payout'[k] = "NONE" <=> payout[k] = "NONE"
      BY <1>1, <1>4, <2>1
    <2>. QED
      BY <2>2
  <1>5. CASE \E h \in Handlers : JobWrite(h)
    <2>1. PICK h \in Handlers : JobWrite(h)
      BY <1>5
    <2>2. Withdrawn' = Withdrawn
      BY <1>4, <2>1 DEF JobWrite, Updating, PayoutStatuses
    <2>. QED
      BY <1>1, <2>1, <2>2, Deposits DEF JobWrite
  <1>6. CASE \E h \in Handlers : Apply(h)
    <2>1. PICK h \in Handlers : Apply(h)
      BY <1>6
    <2>2. seen[h].key \in Keys /\ seen[h].to \in PayoutStatuses /\ Amount[seen[h].key] \in Nat
      BY AmountsAssumption DEF WalletInv, KInv, TypeOK, Seen
    <2>3. Withdrawn' = Withdrawn
      BY <1>4, <2>1, <2>2 DEF Apply, Updating
    <2>4. PICK given \in Nat : disputed' = disputed /\ ledgerSum' = ledgerSum + given
      <3>1. ledgerSum' \in {ledgerSum + 0, ledgerSum + Amount[seen[h].key]}
        BY <1>1, <2>1 DEF Apply
      <3>. QED
        BY <2>1, <2>2, <3>1 DEF Apply
    <2>5. Funds' \in Int /\ Funds <= Funds'
      BY <1>1, <2>4
    <2>. QED
      BY <2>3, <2>5, Deposits
  <1>7. CASE PaymentHeld \/ EarningWritten \/ EarningSettles \/ DisputeHold
    <2>1. Funds' \in Int /\ Funds <= Funds' /\ payout' = payout
      BY <1>1, <1>7, AmountsAssumption
        DEF PaymentHeld, EarningWritten, EarningSettles, DisputeHold
    <2>. QED
      BY <2>1, Deposits
  <1>8. CASE LockExpires \/ LockExpiresOnHolder \/ PspReports(TRUE) \/ PspReports(FALSE)
    BY <1>2, <1>8 DEF LockExpires, LockExpiresOnHolder, PspReports
  <1>9. ASSUME NEW h \in Handlers,
               \/ Begin(h) \/ Fail(h) \/ WebhookRecord(h) \/ WebhookRead(h)
               \/ ReqRead(h) \/ ReqInsert(h) \/ PspAccepts(h) \/ EnqueueJob(h) \/ Unlock(h)
        PROVE  UNCHANGED <<payout, ledgerSum, disputed>>
    BY <1>9 DEF Begin, LockTake, AdminDecides, WebhookStart, JobStart, Fail, PspFails, ReqAbort,
                Crash, WebhookRecord, WebhookRead, ReqRead, ReqInsert, PspAccepts, EnqueueJob, Unlock
  <1>10. CASE UNCHANGED vars
    BY <1>2, <1>10 DEF vars
  <1>. QED
    BY <1>2, <1>3, <1>5, <1>6, <1>7, <1>8, <1>9, <1>10
       DEF Next, Environment, RequestStep, UpdateStep

\* The statements of requestWithdrawal, spread over its lock, its checks, its insert and
\* its commit, are together one withdrawal from an account without overdraft until a
\* request outlives its lock, for any keys, amounts and faults.
THEOREM WithdrawalsAtomic == Spec => ImplementsWallet
  <1>1. Init => Account!Init
    BY DEF Init, Account!Init, Funds, Withdrawn, KeyTaken
  <1>2. WalletInv /\ [Next]_vars => [stalls' = 0 => Account!Next]_<<Funds, Withdrawn>>
    <2>. SUFFICES ASSUME WalletInv, [Next]_vars, stalls' = 0
                  PROVE  [Account!Next]_<<Funds, Withdrawn>>
      OBVIOUS
    <2>1. stalls = 0
      BY StallsGrow DEF WalletInv, KInv, TypeOK
    <2>. QED
      BY <2>1, AccountStep DEF AccountMoves
  <1>3. Init => WalletInv
    BY KeyInit, FundsInit DEF WalletInv
  <1>4. WalletInv /\ [Next]_vars => WalletInv'
    BY KeyStep, FundsStep DEF WalletInv
  <1>. QED
    BY <1>1, <1>2, <1>3, <1>4, PTL DEF Spec, ImplementsWallet

\* In a behaviour in which none does, that is the whole account.
COROLLARY WalletWhileLocked == Spec /\ [](stalls = 0) => Account!Spec
  <1>1. Spec => ImplementsWallet
    BY WithdrawalsAtomic
  <1>2. (stalls = 0)' /\ [stalls' = 0 => Account!Next]_<<Funds, Withdrawn>>
        => [Account!Next]_<<Funds, Withdrawn>>
    OBVIOUS
  <1>. QED
    BY <1>1, <1>2, PTL DEF ImplementsWallet, Account!Spec
=============================================================================
