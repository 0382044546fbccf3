------------------------- MODULE BookingPaymentProofs -------------------------
(***************************************************************************)
(* Proofs about BookingPayment for any number of concurrent handlers, any  *)
(* number of PIX orders and any number of faults.                          *)
(*                                                                         *)
(* The invariants about money are not inductive as they stand: that only   *)
(* one HOLD is written needs to know that the transaction that found none  *)
(* still holds the row lock (RowLockInv), and that a HOLD has a reason     *)
(* needs to know why each finalization was started (FinalizeBackedInv).    *)
(***************************************************************************)
EXTENDS BookingPayment, TLAPS

FinSteps == {"fin.booking", "fin.expire", "fin.tx", "fin.commit",
             "fin.sysread", "fin.syswrite"}

\* The holder of the row lock is the one open transaction, and what it read
\* about the HOLD entry is still true.
RowLockInv ==
    /\ \A h \in Handlers :
         pc[h] = "fin.commit" => rowLock = h /\ (seen[h].hold <=> ledger.hold > 0)
    /\ rowLock \in Handlers => pc[rowLock] = "fin.commit"

\* A finalization in progress was started by a paid order or an administrator.
FinalizeBackedInv ==
    \A h \in Handlers : pc[h] \in FinSteps => seen[h].order \in paid \/ forced

MoneyInv == LedgerOnce /\ PaidIsHeld /\ HoldIsBacked

IInv == TypeOK /\ RowLockInv /\ FinalizeBackedInv /\ MoneyInv
-----------------------------------------------------------------------------
(***************************************************************************)
(* Type correctness.                                                       *)
(***************************************************************************)

\* A status a user may ask for is a status of the schema.
LEMMA OfferedStatuses ==
    \A s \in Statuses :
        ClientTransitions[s] \cup ProviderTransitions[s] \subseteq Statuses
  BY DEF ClientTransitions, ProviderTransitions, Statuses

LEMMA BlankType ==
    /\ Blank \in [order : Nat, intent : IntentStatuses, hold : BOOLEAN, to : Statuses]
    /\ "NONE" \in IntentStatuses /\ "PENDING" \in IntentStatuses
    /\ "PAID" \in IntentStatuses /\ "EXPIRED" \in IntentStatuses
    /\ "EXPIRED" \in Statuses /\ "CONFIRMED" \in Statuses
    /\ "PENDING_PAYMENT" \in Statuses
  BY DEF Blank, IntentStatuses, Statuses

\* The shapes in which a step of a handler changes pc, seen and faults.
LEMMA HandlerTypes ==
    ASSUME TypeOK, NEW h \in Handlers
    PROVE  /\ \A s \in Steps : Goto(h, s) => pc' \in [Handlers -> Steps]
           /\ Return(h) => /\ pc' \in [Handlers -> Steps]
                           /\ seen' \in [Handlers -> [order : Nat, intent : IntentStatuses,
                                                      hold : BOOLEAN, to : Statuses]]
           /\ Fault => faults' \in Nat
           /\ Answer200(h) => acked' \subseteq Nat
  <1>1. "idle" \in Steps
    BY DEF Steps
  <1>2. \A s \in Steps : Goto(h, s) => pc' \in [Handlers -> Steps]
    BY DEF Goto, TypeOK
  <1>3. Return(h) => /\ pc' \in [Handlers -> Steps]
                     /\ seen' \in [Handlers -> [order : Nat, intent : IntentStatuses,
                                                hold : BOOLEAN, to : Statuses]]
    BY <1>1, BlankType DEF Return, TypeOK
  <1>4. Fault => faults' \in Nat
    BY DEF Fault, TypeOK
  <1>5. Answer200(h) => acked' \subseteq Nat
    BY DEF Answer200, TypeOK
  <1>. QED
    BY <1>2, <1>3, <1>4, <1>5

LEMMA TypeInit == Init => TypeOK
  <1>. SUFFICES ASSUME Init PROVE TypeOK
    OBVIOUS
  <1>1. pc \in [Handlers -> Steps]
    BY DEF Init, Steps
  <1>2. seen \in [Handlers -> [order : Nat, intent : IntentStatuses,
                              hold : BOOLEAN, to : Statuses]]
    BY BlankType DEF Init
  <1>. QED
    BY <1>1, <1>2, BlankType DEF Init, TypeOK

LEMMA TypeStep == TypeOK /\ [Next]_vars => TypeOK'
  <1>. SUFFICES ASSUME TypeOK, [Next]_vars
                PROVE  TypeOK'
    OBVIOUS
  <1>0. CASE UNCHANGED vars
    BY <1>0 DEF TypeOK, vars
  <1>1. ASSUME NEW h \in Handlers, NEW o \in Nat, FinalizeReadIntent(h, o),
               forced' \in BOOLEAN
        PROVE  TypeOK'
    <2>1. [Blank EXCEPT !.order = o]
            \in [order : Nat, intent : IntentStatuses, hold : BOOLEAN, to : Statuses]
      BY BlankType DEF Blank
    <2>. QED
      BY <1>1, <2>1 DEF FinalizeReadIntent, Goto, TypeOK, Steps, booking, psp
  <1>2. ASSUME NEW h \in Handlers, Begin(h)
        PROVE  TypeOK'
    <2>1. CASE Webhook(h)
      <3>1. PICK o \in shown : FinalizeReadIntent(h, o) /\ UNCHANGED forced
        BY <2>1 DEF Webhook
      <3>. QED
        BY <1>1, <3>1 DEF TypeOK
    <2>2. CASE ForceConfirm(h)
      BY <1>1, <2>2 DEF ForceConfirm
    <2>3. CASE ChargeReadBooking(h)
      BY <2>3, HandlerTypes DEF ChargeReadBooking, TypeOK, Steps, booking, psp
    <2>4. CASE UpdateStatusRead(h)
      <3>1. PICK to \in Statuses : seen' = [seen EXCEPT ![h].to = to]
        BY <2>4, OfferedStatuses DEF UpdateStatusRead, TypeOK
      <3>2. seen' \in [Handlers -> [order : Nat, intent : IntentStatuses,
                                    hold : BOOLEAN, to : Statuses]]
        BY <3>1 DEF TypeOK
      <3>. QED
        BY <2>4, <3>2, HandlerTypes DEF UpdateStatusRead, TypeOK, Steps, booking, psp
    <2>5. CASE ExpireScan(h)
      BY <2>5, HandlerTypes DEF ExpireScan, TypeOK, Steps, booking, psp
    <2>. QED
      BY <1>2, <2>1, <2>2, <2>3, <2>4, <2>5 DEF Begin
  <1>3. ASSUME NEW h \in Handlers, FinalizeStep(h)
        PROVE  TypeOK'
    <2>1. CASE FinalizeReadBooking(h)
      BY <2>1, HandlerTypes DEF FinalizeReadBooking, TypeOK, Steps, booking, psp
    <2>2. CASE FinalizeExpire(h)
      BY <2>2, HandlerTypes, BlankType DEF FinalizeExpire, TypeOK, booking, psp
    <2>3. CASE FinalizeBegin(h)
      <3>1. seen' \in [Handlers -> [order : Nat, intent : IntentStatuses,
                                    hold : BOOLEAN, to : Statuses]]
        <4>. DEFINE found == ledger.hold > 0
        <4>1. found \in BOOLEAN
          OBVIOUS
        <4>2. seen' = [seen EXCEPT ![h].hold = found]
          BY <2>3 DEF FinalizeBegin
        <4>. HIDE DEF found
        <4>. QED
          BY <4>1, <4>2 DEF TypeOK
      <3>. QED
        BY <2>3, <3>1, HandlerTypes DEF FinalizeBegin, TypeOK, Steps, booking, psp
    <2>4. CASE FinalizeCommit(h)
      <3>1. ledger' \in [hold : Nat, fee : Nat]
        BY <2>4 DEF FinalizeCommit, LedgerAfterCommit, BothEntries, TypeOK
      <3>. QED
        BY <2>4, <3>1, HandlerTypes, BlankType
          DEF FinalizeCommit, IntentStatusOnCommit, TypeOK, Steps, psp
    <2>5. CASE SystemRead(h)
      BY <2>5, HandlerTypes DEF SystemRead, TypeOK, Steps, booking, psp
    <2>6. CASE SystemWrite(h)
      BY <2>6, HandlerTypes, BlankType DEF SystemWrite, TypeOK, psp
    <2>. QED
      BY <1>3, <2>1, <2>2, <2>3, <2>4, <2>5, <2>6 DEF FinalizeStep
  <1>4. ASSUME NEW h \in Handlers, ChargeStep(h)
        PROVE  TypeOK'
    <2>1. CASE ChargeReadIntent(h)
      BY <2>1, HandlerTypes DEF ChargeReadIntent, TypeOK, Steps, booking, psp
    <2>2. CASE ClaimRead(h)
      <3>1. CASE intent = "PENDING"
        BY <2>2, <3>1, HandlerTypes DEF ClaimRead, TypeOK, booking, psp
      <3>2. CASE intent # "PENDING"
        <4>1. seen' \in [Handlers -> [order : Nat, intent : IntentStatuses,
                                      hold : BOOLEAN, to : Statuses]]
          BY <2>2, <3>2 DEF ClaimRead, TypeOK
        <4>. QED
          BY <2>2, <3>2, <4>1, HandlerTypes DEF ClaimRead, TypeOK, Steps, booking, psp
      <3>. QED
        BY <3>1, <3>2
    <2>3. CASE ClaimWrite(h)
      BY <2>3, HandlerTypes, BlankType DEF ClaimWrite, TypeOK, Steps, booking, psp
    <2>4. CASE PostOrder(h)
      <3>1. orders' \in Nat
        BY <2>4 DEF PostOrder, TypeOK
      <3>2. seen' \in [Handlers -> [order : Nat, intent : IntentStatuses,
                                    hold : BOOLEAN, to : Statuses]]
        BY <2>4, <3>1 DEF PostOrder, TypeOK
      <3>. QED
        BY <2>4, <3>1, <3>2, HandlerTypes DEF PostOrder, TypeOK, Steps, booking
    <2>5. CASE SaveOrder(h)
      BY <2>5, HandlerTypes, BlankType DEF SaveOrder, TypeOK, booking
    <2>. QED
      BY <1>4, <2>1, <2>2, <2>3, <2>4, <2>5 DEF ChargeStep
  <1>5. ASSUME NEW h \in Handlers, UpdateStatusWrite(h) \/ ExpireWrite(h)
        PROVE  TypeOK'
    <2>1. CASE UpdateStatusWrite(h)
      <3>1. status' \in Statuses
        BY <2>1 DEF UpdateStatusWrite, TypeOK
      <3>. QED
        BY <2>1, <3>1, HandlerTypes DEF UpdateStatusWrite, TypeOK, psp
    <2>2. CASE ExpireWrite(h)
      BY <2>2, HandlerTypes, BlankType DEF ExpireWrite, TypeOK, psp
    <2>. QED
      BY <1>5, <2>1, <2>2
  <1>6. ASSUME NEW h \in Handlers, Fail(h)
        PROVE  TypeOK'
    <2>1. CASE FinalizeRollback(h)
      BY <2>1, HandlerTypes DEF FinalizeRollback, TypeOK, booking, psp
    <2>2. CASE PostOrderFails(h)
      BY <2>2, HandlerTypes DEF PostOrderFails, TypeOK, booking, psp
    <2>3. CASE SaveOrderFails(h)
      BY <2>3, HandlerTypes, BlankType DEF SaveOrderFails, TypeOK, booking, psp
    <2>4. CASE Crash(h)
      BY <2>4, HandlerTypes DEF Crash, TypeOK, booking, psp
    <2>. QED
      BY <1>6, <2>1, <2>2, <2>3, <2>4 DEF Fail
  <1>7. CASE Pay
    BY <1>7 DEF Pay, TypeOK, booking
  <1>8. CASE DeadlinePasses
    BY <1>8 DEF DeadlinePasses, TypeOK, psp
  <1>. QED
    BY <1>0, <1>2, <1>3, <1>4, <1>5, <1>6, <1>7, <1>8 DEF Next

\* Every reachable state is well typed, whatever the number of handlers.
THEOREM TypeCorrect == Spec => []TypeOK
  BY TypeInit, TypeStep, PTL DEF Spec
-----------------------------------------------------------------------------
(***************************************************************************)
(* The money invariants.  Most steps leave the ledger, the intent and the  *)
(* row lock alone and move one handler; the lemmas below say what that     *)
(* preserves, so that each action's case only shows the shape of its step. *)
(***************************************************************************)

\* A step of handler h that neither ends nor begins its transaction.
Quiet(h) ==
    /\ UNCHANGED <<ledger, rowLock>>
    /\ \A g \in Handlers \ {h} : pc'[g] = pc[g] /\ seen'[g] = seen[g]
    /\ pc[h] # "fin.commit" /\ pc'[h] # "fin.commit"

\* The reasons for a HOLD only accumulate.
Backed == paid \subseteq paid' /\ (forced => forced')

LEMMA QuietLock ==
    ASSUME TypeOK, RowLockInv, NEW h \in Handlers, Quiet(h)
    PROVE  RowLockInv'
  BY DEF RowLockInv, Quiet, TypeOK

\* What a finalization was started for is still there unless it is new.
LEMMA BackedKept ==
    ASSUME FinalizeBackedInv, NEW h \in Handlers, Backed,
           \A g \in Handlers \ {h} : pc'[g] = pc[g] /\ seen'[g] = seen[g],
           pc'[h] \in FinSteps => seen'[h].order \in paid' \/ forced'
    PROVE  FinalizeBackedInv'
  BY DEF FinalizeBackedInv, Backed

\* With the ledger unchanged only a newly written PAID could lack its HOLD.
LEMMA MoneyKept ==
    ASSUME MoneyInv, Backed, ledger' = ledger, intent' = intent \/ intent' # "PAID"
    PROVE  MoneyInv'
  BY DEF MoneyInv, LedgerOnce, PaidIsHeld, HoldIsBacked, Backed

LEMMA InvInit == Init => IInv
  BY TypeInit, HandlersAssumption
    DEF Init, IInv, RowLockInv, FinalizeBackedInv, MoneyInv, LedgerOnce, PaidIsHeld,
        HoldIsBacked, FinSteps

\* What the handlers other than h see of a step of h.
LEMMA OthersKept ==
    ASSUME TypeOK, NEW h \in Handlers
    PROVE  /\ \A s \in Steps : Goto(h, s) =>
                 pc'[h] = s /\ \A g \in Handlers \ {h} : pc'[g] = pc[g]
           /\ Return(h) =>
                 pc'[h] = "idle" /\ \A g \in Handlers \ {h} :
                                       pc'[g] = pc[g] /\ seen'[g] = seen[g]
  BY DEF Goto, Return, TypeOK, Steps

\* A quiet step keeps the invariant, if a finalization it starts or continues
\* has its reason and it does not write PAID.
LEMMA QuietStep ==
    ASSUME TypeOK, RowLockInv, FinalizeBackedInv, MoneyInv, NEW h \in Handlers,
           Quiet(h), Backed, intent' = intent \/ intent' # "PAID",
           pc'[h] \in FinSteps => seen'[h].order \in paid' \/ forced'
    PROVE  RowLockInv' /\ FinalizeBackedInv' /\ MoneyInv'
  BY QuietLock, BackedKept, MoneyKept DEF Quiet

LEMMA BeginStep ==
    ASSUME IInv, NEW h \in Handlers, Begin(h)
    PROVE  RowLockInv' /\ FinalizeBackedInv' /\ MoneyInv'
  <1>. USE DEF IInv
  <1>1. ASSUME NEW o, FinalizeReadIntent(h, o), o \in paid' \/ forced', Backed
        PROVE  RowLockInv' /\ FinalizeBackedInv' /\ MoneyInv'
    <2>1. Quiet(h)
      BY <1>1 DEF FinalizeReadIntent, Quiet, Goto, TypeOK, Steps
    <2>2. pc'[h] \in FinSteps => seen'[h].order \in paid' \/ forced'
      BY <1>1 DEF FinalizeReadIntent, Goto, TypeOK, Blank, FinSteps
    <2>. QED
      BY <1>1, <2>1, <2>2, QuietStep DEF FinalizeReadIntent
  <1>2. CASE Webhook(h)
    BY <1>1, <1>2 DEF Webhook, ChargeStatusIsFinal, FinalizeReadIntent, psp, Backed
  <1>3. CASE ForceConfirm(h)
    BY <1>1, <1>3 DEF ForceConfirm, FinalizeReadIntent, psp, Backed
  <1>4. CASE ChargeReadBooking(h)
    BY <1>4, QuietStep, OthersKept
      DEF ChargeReadBooking, Quiet, Backed, FinSteps, Steps, psp
  <1>5. CASE UpdateStatusRead(h)
    <2>1. \A g \in Handlers \ {h} : seen'[g] = seen[g]
      BY <1>5 DEF UpdateStatusRead, TypeOK
    <2>. QED
      BY <1>5, <2>1, QuietStep, OthersKept
        DEF UpdateStatusRead, Quiet, Backed, FinSteps, Steps, psp
  <1>6. CASE ExpireScan(h)
    BY <1>6, QuietStep, OthersKept
      DEF ExpireScan, Quiet, Backed, FinSteps, Steps, psp
  <1>. QED
    BY <1>2, <1>3, <1>4, <1>5, <1>6 DEF Begin

LEMMA FinalizeStepInv ==
    ASSUME IInv, NEW h \in Handlers, FinalizeStep(h)
    PROVE  RowLockInv' /\ FinalizeBackedInv' /\ MoneyInv'
  <1>. USE DEF IInv
  <1>1. CASE FinalizeReadBooking(h)
    BY <1>1, QuietStep, OthersKept
      DEF FinalizeReadBooking, Quiet, Backed, FinalizeBackedInv, FinSteps, Steps, psp
  <1>2. CASE FinalizeExpire(h)
    BY <1>2, QuietStep, OthersKept DEF FinalizeExpire, Quiet, Backed, FinSteps, psp
  <1>3. CASE FinalizeBegin(h)
    <2>1. \A g \in Handlers \ {h} : pc'[g] = pc[g] /\ seen'[g] = seen[g]
      BY <1>3 DEF FinalizeBegin, Goto, TypeOK
    <2>2. /\ pc'[h] = "fin.commit" /\ rowLock' = h /\ ledger' = ledger
          /\ seen'[h].order = seen[h].order
          /\ seen'[h].hold <=> ledger.hold > 0
      BY <1>3 DEF FinalizeBegin, Goto, TypeOK
    <2>3. \A g \in Handlers : pc[g] # "fin.commit"
      BY <1>3, HandlersAssumption DEF FinalizeBegin, RowsFree, RowLockInv
    <2>4. RowLockInv'
      BY <2>1, <2>2, <2>3 DEF RowLockInv
    <2>5. FinalizeBackedInv'
      BY <1>3, <2>1, <2>2, BackedKept
        DEF FinalizeBegin, Backed, FinalizeBackedInv, FinSteps, psp
    <2>. QED
      BY <1>3, <2>4, <2>5, MoneyKept DEF FinalizeBegin, Backed, psp
  <1>4. CASE FinalizeCommit(h)
    <2>1. \A g \in Handlers \ {h} : pc'[g] = pc[g] /\ pc[g] # "fin.commit"
      BY <1>4 DEF FinalizeCommit, Goto, TypeOK, RowLockInv
    <2>2. pc'[h] = "fin.sysread" /\ pc[h] = "fin.commit" /\ seen' = seen
      BY <1>4 DEF FinalizeCommit, Goto, TypeOK
    <2>3. RowLockInv'
      BY <1>4, <2>1, <2>2, HandlersAssumption DEF FinalizeCommit, RowLockInv
    <2>4. FinalizeBackedInv'
      BY <1>4, <2>1, <2>2 DEF FinalizeCommit, FinalizeBackedInv, FinSteps, psp
    <2>5. seen[h].hold <=> ledger.hold > 0
      BY <2>2 DEF RowLockInv
    <2>6. ledger'.hold = 1 /\ ledger'.fee = 1
      <3>1. ledger \in [hold : Nat, fee : Nat] /\ ledger.hold <= 1
            /\ ledger.fee = ledger.hold
        BY DEF TypeOK, MoneyInv, LedgerOnce
      <3>2. CASE ledger.hold > 0
        BY <1>4, <2>5, <3>1, <3>2 DEF FinalizeCommit, LedgerAfterCommit
      <3>3. CASE ~(ledger.hold > 0)
        BY <1>4, <2>5, <3>1, <3>3 DEF FinalizeCommit, LedgerAfterCommit, BothEntries
      <3>. QED
        BY <3>2, <3>3
    <2>7. paid' # {} \/ forced'
      BY <1>4, <2>2 DEF FinalizeCommit, FinalizeBackedInv, FinSteps, psp
    <2>. QED
      BY <2>3, <2>4, <2>6, <2>7 DEF MoneyInv, LedgerOnce, PaidIsHeld, HoldIsBacked
  <1>5. CASE SystemRead(h)
    BY <1>5, QuietStep, OthersKept
      DEF SystemRead, Quiet, Backed, FinalizeBackedInv, FinSteps, Steps, psp
  <1>6. CASE SystemWrite(h)
    BY <1>6, QuietStep, OthersKept DEF SystemWrite, Quiet, Backed, FinSteps, psp
  <1>. QED
    BY <1>1, <1>2, <1>3, <1>4, <1>5, <1>6 DEF FinalizeStep

LEMMA ChargeStepInv ==
    ASSUME IInv, NEW h \in Handlers, ChargeStep(h)
    PROVE  RowLockInv' /\ FinalizeBackedInv' /\ MoneyInv'
  <1>. USE DEF IInv
  <1>1. CASE ChargeReadIntent(h)
    BY <1>1, QuietStep, OthersKept
      DEF ChargeReadIntent, Quiet, Backed, FinSteps, Steps, psp
  <1>2. CASE ClaimRead(h)
    <2>1. \A g \in Handlers \ {h} : seen'[g] = seen[g]
      BY <1>2 DEF ClaimRead, Return, TypeOK
    <2>. QED
      BY <1>2, <2>1, QuietStep, OthersKept
        DEF ClaimRead, Quiet, Backed, FinSteps, Steps, psp
  <1>3. CASE ClaimWrite(h)
    BY <1>3, QuietStep, OthersKept
      DEF ClaimWrite, Quiet, Backed, FinSteps, Steps, psp
  <1>4. CASE PostOrder(h)
    <2>1. \A g \in Handlers \ {h} : seen'[g] = seen[g]
      BY <1>4 DEF PostOrder, TypeOK
    <2>. QED
      BY <1>4, <2>1, QuietStep, OthersKept
        DEF PostOrder, Quiet, Backed, FinSteps, Steps
  <1>5. CASE SaveOrder(h)
    BY <1>5, QuietStep, OthersKept DEF SaveOrder, Quiet, Backed, FinSteps
  <1>. QED
    BY <1>1, <1>2, <1>3, <1>4, <1>5 DEF ChargeStep

\* An open transaction that fails or dies gives the row lock back and leaves
\* no trace; every other failure is a quiet step.
LEMMA FailStep ==
    ASSUME IInv, NEW h \in Handlers, Fail(h)
    PROVE  RowLockInv' /\ FinalizeBackedInv' /\ MoneyInv'
  <1>. USE DEF IInv
  <1>1. ASSUME pc[h] = "fin.commit", rowLock' = NoHandler, Return(h),
               UNCHANGED <<booking, intent, ledger, psp, acked, forced>>
        PROVE  RowLockInv' /\ FinalizeBackedInv' /\ MoneyInv'
    <2>1. \A g \in Handlers \ {h} : pc[g] # "fin.commit"
      BY <1>1 DEF RowLockInv
    <2>2. RowLockInv'
      BY <1>1, <2>1, OthersKept, HandlersAssumption DEF RowLockInv
    <2>3. Backed
      BY <1>1 DEF Backed, psp
    <2>. QED
      BY <1>1, <2>2, <2>3, OthersKept, BackedKept, MoneyKept DEF FinSteps
  <1>2. CASE FinalizeRollback(h)
    BY <1>1, <1>2 DEF FinalizeRollback
  <1>3. CASE PostOrderFails(h)
    BY <1>3, QuietStep, OthersKept DEF PostOrderFails, Quiet, Backed, FinSteps, psp
  <1>4. CASE SaveOrderFails(h)
    BY <1>4, QuietStep, OthersKept DEF SaveOrderFails, Quiet, Backed, FinSteps, psp
  <1>5. CASE Crash(h)
    <2>1. CASE pc[h] = "fin.commit"
      <3>1. rowLock' = NoHandler
        BY <1>5, <2>1 DEF Crash, RowLockInv
      <3>. QED
        BY <1>1, <1>5, <2>1, <3>1 DEF Crash
    <2>2. CASE pc[h] # "fin.commit"
      <3>1. rowLock' = rowLock
        BY <1>5, <2>2 DEF Crash, RowLockInv
      <3>. QED
        BY <1>5, <2>2, <3>1, QuietStep, OthersKept
          DEF Crash, Quiet, Backed, FinSteps, psp
    <2>. QED
      BY <2>1, <2>2
  <1>. QED
    BY <1>2, <1>3, <1>4, <1>5 DEF Fail

LEMMA InvStep == IInv /\ [Next]_vars => IInv'
  <1>. SUFFICES ASSUME IInv, [Next]_vars
                PROVE  RowLockInv' /\ FinalizeBackedInv' /\ MoneyInv'
    BY TypeStep DEF IInv
  <1>1. CASE UNCHANGED vars
    BY <1>1 DEF IInv, RowLockInv, FinalizeBackedInv, MoneyInv, LedgerOnce, PaidIsHeld,
                HoldIsBacked, vars
  <1>2. ASSUME NEW h \in Handlers, UpdateStatusWrite(h) \/ ExpireWrite(h)
        PROVE  RowLockInv' /\ FinalizeBackedInv' /\ MoneyInv'
    BY <1>2, QuietStep, OthersKept
      DEF IInv, UpdateStatusWrite, ExpireWrite, Quiet, Backed, FinSteps, psp
  <1>3. CASE Pay
    BY <1>3 DEF Pay, IInv, RowLockInv, FinalizeBackedInv, MoneyInv, LedgerOnce,
                PaidIsHeld, HoldIsBacked
  <1>4. CASE DeadlinePasses
    BY <1>4 DEF DeadlinePasses, IInv, RowLockInv, FinalizeBackedInv, MoneyInv,
                LedgerOnce, PaidIsHeld, HoldIsBacked, psp
  <1>. QED
    BY <1>1, <1>2, <1>3, <1>4, BeginStep, FinalizeStepInv, ChargeStepInv, FailStep
      DEF Next

\* The invariant is inductive.
THEOREM Invariance == Spec => []IInv
  BY InvInit, InvStep, PTL DEF Spec

\* One HOLD and one FEE per booking, however many finalizations of however many
\* PIX orders race (LedgerOnce: finalizePixPayment's existingHold check is made
\* under the row lock its own UPDATE has taken).
THEOREM CreditedOnce == Spec => []LedgerOnce
  <1>1. IInv => LedgerOnce
    BY DEF IInv, MoneyInv
  <1>. QED
    BY <1>1, Invariance, PTL

\* A payment intent that says PAID has its HOLD on the ledger.
THEOREM PaidHasHold == Spec => []PaidIsHeld
  <1>1. IInv => PaidIsHeld
    BY DEF IInv, MoneyInv
  <1>. QED
    BY <1>1, Invariance, PTL

\* No provider is credited unless the client paid an order of the booking or an
\* administrator forced the confirmation.
THEOREM NoUnbackedHold == Spec => []HoldIsBacked
  <1>1. IInv => HoldIsBacked
    BY DEF IInv, MoneyInv
  <1>. QED
    BY <1>1, Invariance, PTL
-----------------------------------------------------------------------------
(***************************************************************************)
(* The abstract escrow.                                                    *)
(***************************************************************************)

Answered    == paid # {} \/ forced
Recorded    == intent = "PAID"
EscrowMoves == [Hold!Next]_<<Answered, ledger, Recorded>>

\* Steps that enter nothing: the money may come in, the record may be reopened.
LEMMA NothingEntered ==
    ASSUME ledger' = ledger, Answered => Answered', Recorded' => Recorded,
           Answered' = Answered \/ Recorded' = Recorded
    PROVE  EscrowMoves
  BY DEF EscrowMoves, Hold!Next, Hold!ComesIn, Hold!Reopen, Answered, Recorded

\* A commit finds what its transaction has looked up, and money to answer for it.
LEMMA CommitEnters ==
    ASSUME IInv, NEW h \in Handlers, FinalizeCommit(h)
    PROVE  EscrowMoves
  <1>1. /\ seen[h].hold <=> ledger.hold > 0
        /\ ledger \in [hold : Nat, fee : Nat] /\ ledger.hold <= 1 /\ ledger.fee = ledger.hold
    BY DEF IInv, RowLockInv, MoneyInv, LedgerOnce, TypeOK, FinalizeCommit
  <1>2. seen[h].order \in paid \/ forced
    BY DEF IInv, FinalizeBackedInv, FinSteps, FinalizeCommit
  <1>3. ledger \in {Hold!Nothing, Hold!InHold}
    BY <1>1 DEF Hold!Nothing, Hold!InHold
  <1>4. ledger' = Hold!InHold
    BY <1>1, <1>3 DEF FinalizeCommit, LedgerAfterCommit, BothEntries, Hold!Nothing, Hold!InHold
  <1>5. Answered /\ Answered' = Answered /\ Recorded'
    BY <1>2 DEF FinalizeCommit, IntentStatusOnCommit, Answered, Recorded, psp
  <1>. QED
    BY <1>3, <1>4, <1>5 DEF EscrowMoves, Hold!Next, Hold!PutInHold, Answered, Recorded

LEMMA EscrowStep == IInv /\ [Next]_vars => EscrowMoves
  <1>. SUFFICES ASSUME IInv, [Next]_vars
                PROVE  EscrowMoves
    OBVIOUS
  <1>. USE DEF psp, Answered, Recorded
  <1>1. CASE \E h \in Handlers : FinalizeCommit(h)
    BY <1>1, CommitEnters
  <1>2. CASE UNCHANGED <<ledger, intent, paid, forced>>
    BY <1>2, NothingEntered
  <1>3. CASE \E h \in Handlers : ForceConfirm(h)
    BY <1>3, NothingEntered DEF ForceConfirm, FinalizeReadIntent
  <1>4. CASE \E h \in Handlers : ClaimWrite(h) \/ SaveOrder(h) \/ SaveOrderFails(h)
    BY <1>4, NothingEntered DEF ClaimWrite, SaveOrder, SaveOrderFails
  <1>5. CASE Pay
    BY <1>5, NothingEntered DEF Pay
  <1>6. ASSUME NEW h \in Handlers,
               \/ Webhook(h) \/ ChargeReadBooking(h) \/ UpdateStatusRead(h) \/ ExpireScan(h)
               \/ FinalizeReadBooking(h) \/ FinalizeExpire(h) \/ FinalizeBegin(h)
               \/ SystemRead(h) \/ SystemWrite(h)
               \/ ChargeReadIntent(h) \/ ClaimRead(h) \/ PostOrder(h)
               \/ UpdateStatusWrite(h) \/ ExpireWrite(h)
               \/ FinalizeRollback(h) \/ PostOrderFails(h) \/ Crash(h)
        PROVE  UNCHANGED <<ledger, intent, paid, forced>>
    BY <1>6 DEF Webhook, FinalizeReadIntent, ChargeReadBooking, UpdateStatusRead, ExpireScan,
                FinalizeReadBooking, FinalizeExpire, FinalizeBegin, SystemRead, SystemWrite,
                ChargeReadIntent, ClaimRead, PostOrder, UpdateStatusWrite, ExpireWrite,
                FinalizeRollback, PostOrderFails, Crash
  <1>7. CASE DeadlinePasses \/ UNCHANGED vars
    BY <1>2, <1>7 DEF DeadlinePasses, vars
  <1>. QED
    BY <1>1, <1>2, <1>3, <1>4, <1>5, <1>6, <1>7
       DEF Next, Begin, FinalizeStep, ChargeStep, Fail

\* The payment of a booking implements the escrow for any number of handlers, orders and
\* faults: HOLD, FEE and the record of the payment appear in one step, for money that has
\* come in or that an administrator answers for, and the entries are never taken back.
THEOREM PaymentIsEscrow == Spec => ImplementsEscrow
  <1>1. Init => Hold!Init
    BY DEF Init, Hold!Init, Hold!Nothing
  <1>2. IInv /\ [Next]_vars
        => [Hold!Next]_<<paid # {} \/ forced, ledger, intent = "PAID">>
    BY EscrowStep DEF EscrowMoves, Answered, Recorded
  <1>. QED
    BY <1>1, <1>2, Invariance, PTL DEF Spec, ImplementsEscrow, Hold!Spec
=============================================================================
