-------------------------------- MODULE Payouts --------------------------------
(***************************************************************************)
(* The withdrawals of one provider (PayoutsService): the ledger the        *)
(* balance is summed from, the payout rows, the Redis lock that serialises *)
(* requests, the transfer at the PSP made inside the database transaction, *)
(* the PSP's webhooks, the administrator's decisions and, when no PSP is   *)
(* configured, the process-payout job that simulates one.                  *)
(*                                                                         *)
(* Every statement a handler awaits is an action; what it has read is kept *)
(* in seen[h].  A transaction's writes appear when it commits; the unique  *)
(* idempotency key makes a second insert of the same key wait for the      *)
(* first.  An idempotency key names a request and the payout it creates.   *)
(* The circuit breaker of the gateway is one of the reasons PspFails.      *)
(***************************************************************************)
EXTENDS Integers, FiniteSets

CONSTANTS
    Handlers,       \* executions of handlers that may be in flight together
    NoHandler,      \* "nobody holds the Redis lock"
    Keys,           \* idempotency keys, one per withdrawal the provider wants
    Amount,         \* Amount[k]: what is asked for
    Fee,            \* the withdrawal fee
    Credit,         \* net amount a paid booking adds to the ledger
    DailyCountMax,  \* withdrawals allowed per day
    PspConfigured,  \* is there a PSP token, or is the PSP simulated?
    MaxCredits,     \* bound: bookings paid
    MaxDisputes,    \* bound: disputes that put money on hold
    MaxReleases,    \* bound: rollbacks of one payout an administrator asks for
    MaxFaults,      \* bound: crashes, aborted transactions, PSP errors
    MaxStalls       \* bound: requests that outlive the TTL of their lock

ASSUME HandlersAssumption == NoHandler \notin Handlers
ASSUME AmountsAssumption ==
    /\ Keys # {} /\ Amount \in [Keys -> Nat] /\ Fee \in Nat /\ Credit \in Nat
    /\ PspConfigured \in BOOLEAN
ASSUME BoundsAssumption ==
    /\ DailyCountMax \in Nat /\ MaxCredits \in Nat /\ MaxDisputes \in Nat
    /\ MaxReleases \in Nat /\ MaxFaults \in Nat /\ MaxStalls \in Nat

VARIABLES
    payout,         \* Payout.status per key, "NONE" when there is no row
    gateway,        \* where Payout.gatewayTxnId comes from
    debits,         \* WITHDRAWAL entries (each with its FEE) written per key
    released,       \* RELEASE entries written per key
    ledgerSum,      \* sum of all the provider's ledger entries
    fresh,          \* sum of the EARNING entries inside the settlement window
    disputed,       \* sum of the (negative) HOLD entries of disputes
    lock,           \* holder of payout:lock:user
    jobs,           \* the process-payout job of each key
    transferred,    \* transfers the PSP has executed (external)
    events,         \* webhooks the PSP has sent, each with its own eventId (external)
    replayed,       \* events recorded in webhookReplay
    pc, seen,       \* what each handler does next and what it has read
    credits, disputes, faults, stalls

vars == <<payout, gateway, debits, released, ledgerSum, fresh, disputed, lock,
          jobs, transferred, events, replayed, pc, seen, credits, disputes, faults, stalls>>

rows   == <<payout, gateway, debits, released>>
money  == <<ledgerSum, fresh, disputed, credits, disputes>>
psp    == <<transferred, events>>
budget == <<faults, stalls>>

PayoutStatuses == {"PENDING", "PROCESSING", "PAID", "FAILED", "CANCELED"}
RolledBack     == {"FAILED", "CANCELED"}
Reported       == {"PROCESSING", "COMPLETED", "ERROR"}     \* the PSP's words
Final          == {"COMPLETED", "ERROR"}
Event          == [key : Keys, status : Reported]

ReqSteps == {"req.read", "req.insert", "req.send", "req.commit", "req.unlock"}
TxSteps  == {"req.send", "req.commit"}      \* the payout row is inserted, not committed
Steps    == ReqSteps \cup {"idle", "wh.record", "wh.read", "job.write", "apply"}

Seen == [key : Keys, to : PayoutStatuses, by : {"psp", "manual", "job"}]

Blank == [key |-> CHOOSE k \in Keys : TRUE, to |-> "PENDING", by |-> "psp"]

Goto(h, step) == pc' = [pc EXCEPT ![h] = step]
Return(h)     == Goto(h, "idle") /\ seen' = [seen EXCEPT ![h] = Blank]
Fault         == faults < MaxFaults /\ faults' = faults + 1
Debit(k)      == Amount[k] + Fee

Init ==
    /\ payout = [k \in Keys |-> "NONE"] /\ gateway = [k \in Keys |-> "none"]
    /\ debits = [k \in Keys |-> 0] /\ released = [k \in Keys |-> 0]
    /\ ledgerSum = 0 /\ fresh = 0 /\ disputed = 0
    /\ lock = NoHandler
    /\ jobs = [k \in Keys |-> "none"]
    /\ transferred = {} /\ events = {} /\ replayed = {}
    /\ pc = [h \in Handlers |-> "idle"]
    /\ seen = [h \in Handlers |-> Blank]
    /\ credits = 0 /\ disputes = 0 /\ faults = 0 /\ stalls = 0

-----------------------------------------------------------------------------
(***************************************************************************)
(* requestWithdrawal.                                                      *)
(***************************************************************************)

NobodyChecks == TRUE
LockIsFree   == lock = NoHandler        \* SET NX; the caller gives up after 5 attempts

LockTake(h) ==
    /\ pc[h] = "idle"
    /\ LockIsFree
    /\ lock' = h
    /\ \E k \in Keys : seen' = [seen EXCEPT ![h].key = k]
    /\ Goto(h, "req.read")
    /\ UNCHANGED <<rows, money, jobs, psp, replayed, budget>>

AlwaysNew(k) == FALSE
KeyTaken(k)  == payout[k] # "NONE"

\* computeBalance: everything on the ledger but the earnings still withheld.
Balance == ledgerSum - fresh

\* The daily count is over all the payouts: a run lasts less than a day.
WithinLimits(k) ==
    /\ Cardinality({j \in Keys : KeyTaken(j)}) < DailyCountMax
    /\ Debit(k) <= Balance

ReqRead(h) ==
    /\ pc[h] = "req.read"
    /\ Goto(h, IF ~KeyTaken(seen[h].key) /\ WithinLimits(seen[h].key)
                 THEN "req.insert" ELSE "req.unlock")
    /\ UNCHANGED <<rows, money, lock, jobs, psp, replayed, seen, budget>>

\* The INSERT waits for an open transaction with the same unique key.
ReqInsert(h) ==
    /\ pc[h] = "req.insert"
    /\ \A g \in Handlers : pc[g] \in TxSteps => seen[g].key # seen[h].key
    /\ Goto(h, IF KeyTaken(seen[h].key) THEN "req.unlock" ELSE "req.send")
    /\ UNCHANGED <<rows, money, lock, jobs, psp, replayed, seen, budget>>

\* initiateGatewayTransfer, inside the transaction.
PspAccepts(h) ==
    /\ pc[h] = "req.send" /\ PspConfigured
    /\ transferred' = transferred \cup {seen[h].key}
    /\ seen' = [seen EXCEPT ![h].to = "PROCESSING"]
    /\ Goto(h, "req.commit")
    /\ UNCHANGED <<rows, money, lock, jobs, events, replayed, budget>>

\* The PSP refuses, is paused by the circuit breaker, or its answer is lost:
\* the error is swallowed and the payout stays PENDING.
PspFails(h) ==
    /\ pc[h] = "req.send" /\ PspConfigured
    /\ Fault
    /\ \/ UNCHANGED transferred
       \/ transferred' = transferred \cup {seen[h].key}
    /\ Goto(h, "req.commit")
    /\ UNCHANGED <<rows, money, lock, jobs, events, replayed, seen, stalls>>

\* Without a PSP the job is added to the queue before the commit.
EnqueueJob(h) ==
    /\ pc[h] = "req.send" /\ ~PspConfigured
    /\ jobs' = [jobs EXCEPT ![seen[h].key] = "queued"]
    /\ Goto(h, "req.commit")
    /\ UNCHANGED <<rows, money, lock, psp, replayed, seen, budget>>

ReqCommit(h) ==
    LET k == seen[h].key IN
    /\ pc[h] = "req.commit"
    /\ payout' = [payout EXCEPT ![k] = seen[h].to]
    /\ gateway' = [gateway EXCEPT ![k] = IF seen[h].to = "PROCESSING" THEN "psp" ELSE @]
    /\ debits' = [debits EXCEPT ![k] = @ + 1]
    /\ ledgerSum' = ledgerSum - Debit(k)
    /\ Goto(h, "req.unlock")
    /\ UNCHANGED <<released, fresh, disputed, credits, disputes, lock, jobs, psp,
                   replayed, seen, budget>>

\* The transaction outlives its time limit, or the database refuses it.
ReqAbort(h) ==
    /\ pc[h] = "req.commit"
    /\ Fault
    /\ Goto(h, "req.unlock")
    /\ UNCHANGED <<rows, money, lock, jobs, psp, replayed, seen, stalls>>

\* finally: the lock is deleted only if it still holds this request's uuid.
Unlock(h) ==
    /\ pc[h] = "req.unlock"
    /\ lock' = IF lock = h THEN NoHandler ELSE lock
    /\ Return(h)
    /\ UNCHANGED <<rows, money, jobs, psp, replayed, budget>>

\* The TTL of the lock: 15 s, longer than a request unless its process stalls.
NoTtl       == FALSE
ShortTtl    == lock \in Handlers
HolderGone  == lock \in Handlers /\ pc[lock] \notin ReqSteps

LockExpires ==
    /\ HolderGone
    /\ lock' = NoHandler
    /\ UNCHANGED <<rows, money, jobs, psp, replayed, pc, seen, budget>>

LockExpiresOnHolder ==
    /\ lock # NoHandler
    /\ stalls < MaxStalls /\ stalls' = stalls + 1
    /\ lock' = NoHandler
    /\ UNCHANGED <<rows, money, jobs, psp, replayed, pc, seen, faults>>

-----------------------------------------------------------------------------
(***************************************************************************)
(* applyGatewayUpdate, in one transaction, whatever the payout's status    *)
(* has become since it was read.  FAILED and CANCELED give the amount (not *)
(* the fee) back.                                                          *)
(***************************************************************************)

Apply(h) ==
    LET k == seen[h].key IN
    /\ pc[h] = "apply"
    /\ payout' = [payout EXCEPT ![k] = seen[h].to]
    /\ gateway' = [gateway EXCEPT ![k] = IF @ = "none" THEN seen[h].by ELSE @]
    /\ IF seen[h].to \in RolledBack
         THEN /\ released' = [released EXCEPT ![k] = @ + 1]
              /\ ledgerSum' = ledgerSum + Amount[k]
         ELSE UNCHANGED <<released, ledgerSum>>
    /\ jobs' = [jobs EXCEPT ![k] = IF seen[h].by = "job" THEN "done" ELSE @]
    /\ Return(h)
    /\ UNCHANGED <<debits, fresh, disputed, credits, disputes, lock, psp, replayed,
                   budget>>

StartApply(h, k, to, by) ==
    /\ seen' = [seen EXCEPT ![h] = [key |-> k, to |-> to, by |-> by]]
    /\ Goto(h, "apply")

(* adminConfirmWithdrawal, adminFailWithdrawal, adminCancelWithdrawal. *)
AnyStatus(k) == TRUE
NotPaid(k)   == payout[k] # "PAID"

AdminDecides(h) ==
    /\ pc[h] = "idle"
    /\ \E k \in Keys, to \in {"PAID", "FAILED", "CANCELED"} :
          /\ KeyTaken(k) /\ NotPaid(k)
          /\ to \in RolledBack => released[k] < MaxReleases       \* bound
          /\ StartApply(h, k, to, "manual")
    /\ UNCHANGED <<rows, money, lock, jobs, psp, replayed, budget>>
-----------------------------------------------------------------------------
(***************************************************************************)
(* handleGatewayWebhook: look the eventId up, record it, read the payout,  *)
(* apply.  A recorded event is answered with 200 and nothing else.         *)
(***************************************************************************)

Verbatim(s)        == s
NormalizeStatus(s) == CASE s = "COMPLETED" -> "PAID" [] s = "ERROR" -> "FAILED" [] OTHER -> s

WebhookStart(h) ==
    /\ pc[h] = "idle"
    /\ \E e \in events \ replayed :
          seen' = [seen EXCEPT ![h] =
                     [key |-> e.key, to |-> NormalizeStatus(e.status), by |-> "psp"]]
    /\ Goto(h, "wh.record")
    /\ UNCHANGED <<rows, money, lock, jobs, psp, replayed, budget>>

WebhookRecord(h) ==
    /\ pc[h] = "wh.record"
    /\ replayed' = replayed \cup
         {e \in events : e.key = seen[h].key /\ NormalizeStatus(e.status) = seen[h].to}
    /\ Goto(h, "wh.read")
    /\ UNCHANGED <<rows, money, lock, jobs, psp, seen, budget>>

\* No such payout (404), a PAID payout that would change, or another gatewayTxnId.
Refused(k, to) ==
    \/ ~KeyTaken(k)
    \/ ~NotPaid(k) /\ to # "PAID"
    \/ gateway[k] = "manual"

WebhookRead(h) ==
    /\ pc[h] = "wh.read"
    /\ IF Refused(seen[h].key, seen[h].to)
         THEN Return(h)
         ELSE Goto(h, "apply") /\ UNCHANGED seen
    /\ UNCHANGED <<rows, money, lock, jobs, psp, replayed, budget>>
-----------------------------------------------------------------------------
(***************************************************************************)
(* processPayout, run by PayoutWorker when no PSP is configured: a job     *)
(* whose payout is not PENDING, or not committed yet, ends at once.        *)
(***************************************************************************)

JobStart(h) ==
    /\ pc[h] = "idle"
    /\ \E k \in Keys :
          /\ jobs[k] = "queued"
          /\ IF payout[k] = "PENDING"
               THEN /\ seen' = [seen EXCEPT ![h] = [key |-> k, to |-> "PAID", by |-> "job"]]
                    /\ Goto(h, "job.write")
                    /\ jobs' = [jobs EXCEPT ![k] = "active"]
               ELSE /\ jobs' = [jobs EXCEPT ![k] = "done"]
                    /\ UNCHANGED <<pc, seen>>
    /\ UNCHANGED <<rows, money, lock, psp, replayed, budget>>

JobWrite(h) ==
    LET k == seen[h].key IN
    /\ pc[h] = "job.write"
    /\ payout' = [payout EXCEPT ![k] = "PROCESSING"]
    /\ gateway' = [gateway EXCEPT ![k] = IF @ = "none" THEN "job" ELSE @]
    /\ Goto(h, "apply")
    /\ UNCHANGED <<debits, released, money, lock, jobs, psp, replayed, seen, budget>>
-----------------------------------------------------------------------------
(***************************************************************************)
(* The other writers of the ledger: a paid booking (HOLD and FEE), the     *)
(* EARNING of a resolved booking and the end of its settlement window, a   *)
(* dispute's negative HOLD.                                                *)
(***************************************************************************)

PaymentHeld ==
    /\ credits < MaxCredits /\ credits' = credits + 1
    /\ ledgerSum' = ledgerSum + Credit
    /\ UNCHANGED <<rows, fresh, disputed, disputes, lock, jobs, psp, replayed, pc, seen, budget>>

EarningWritten ==
    /\ credits < MaxCredits /\ credits' = credits + 1
    /\ ledgerSum' = ledgerSum + Credit
    /\ fresh' = fresh + Credit
    /\ UNCHANGED <<rows, disputed, disputes, lock, jobs, psp, replayed, pc, seen, budget>>

EarningSettles ==
    /\ fresh > 0 /\ fresh >= Credit
    /\ fresh' = fresh - Credit
    /\ UNCHANGED <<rows, ledgerSum, disputed, credits, disputes, lock, jobs, psp,
                   replayed, pc, seen, budget>>

DisputeHold ==
    /\ credits > 0
    /\ disputes < MaxDisputes /\ disputes' = disputes + 1
    /\ ledgerSum' = ledgerSum - Credit
    /\ disputed' = disputed + Credit
    /\ UNCHANGED <<rows, fresh, credits, lock, jobs, psp, replayed, pc, seen, budget>>

(***************************************************************************)
(* The PSP reports on a transfer it has executed: progress, and one final  *)
(* result.  A process may die in the middle of a handler: an open          *)
(* transaction is rolled back, the lock stays until its TTL, an active job *)
(* goes back to the queue.                                                 *)
(***************************************************************************)

PspReports(final) ==
    /\ \E k \in transferred, s \in IF final THEN Final ELSE Reported \ Final :
          /\ \A e \in events : e.key = k => e.status \notin Final
          /\ events' = events \cup {[key |-> k, status |-> s]}
    /\ UNCHANGED <<rows, money, lock, jobs, transferred, replayed, pc, seen, budget>>

Crash(h) ==
    /\ pc[h] # "idle"
    /\ Fault
    /\ Return(h)
    /\ jobs' = [jobs EXCEPT ![seen[h].key] = IF seen[h].by = "job" THEN "queued" ELSE @]
    /\ UNCHANGED <<rows, money, lock, psp, replayed, stalls>>
-----------------------------------------------------------------------------

RequestStep(h) ==
    \/ ReqRead(h) \/ ReqInsert(h) \/ PspAccepts(h) \/ EnqueueJob(h)
    \/ ReqCommit(h) \/ Unlock(h)

UpdateStep(h) == WebhookRecord(h) \/ WebhookRead(h) \/ JobWrite(h) \/ Apply(h)

Begin(h) == LockTake(h) \/ AdminDecides(h) \/ WebhookStart(h) \/ JobStart(h)

Fail(h) == PspFails(h) \/ ReqAbort(h) \/ Crash(h)

Environment ==
    \/ LockExpires \/ LockExpiresOnHolder
    \/ PaymentHeld \/ EarningWritten \/ EarningSettles \/ DisputeHold
    \/ PspReports(TRUE) \/ PspReports(FALSE)

Next == (\E h \in Handlers : Begin(h) \/ RequestStep(h) \/ UpdateStep(h) \/ Fail(h))
        \/ Environment

Spec == Init /\ [][Next]_vars

(***************************************************************************)
(* Fairness.  A started handler keeps running until a crash takes it; the  *)
(* TTL of the lock runs out; the PSP settles a transfer and delivers its   *)
(* webhooks until they are answered; the queue runs its jobs.  Requests    *)
(* and administrators come when they like.                                 *)
(***************************************************************************)
Fairness ==
    /\ \A h \in Handlers : WF_vars(RequestStep(h)) /\ WF_vars(UpdateStep(h))
    /\ WF_vars(LockExpires)
    /\ WF_vars(PspReports(TRUE))
    /\ SF_vars(\E h \in Handlers : WebhookStart(h))
    /\ SF_vars(\E h \in Handlers : JobStart(h))

FairSpec == Spec /\ Fairness
-----------------------------------------------------------------------------
(***************************************************************************)
(* Properties.                                                             *)
(***************************************************************************)

\* Every variable keeps its domain.
TypeOK ==
    /\ payout \in [Keys -> PayoutStatuses \cup {"NONE"}]
    /\ gateway \in [Keys -> {"none", "psp", "manual", "job"}]
    /\ debits \in [Keys -> Nat] /\ released \in [Keys -> Nat]
    /\ ledgerSum \in Int /\ fresh \in Nat /\ disputed \in Nat
    /\ lock \in Handlers \cup {NoHandler}
    /\ jobs \in [Keys -> {"none", "queued", "active", "done"}]
    /\ transferred \subseteq Keys /\ events \subseteq Event /\ replayed \subseteq Event
    /\ pc \in [Handlers -> Steps]
    /\ seen \in [Handlers -> Seen]
    /\ credits \in Nat /\ disputes \in Nat /\ faults \in Nat /\ stalls \in Nat

\* As long as no request outlives its lock, withdrawals never take more than the
\* ledger had: but for what disputes put on hold afterwards, the ledger's sum is
\* not negative.  The check of the balance and the debit are separate statements
\* of a READ COMMITTED transaction, so this rests on the Redis lock.
NoOverdraft == stalls = 0 => ledgerSum + disputed >= 0

\* An idempotency key is debited once if its payout exists and never otherwise,
\* whatever requests repeat it, abort, crash or outlive their lock.
KeyDebitedOnce == \A k \in Keys : debits[k] = IF payout[k] = "NONE" THEN 0 ELSE 1

\* A PAID payout stays PAID.
PaidIsFinal ==
    [][\A k \in Keys : payout[k] = "PAID" => payout'[k] = "PAID"]_payout

\* A lock left behind by a dead request does not block withdrawals for ever.
LockFreed == (lock # NoHandler) ~> (lock = NoHandler)

\* Every transfer the PSP has executed has its payout, once its request is over.
TransferRecorded ==
    \A k \in transferred :
        KeyTaken(k) \/ \E h \in Handlers : pc[h] = "req.commit" /\ seen[h].key = k

\* The steps of requestWithdrawal, from the look at the balance to the commit of the
\* debit, are one withdrawal from an account without overdraft, as long as no request
\* outlives its lock.  A dispute's HOLD is no withdrawal: it counts as still there.
Funds     == ledgerSum + disputed
Withdrawn == {k \in Keys : KeyTaken(k)}
Account   == INSTANCE Wallet
                WITH funds <- Funds, taken <- Withdrawn, Price <- [k \in Keys |-> Debit(k)]

ImplementsWallet == Account!Init /\ [][stalls' = 0 => Account!Next]_<<Funds, Withdrawn>>
=============================================================================
