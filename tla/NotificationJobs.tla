---------------------------- MODULE NotificationJobs ----------------------------
(***************************************************************************)
(* The jobs of the queue "notifications": QueuesService puts them in,      *)
(* NotificationWorker takes them out, Bull tries each of them again after  *)
(* an error and after a worker that died.  All jobs here carry one         *)
(* idempotencyKey, as the publisher of one event does when it is retried.  *)
(***************************************************************************)
EXTENDS Integers, FiniteSets

CONSTANTS
    Jobs,           \* bound: jobs of the event
    Attempts,       \* attempts of addNotificationJob
    MaxRetries,     \* bound: retries by an administrator
    MaxLapses       \* bound: times the push lock's 24 hours run out

ASSUME JobsAssumption ==
    /\ Attempts \in Nat \ {0} /\ MaxRetries \in Nat /\ MaxLapses \in Nat
    /\ IsFiniteSet(Jobs)

VARIABLES
    job,            \* state of each job in Bull, "none" before addJob
    step,           \* what the worker that holds the job does next
    failures,       \* attemptsMade of each job
    stalled,        \* jobs whose worker has died once
    pushLock,       \* push:idem:<key> in Redis
    inbox,          \* Notification rows made for the event
    echoes,         \* pushes sent by createNotification itself
    alerts,         \* pushes sent by the worker
    dropped,        \* a worker died between taking the lock and its push
    retries, lapses

queue   == <<job, step, failures, stalled>>
effects == <<inbox, echoes, alerts>>
jobVars == <<job, step, failures, stalled, pushLock, inbox, echoes, alerts, dropped, retries, lapses>>

Ended == {"completed", "failed"}

NotificationJobsInit ==
    /\ job = [j \in Jobs |-> "none"] /\ step = [j \in Jobs |-> "idle"]
    /\ failures = [j \in Jobs |-> 0] /\ stalled = {}
    /\ pushLock = FALSE /\ inbox = 0 /\ echoes = 0 /\ alerts = 0
    /\ dropped = FALSE /\ retries = 0 /\ lapses = 0
-----------------------------------------------------------------------------
AddJob(j) ==
    /\ job[j] = "none"
    /\ job' = [job EXCEPT ![j] = "waiting"]
    /\ UNCHANGED <<step, failures, stalled, pushLock, effects, dropped, retries, lapses>>

\* The worker takes a job: send-notification begins with the in-app notification,
\* send-push-notification with the lock.
TakeJob(j) ==
    /\ job[j] = "waiting"
    /\ job' = [job EXCEPT ![j] = "active"]
    /\ \E first \in {"create", "lock"} : step' = [step EXCEPT ![j] = first]
    /\ UNCHANGED <<failures, stalled, pushLock, effects, dropped, retries, lapses>>

\* No key is passed on, so every attempt makes a row, and pushes it.
CreateInApp(j) ==
    /\ step[j] = "create"
    /\ step' = [step EXCEPT ![j] = "lock"]
    /\ inbox' = inbox + 1 /\ echoes' = echoes + 1
    /\ UNCHANGED <<job, failures, stalled, pushLock, alerts, dropped, retries, lapses>>

KeepsActive(j) == step' = [step EXCEPT ![j] = "idle"] /\ UNCHANGED job
Complete(j) == job' = [job EXCEPT ![j] = "completed"] /\ step' = [step EXCEPT ![j] = "idle"]

AlwaysPush == TRUE
MayPush    == ~pushLock

\* shouldSendPush; a push another attempt has the lock for is not sent again.
LockPush(j) ==
    /\ step[j] = "lock"
    /\ pushLock' = TRUE
    /\ IF MayPush
         THEN step' = [step EXCEPT ![j] = "send"] /\ UNCHANGED job
         ELSE Complete(j)
    /\ UNCHANGED <<failures, stalled, effects, dropped, retries, lapses>>

\* sendPushNotification: it answers FALSE, after the WhatsApp fallback, but never throws.
SendPush(j) ==
    /\ step[j] = "send"
    /\ alerts' = alerts + 1
    /\ Complete(j)
    /\ UNCHANGED <<failures, stalled, pushLock, inbox, echoes, dropped, retries, lapses>>

MoreAttempts(j) == failures[j] + 1 < Attempts

\* The database or Redis refuses.
AttemptFails(j) ==
    /\ step[j] \in {"create", "lock"}
    /\ failures' = [failures EXCEPT ![j] = IF MoreAttempts(j) THEN @ + 1 ELSE Attempts]
    /\ job' = [job EXCEPT ![j] = IF MoreAttempts(j) THEN "waiting" ELSE "failed"]
    /\ step' = [step EXCEPT ![j] = "idle"]
    /\ UNCHANGED <<stalled, pushLock, effects, dropped, retries, lapses>>

\* The worker dies: Bull finds the job stalled and gives it away once more.
WorkerDies(j) ==
    /\ job[j] = "active"
    /\ dropped' = (dropped \/ step[j] = "send")
    /\ step' = [step EXCEPT ![j] = "idle"]
    /\ stalled' = stalled \cup {j}
    /\ job' = [job EXCEPT ![j] = IF j \in stalled THEN "failed" ELSE "waiting"]
    /\ UNCHANGED <<failures, pushLock, effects, retries, lapses>>

\* retryJobById.
RetryJob(j) ==
    /\ job[j] = "failed"
    /\ retries < MaxRetries /\ retries' = retries + 1
    /\ job' = [job EXCEPT ![j] = "waiting"]
    /\ UNCHANGED <<step, failures, stalled, pushLock, effects, dropped, lapses>>

LockLapses ==
    /\ pushLock /\ lapses < MaxLapses
    /\ pushLock' = FALSE /\ lapses' = lapses + 1
    /\ UNCHANGED <<queue, effects, dropped, retries>>
-----------------------------------------------------------------------------
Work(j) == TakeJob(j) \/ CreateInApp(j) \/ LockPush(j) \/ SendPush(j)

NotificationJobsNext ==
    \/ \E j \in Jobs : AddJob(j) \/ Work(j) \/ AttemptFails(j) \/ WorkerDies(j) \/ RetryJob(j)
    \/ LockLapses

NotificationJobsSpec == NotificationJobsInit /\ [][NotificationJobsNext]_jobVars
-----------------------------------------------------------------------------
\* Every variable keeps its domain.
NotificationJobsTypeOK ==
    /\ job \in [Jobs -> {"none", "waiting", "active"} \cup Ended]
    /\ step \in [Jobs -> {"idle", "create", "lock", "send"}]
    /\ failures \in [Jobs -> 0 .. Attempts] /\ stalled \subseteq Jobs
    /\ pushLock \in BOOLEAN /\ dropped \in BOOLEAN
    /\ inbox \in Nat /\ echoes \in Nat /\ alerts \in Nat
    /\ retries \in 0 .. MaxRetries /\ lapses \in 0 .. MaxLapses

\* However often the jobs of an event are tried, the worker pushes it once for
\* each life of its lock; and a job ends as completed only if the push has been sent or
\* another attempt is about to send it, unless a worker died with the lock taken.
AlertedOnce ==
    /\ alerts <= 1 + lapses
    /\ (\E j \in Jobs : job[j] = "completed") =>
           alerts > 0 \/ dropped \/ (\E j \in Jobs : step[j] = "send")

\* A job does not wait or run for ever.
JobsEnd == \A j \in Jobs : job[j] = "waiting" ~> job[j] \in Ended
=============================================================================
