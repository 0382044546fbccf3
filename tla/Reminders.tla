------------------------------- MODULE Reminders -------------------------------
(***************************************************************************)
(* The reminders of one booking: SchedulerService.  A reminder is a row    *)
(* NotificationSchedule and, in the process that made it, a timer kept in  *)
(* memory.  A process that starts arms a timer for every PENDING row.  A   *)
(* timer that fires reads its row again and delivers it; several processes *)
(* may do so for one row, and several rows may be of one reminder.         *)
(***************************************************************************)
EXTENDS Integers

CONSTANTS
    Processes,      \* processes of the backend
    Starters,       \* bound: the processes that are asked to start the job
    LastReminder,   \* reminders 1, 2, ... in the order they fall due; 0 is JOB_STARTED
    ScheduleRows,   \* bound: rows of NotificationSchedule
    MaxMishaps      \* bound: crashes and failed statements

ASSUME RemindersAssumption ==
    LastReminder \in Nat /\ MaxMishaps \in Nat /\ Starters \subseteq Processes

Reminders  == 0 .. LastReminder
AfterAll   == LastReminder + 1
JobStarted == 0

VARIABLES
    row,            \* status of each row, "NONE" where there is none
    reminder,       \* dedupeKey of each row
    clock,          \* the last reminder whose runAt has come
    up,             \* processes that run
    stage,          \* stage[p][r]: what process p does with row r
    cancelling,     \* the cancellation each process is in
    told,           \* reminders with a Notification (idempotencyKey)
    pushes,         \* pushes sent for each reminder
    stranded,       \* rows left PENDING by a statement that failed
    mishaps

schedule == <<row, reminder>>
reminderVars == <<row, reminder, clock, up, stage, cancelling, told, pushes, stranded, mishaps>>

Stages == {"none", "created", "armed", "notify", "insert", "push", "sent", "failed"}
NotCancelling == [step |-> "none", rows |-> {}, after |-> 0]
Cancellations == [step : {"none", "find", "update", "announce"}, rows : SUBSET ScheduleRows,
                  after : Reminders]

Due(r)   == reminder[r] <= clock
Mishap   == mishaps < MaxMishaps /\ mishaps' = mishaps + 1
Move(p, r, s) == stage' = [stage EXCEPT ![p][r] = s]

RemindersInit ==
    /\ row = [r \in ScheduleRows |-> "NONE"] /\ reminder = [r \in ScheduleRows |-> 0]
    /\ clock = 0 /\ up = Processes
    /\ stage = [p \in Processes |-> [r \in ScheduleRows |-> "none"]]
    /\ cancelling = [p \in Processes |-> NotCancelling]
    /\ told = {} /\ pushes = [k \in Reminders |-> 0]
    /\ stranded = {} /\ mishaps = 0
-----------------------------------------------------------------------------
\* scheduleBookingReminders, one reminder of its Promise.all: every write of
\* CONFIRMED asks for the reminders that are still to come.
ScheduleReminder(p, r, k) ==
    /\ p \in up /\ row[r] = "NONE" /\ k > clock
    /\ row' = [row EXCEPT ![r] = "PENDING"] /\ reminder' = [reminder EXCEPT ![r] = k]
    /\ Move(p, r, "created")
    /\ UNCHANGED <<clock, up, cancelling, told, pushes, stranded, mishaps>>

Arm(p, r) ==
    /\ stage[p][r] = "created"
    /\ Move(p, r, "armed")
    /\ UNCHANGED <<schedule, clock, up, cancelling, told, pushes, stranded, mishaps>>

FallsDue ==
    /\ clock < LastReminder /\ clock' = clock + 1
    /\ UNCHANGED <<schedule, up, stage, cancelling, told, pushes, stranded, mishaps>>
-----------------------------------------------------------------------------
(***************************************************************************)
(* processSchedule and deliver, createNotification inside.                 *)
(***************************************************************************)

\* A timer fires and the row is read: only a PENDING one is delivered.
Process(p, r) ==
    /\ stage[p][r] = "armed" /\ Due(r)
    /\ Move(p, r, IF row[r] = "PENDING" THEN "notify" ELSE "none")
    /\ UNCHANGED <<schedule, clock, up, cancelling, told, pushes, stranded, mishaps>>

LookUpNotification(p, r) ==
    /\ stage[p][r] = "notify"
    /\ Move(p, r, IF reminder[r] \in told THEN "sent" ELSE "insert")
    /\ UNCHANGED <<schedule, clock, up, cancelling, told, pushes, stranded, mishaps>>

NeverTaken(k) == FALSE
KeyTaken(k)   == k \in told

\* Notification.idempotencyKey is unique: the second insert throws.
InsertNotification(p, r) ==
    /\ stage[p][r] = "insert"
    /\ IF KeyTaken(reminder[r])
         THEN Move(p, r, "failed") /\ UNCHANGED told
         ELSE Move(p, r, "push") /\ told' = told \cup {reminder[r]}
    /\ UNCHANGED <<schedule, clock, up, cancelling, pushes, stranded, mishaps>>

Push(p, r) ==
    /\ stage[p][r] = "push"
    /\ pushes' = [pushes EXCEPT ![reminder[r]] = @ + 1]
    /\ Move(p, r, "sent")
    /\ UNCHANGED <<schedule, clock, up, cancelling, told, stranded, mishaps>>

\* The row is written by id, whatever its status has become; after an error
\* of createNotification, or of the write of SENT, as CANCELLED.
MarkRow(p, r) ==
    /\ stage[p][r] \in {"sent", "failed"}
    /\ row' = [row EXCEPT ![r] = IF stage[p][r] = "sent" THEN "SENT" ELSE "CANCELLED"]
    /\ Move(p, r, "none")
    /\ UNCHANGED <<reminder, clock, up, cancelling, told, pushes, stranded, mishaps>>

StatementFails(p, r) ==
    /\ stage[p][r] \in {"notify", "insert", "sent"}
    /\ Mishap
    /\ Move(p, r, "failed")
    /\ UNCHANGED <<schedule, clock, up, cancelling, told, pushes, stranded>>

\* Outside the try, or in its catch: the promise is rejected and nobody waits for it.
Rejected(p, r) ==
    /\ (stage[p][r] = "failed" \/ (stage[p][r] = "armed" /\ Due(r)))
    /\ Mishap
    /\ Move(p, r, "none") /\ stranded' = stranded \cup {r}
    /\ UNCHANGED <<schedule, clock, up, cancelling, told, pushes>>
-----------------------------------------------------------------------------
(***************************************************************************)
(* notifyJobStarted: cancelPendingSchedules for what is still to come, then *)
(* a row of its own that is delivered at once.                             *)
(***************************************************************************)

StartJob(p) ==
    /\ p \in up \cap Starters /\ cancelling[p].step = "none"
    /\ cancelling' = [cancelling EXCEPT ![p] = [step |-> "find", rows |-> {}, after |-> clock]]
    /\ UNCHANGED <<schedule, clock, up, stage, told, pushes, stranded, mishaps>>

ToCancel(p) == {r \in ScheduleRows : row[r] = "PENDING" /\ reminder[r] > cancelling[p].after}

\* The timers of this process go before the rows are written.
FindToCancel(p) ==
    /\ cancelling[p].step = "find"
    /\ cancelling' = [cancelling EXCEPT
                        ![p].step = IF ToCancel(p) = {} THEN "announce" ELSE "update",
                        ![p].rows = ToCancel(p)]
    /\ stage' = [stage EXCEPT ![p] = [r \in ScheduleRows |->
                    IF r \in ToCancel(p) /\ @[r] = "armed" THEN "none" ELSE @[r]]]
    /\ UNCHANGED <<schedule, clock, up, told, pushes, stranded, mishaps>>

\* updateMany asks its condition again.
UpdateCancelled(p) ==
    /\ cancelling[p].step = "update"
    /\ row' = [r \in ScheduleRows |-> IF r \in ToCancel(p) THEN "CANCELLED" ELSE row[r]]
    /\ cancelling' = [cancelling EXCEPT ![p].step = "announce", ![p].rows = {}]
    /\ UNCHANGED <<reminder, clock, up, stage, told, pushes, stranded, mishaps>>

CancelFails(p) ==
    /\ cancelling[p].step # "none"
    /\ Mishap
    /\ stranded' = stranded \cup cancelling[p].rows
    /\ cancelling' = [cancelling EXCEPT ![p] = NotCancelling]
    /\ UNCHANGED <<schedule, clock, up, stage, told, pushes>>

Announce(p, r) ==
    /\ cancelling[p].step = "announce" /\ row[r] = "NONE"
    /\ row' = [row EXCEPT ![r] = "PENDING"] /\ reminder' = [reminder EXCEPT ![r] = JobStarted]
    /\ Move(p, r, "armed")
    /\ cancelling' = [cancelling EXCEPT ![p] = NotCancelling]
    /\ UNCHANGED <<clock, up, told, pushes, stranded, mishaps>>
-----------------------------------------------------------------------------
(***************************************************************************)
(* A process dies with its timers; onModuleInit of the next one arms them. *)
(***************************************************************************)

ProcessDies(p) ==
    /\ p \in up /\ up' = up \ {p}
    /\ Mishap
    /\ stage' = [stage EXCEPT ![p] = [r \in ScheduleRows |-> "none"]]
    /\ cancelling' = [cancelling EXCEPT ![p] = NotCancelling]
    /\ UNCHANGED <<schedule, clock, told, pushes, stranded>>

StillToCome   == {r \in ScheduleRows : row[r] = "PENDING" /\ ~Due(r)}
Rehydrated    == {r \in ScheduleRows : row[r] = "PENDING"}

Restart(p) ==
    /\ p \notin up /\ up' = up \cup {p}
    /\ stage' = [stage EXCEPT ![p] = [r \in ScheduleRows |->
                    IF r \in Rehydrated THEN "armed" ELSE "none"]]
    /\ stranded' = stranded \ Rehydrated
    /\ UNCHANGED <<schedule, clock, cancelling, told, pushes, mishaps>>
-----------------------------------------------------------------------------
Deliver(p, r) ==
    \/ Arm(p, r) \/ Process(p, r) \/ LookUpNotification(p, r)
    \/ InsertNotification(p, r) \/ Push(p, r) \/ MarkRow(p, r)

Cancel(p) == FindToCancel(p) \/ UpdateCancelled(p)

ReminderStep(p, r) ==
    \/ Deliver(p, r) \/ StatementFails(p, r) \/ Rejected(p, r) \/ Announce(p, r)
    \/ \E k \in Reminders : ScheduleReminder(p, r, k)

RemindersNext ==
    \/ \E p \in Processes, r \in ScheduleRows : ReminderStep(p, r)
    \/ \E p \in Processes : StartJob(p) \/ Cancel(p) \/ CancelFails(p) \/ ProcessDies(p) \/ Restart(p)
    \/ FallsDue

RemindersSpec == RemindersInit /\ [][RemindersNext]_reminderVars
-----------------------------------------------------------------------------
\* Every variable keeps its domain.
RemindersTypeOK ==
    /\ row \in [ScheduleRows -> {"NONE", "PENDING", "SENT", "CANCELLED"}]
    /\ reminder \in [ScheduleRows -> Reminders] /\ clock \in Reminders
    /\ up \subseteq Processes /\ stage \in [Processes -> [ScheduleRows -> Stages]]
    /\ cancelling \in [Processes -> Cancellations]
    /\ told \subseteq Reminders /\ pushes \in [Reminders -> Nat]
    /\ stranded \subseteq ScheduleRows /\ mishaps \in Nat

\* However many rows and processes work on a reminder, the client is pushed once.
PushedOnce == \A k \in Reminders : pushes[k] <= 1

\* A PENDING row is in the hands of a process that runs, or of one that will arm it
\* when it comes back, unless a statement failed and left it.
Held(r) ==
    \/ \E p \in Processes : stage[p][r] # "none" \/ r \in cancelling[p].rows
    \/ up # Processes

NoOrphan == \A r \in ScheduleRows : row[r] = "PENDING" => Held(r) \/ r \in stranded

\* A reminder that has fallen due does not stay PENDING, crashes or not, unless a
\* statement failed and left it.
DueIsResolved ==
    \A r \in ScheduleRows :
        row[r] = "PENDING" /\ Due(r) ~> row[r] # "PENDING" \/ r \in stranded
=============================================================================
