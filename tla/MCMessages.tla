------------------------------- MODULE MCMessages -------------------------------
(* Reminders, NotificationJobs and SupportTickets for TLC.  They share no    *)
(* state: a behaviour exercises one of them, chosen in the initial state.    *)
EXTENDS Reminders, NotificationJobs, SupportTickets, FiniteSets

CONSTANTS p1, p2, row1, row2, j1, j2

TwoProcesses == {p1, p2}
OneStarter   == {p1}
TwoRows      == {row1, row2}
TwoJobs      == {j1, j2}

VARIABLE part

messageVars == <<reminderVars, jobVars, ticketVars, part>>

MessagesInit ==
    /\ part \in {"reminders", "jobs", "support"}
    /\ RemindersInit /\ NotificationJobsInit /\ SupportInit

MessagesNext ==
    \/ part = "reminders" /\ RemindersNext /\ UNCHANGED <<jobVars, ticketVars, part>>
    \/ part = "jobs" /\ NotificationJobsNext /\ UNCHANGED <<reminderVars, ticketVars, part>>
    \/ part = "support" /\ SupportNext /\ UNCHANGED <<reminderVars, jobVars, part>>

\* The type invariants of the three modules.
MessagesTypeOK == RemindersTypeOK /\ NotificationJobsTypeOK /\ SupportTypeOK

\* What a process of the backend has begun goes on, time passes, and a process that
\* died is started again.
RemindersFairness ==
    /\ WF_reminderVars(part = "reminders" /\ FallsDue)
    /\ \A p \in Processes :
          /\ WF_reminderVars(part = "reminders" /\ Restart(p))
          /\ WF_reminderVars(part = "reminders" /\ Cancel(p))
          /\ \A r \in ScheduleRows : WF_reminderVars(part = "reminders" /\ Deliver(p, r))

\* A worker takes what waits in the queue and goes on with it.
NotificationJobsFairness == \A j \in Jobs : WF_jobVars(part = "jobs" /\ Work(j))

MessagesSpec ==
    /\ MessagesInit /\ [][MessagesNext]_messageVars
    /\ RemindersFairness /\ NotificationJobsFairness
=============================================================================
