----------------------------- MODULE RemindersProofs -----------------------------
(***************************************************************************)
(* Proofs about Reminders for any number of processes, rows, reminders and *)
(* crashes:                                                                *)
(*   - a reminder is pushed at most once: the unique key of Notification   *)
(*     lets one delivery past its insert, whoever else works on the row;   *)
(*   - a row stays PENDING only in somebody's hands.                       *)
(***************************************************************************)
EXTENDS Reminders, TLAPS

\* A row that a process works on, or is about to cancel, exists; what is about to be
\* cancelled is still to come for the process that cancels it.
Handled ==
    /\ \A p \in Processes, r \in ScheduleRows : stage[p][r] # "none" => row[r] # "NONE"
    /\ \A p \in Processes : cancelling[p].step \in {"none", "find", "announce"}
                            => cancelling[p].rows = {}
    /\ \A p \in Processes : \A r \in cancelling[p].rows :
          row[r] # "NONE" /\ reminder[r] > cancelling[p].after

\* A delivery that is about to push is the only one that may push its reminder.
Pushing ==
    /\ \A k \in Reminders : pushes[k] <= 1 /\ (k \notin told => pushes[k] = 0)
    /\ \A p \in Processes, r \in ScheduleRows : stage[p][r] = "push" =>
          /\ reminder[r] \in told /\ pushes[reminder[r]] = 0
          /\ \A q \in Processes, s \in ScheduleRows :
                stage[q][s] = "push" /\ reminder[s] = reminder[r] => q = p /\ s = r

IInv == RemindersTypeOK /\ Handled /\ Pushing /\ NoOrphan

StageType == stage \in [Processes -> [ScheduleRows -> Stages]]
-----------------------------------------------------------------------------

\* A process goes on with one row.
LEMMA Moves ==
    ASSUME RemindersTypeOK, NEW p \in Processes, NEW r \in ScheduleRows, NEW s \in Stages,
           Move(p, r, s)
    PROVE  /\ StageType' /\ stage'[p][r] = s
           /\ \A q \in Processes, t \in ScheduleRows : q # p \/ t # r => stage'[q][t] = stage[q][t]
  BY DEF Move, RemindersTypeOK, StageType

LEMMA TypeInit == RemindersInit => RemindersTypeOK
  BY RemindersAssumption
     DEF RemindersInit, RemindersTypeOK, Reminders, Stages, Cancellations, NotCancelling

LEMMA CancellingTypes ==
    ASSUME RemindersTypeOK, NEW p \in Processes
    PROVE  /\ [step |-> "find", rows |-> {}, after |-> clock] \in Cancellations
           /\ NotCancelling \in Cancellations
           /\ \A s \in {"announce", "update"}, R \in SUBSET ScheduleRows :
                 [cancelling EXCEPT ![p].step = s, ![p].rows = R] \in [Processes -> Cancellations]
  <1>1. cancelling[p] \in Cancellations
    BY DEF RemindersTypeOK
  <1>2. ASSUME NEW s \in {"announce", "update"}, NEW R \in SUBSET ScheduleRows
        PROVE  [cancelling EXCEPT ![p].step = s, ![p].rows = R] \in [Processes -> Cancellations]
    <2>1. [cancelling[p] EXCEPT !.step = s, !.rows = R] \in Cancellations
      BY <1>1 DEF Cancellations
    <2>2. [cancelling EXCEPT ![p].step = s, ![p].rows = R]
          = [cancelling EXCEPT ![p] = [cancelling[p] EXCEPT !.step = s, !.rows = R]]
      BY DEF RemindersTypeOK
    <2>. QED
      BY <2>1, <2>2 DEF RemindersTypeOK
  <1>3. 0 \in Reminders
    BY RemindersAssumption DEF Reminders
  <1>. QED
    BY <1>2, <1>3 DEF Cancellations, NotCancelling, RemindersTypeOK

LEMMA TypeStep == RemindersTypeOK /\ [RemindersNext]_reminderVars => RemindersTypeOK'
  <1>. SUFFICES ASSUME RemindersTypeOK, [RemindersNext]_reminderVars
                PROVE  RemindersTypeOK'
    OBVIOUS
  <1>. USE DEF schedule
  <1>0. {"none", "created", "armed", "notify", "insert", "push", "sent", "failed"} = Stages
    BY DEF Stages
  <1>1. ASSUME NEW p \in Processes, NEW r \in ScheduleRows, ReminderStep(p, r)
        PROVE  RemindersTypeOK'
    <2>1. ASSUME NEW k \in Reminders, ScheduleReminder(p, r, k)
          PROVE  RemindersTypeOK'
      BY <1>0, <2>1, Moves DEF ScheduleReminder, RemindersTypeOK, StageType
    <2>2. CASE Arm(p, r)
      BY <1>0, <2>2, Moves DEF Arm, RemindersTypeOK, StageType
    <2>3. CASE Process(p, r)
      BY <1>0, <2>3, Moves DEF Process, RemindersTypeOK, StageType
    <2>4. CASE LookUpNotification(p, r)
      BY <1>0, <2>4, Moves DEF LookUpNotification, RemindersTypeOK, StageType
    <2>5. CASE InsertNotification(p, r)
      BY <1>0, <2>5, Moves DEF InsertNotification, RemindersTypeOK, StageType
    <2>6. CASE Push(p, r)
      BY <1>0, <2>6, Moves DEF Push, RemindersTypeOK, StageType
    <2>7. CASE MarkRow(p, r)
      BY <1>0, <2>7, Moves DEF MarkRow, RemindersTypeOK, StageType
    <2>8. CASE StatementFails(p, r)
      BY <1>0, <2>8, Moves DEF StatementFails, Mishap, RemindersTypeOK, StageType
    <2>9. CASE Rejected(p, r)
      BY <1>0, <2>9, Moves DEF Rejected, Mishap, RemindersTypeOK, StageType
    <2>10. CASE Announce(p, r)
      <3>1. JobStarted \in Reminders
        BY RemindersAssumption DEF JobStarted, Reminders
      <3>. QED
        BY <1>0, <2>10, <3>1, Moves, CancellingTypes DEF Announce, RemindersTypeOK, StageType
    <2>. QED
      BY <1>1, <2>1, <2>2, <2>3, <2>4, <2>5, <2>6, <2>7, <2>8, <2>9, <2>10
         DEF ReminderStep, Deliver
  <1>2. ASSUME NEW p \in Processes,
               StartJob(p) \/ Cancel(p) \/ CancelFails(p) \/ ProcessDies(p) \/ Restart(p)
        PROVE  RemindersTypeOK'
    <2>1. CASE StartJob(p)
      BY <2>1, CancellingTypes DEF StartJob, RemindersTypeOK
    <2>2. CASE FindToCancel(p)
      <3>1. ToCancel(p) \in SUBSET ScheduleRows
        BY DEF ToCancel
      <3>2. cancelling' \in [Processes -> Cancellations]
        BY <2>2, <3>1, CancellingTypes DEF FindToCancel
      <3>3. StageType'
        BY <2>2 DEF FindToCancel, RemindersTypeOK, StageType, Stages
      <3>. QED
        BY <2>2, <3>2, <3>3 DEF FindToCancel, RemindersTypeOK, StageType
    <2>3. CASE UpdateCancelled(p)
      BY <2>3, CancellingTypes DEF UpdateCancelled, RemindersTypeOK
    <2>4. CASE CancelFails(p)
      <3>1. cancelling[p].rows \subseteq ScheduleRows
        BY DEF RemindersTypeOK, Cancellations
      <3>2. cancelling' \in [Processes -> Cancellations]
        BY <2>4, CancellingTypes DEF CancelFails, RemindersTypeOK
      <3>3. mishaps' \in Nat
        BY <2>4 DEF CancelFails, Mishap, RemindersTypeOK
      <3>. QED
        BY <2>4, <3>1, <3>2, <3>3 DEF CancelFails, RemindersTypeOK
    <2>5. CASE ProcessDies(p)
      <3>1. cancelling' \in [Processes -> Cancellations]
        BY <2>5, CancellingTypes DEF ProcessDies, RemindersTypeOK
      <3>2. StageType' /\ mishaps' \in Nat
        BY <2>5, <1>0 DEF ProcessDies, Mishap, RemindersTypeOK, StageType
      <3>. QED
        BY <2>5, <3>1, <3>2 DEF ProcessDies, RemindersTypeOK, StageType
    <2>6. CASE Restart(p)
      BY <2>6 DEF Restart, RemindersTypeOK, Stages, Rehydrated
    <2>. QED
      BY <1>2, <2>1, <2>2, <2>3, <2>4, <2>5, <2>6 DEF Cancel
  <1>3. CASE FallsDue
    BY <1>3, RemindersAssumption DEF FallsDue, RemindersTypeOK, Reminders
  <1>4. CASE UNCHANGED reminderVars
    BY <1>4 DEF reminderVars, RemindersTypeOK
  <1>. QED
    BY <1>1, <1>2, <1>3, <1>4 DEF RemindersNext

\* Every variable keeps its domain, for any constants.
THEOREM RemindersTypeCorrect == RemindersSpec => []RemindersTypeOK
  BY TypeInit, TypeStep, PTL DEF RemindersSpec
-----------------------------------------------------------------------------
(***************************************************************************)
(* Who handles a row.                                                      *)
(***************************************************************************)

LEMMA HandledStep == RemindersTypeOK /\ Handled /\ [RemindersNext]_reminderVars => Handled'
  <1>. SUFFICES ASSUME RemindersTypeOK, Handled, [RemindersNext]_reminderVars
                PROVE  Handled'
    OBVIOUS
  <1>. USE DEF schedule
  <1>0. {"none", "created", "armed", "notify", "insert", "push", "sent", "failed"} = Stages
    BY DEF Stages
  <1>k. ASSUME UNCHANGED <<row, reminder, cancelling>>, NEW p \in Processes, NEW r \in ScheduleRows,
               NEW s \in Stages, Move(p, r, s), stage[p][r] # "none"
        PROVE  Handled'
    BY <1>k, Moves DEF Handled
  <1>1. ASSUME NEW p \in Processes, NEW r \in ScheduleRows, ReminderStep(p, r)
        PROVE  Handled'
    <2>1. ASSUME NEW k \in Reminders, ScheduleReminder(p, r, k)
          PROVE  Handled'
      <3>1. row' = [row EXCEPT ![r] = "PENDING"] /\ reminder' = [reminder EXCEPT ![r] = k]
            /\ row[r] = "NONE" /\ UNCHANGED cancelling
        BY <2>1 DEF ScheduleReminder
      <3>2. \A q \in Processes, t \in ScheduleRows : q # p \/ t # r => stage'[q][t] = stage[q][t]
        BY <1>0, <2>1, Moves DEF ScheduleReminder
      <3>3. \A q \in Processes : r \notin cancelling[q].rows
        BY <3>1 DEF Handled
      <3>4. \A q \in Processes : cancelling[q].rows \subseteq ScheduleRows
        BY DEF RemindersTypeOK, Cancellations
      <3>. QED
        BY <3>1, <3>2, <3>3, <3>4 DEF Handled, RemindersTypeOK
    <2>2. CASE Arm(p, r)
      BY <1>0, <1>k, <2>2 DEF Arm
    <2>3. CASE Process(p, r)
      BY <1>0, <1>k, <2>3 DEF Process
    <2>4. CASE LookUpNotification(p, r)
      BY <1>0, <1>k, <2>4 DEF LookUpNotification
    <2>5. CASE InsertNotification(p, r)
      BY <1>0, <1>k, <2>5 DEF InsertNotification
    <2>6. CASE Push(p, r)
      BY <1>0, <1>k, <2>6 DEF Push
    <2>7. CASE MarkRow(p, r)
      <3>1. /\ row' = [row EXCEPT ![r] = IF stage[p][r] = "sent" THEN "SENT" ELSE "CANCELLED"]
            /\ UNCHANGED <<reminder, cancelling>> /\ Move(p, r, "none")
        BY <2>7 DEF MarkRow
      <3>2. \A q \in Processes, t \in ScheduleRows : stage'[q][t] # "none" => stage[q][t] # "none"
        BY <1>0, <3>1, Moves
      <3>3. \A t \in ScheduleRows : row[t] # "NONE" => row'[t] # "NONE"
        BY <3>1 DEF RemindersTypeOK
      <3>4. \A q \in Processes : cancelling[q].rows \subseteq ScheduleRows
        BY DEF RemindersTypeOK, Cancellations
      <3>. QED
        BY <3>1, <3>2, <3>3, <3>4 DEF Handled
    <2>8. CASE StatementFails(p, r)
      BY <1>0, <1>k, <2>8 DEF StatementFails
    <2>9. CASE Rejected(p, r)
      BY <1>0, <1>k, <2>9 DEF Rejected
    <2>10. CASE Announce(p, r)
      <3>1. row' = [row EXCEPT ![r] = "PENDING"] /\ row[r] = "NONE"
            /\ reminder' = [reminder EXCEPT ![r] = JobStarted]
            /\ cancelling' = [cancelling EXCEPT ![p] = NotCancelling]
        BY <2>10 DEF Announce
      <3>2. \A q \in Processes, t \in ScheduleRows : q # p \/ t # r => stage'[q][t] = stage[q][t]
        BY <1>0, <2>10, Moves DEF Announce
      <3>3. \A q \in Processes : r \notin cancelling[q].rows
        BY <3>1 DEF Handled
      <3>4. \A q \in Processes : cancelling[q].rows \subseteq ScheduleRows
        BY DEF RemindersTypeOK, Cancellations
      <3>. QED
        BY <3>1, <3>2, <3>3, <3>4 DEF Handled, RemindersTypeOK, NotCancelling
    <2>. QED
      BY <1>1, <2>1, <2>2, <2>3, <2>4, <2>5, <2>6, <2>7, <2>8, <2>9, <2>10
         DEF ReminderStep, Deliver
  <1>2. ASSUME NEW p \in Processes, StartJob(p) \/ CancelFails(p) \/ ProcessDies(p)
        PROVE  Handled'
    <2>1. UNCHANGED <<row, reminder>>
          /\ cancelling' \in {[cancelling EXCEPT ![p] = NotCancelling],
               [cancelling EXCEPT ![p] = [step |-> "find", rows |-> {}, after |-> clock]]}
      BY <1>2 DEF StartJob, CancelFails, ProcessDies
    <2>2. \A q \in Processes, t \in ScheduleRows : stage'[q][t] # "none" => stage[q][t] # "none"
      BY <1>2 DEF StartJob, CancelFails, ProcessDies, RemindersTypeOK
    <2>3. \A q \in Processes : cancelling'[q].rows = {} \/ cancelling'[q] = cancelling[q]
      BY <2>1 DEF RemindersTypeOK, NotCancelling
    <2>. QED
      BY <2>1, <2>2, <2>3 DEF Handled
  <1>3. ASSUME NEW p \in Processes, FindToCancel(p)
        PROVE  Handled'
    <2>1. /\ UNCHANGED <<row, reminder>>
          /\ cancelling' = [cancelling EXCEPT
                              ![p].step = IF ToCancel(p) = {} THEN "announce" ELSE "update",
                              ![p].rows = ToCancel(p)]
      BY <1>3 DEF FindToCancel
    <2>2. /\ cancelling'[p].rows = ToCancel(p) /\ cancelling'[p].after = cancelling[p].after
          /\ cancelling'[p].step = IF ToCancel(p) = {} THEN "announce" ELSE "update"
          /\ \A q \in Processes \ {p} : cancelling'[q] = cancelling[q]
      BY <2>1 DEF RemindersTypeOK, Cancellations
    <2>3. \A q \in Processes, t \in ScheduleRows : stage'[q][t] # "none" => stage[q][t] # "none"
      BY <1>3 DEF FindToCancel, RemindersTypeOK
    <2>4. \A r \in ToCancel(p) : row[r] # "NONE" /\ reminder[r] > cancelling[p].after
      BY DEF ToCancel
    <2>5. \A q \in Processes, r \in ScheduleRows : stage'[q][r] # "none" => row'[r] # "NONE"
      BY <2>1, <2>3 DEF Handled
    <2>6. ASSUME NEW q \in Processes, NEW r \in cancelling'[q].rows
          PROVE  row'[r] # "NONE" /\ reminder'[r] > cancelling'[q].after
      <3>1. CASE q = p
        BY <2>1, <2>2, <2>4, <2>6, <3>1
      <3>2. CASE q # p
        BY <2>1, <2>2, <2>6, <3>2 DEF Handled
      <3>. QED
        BY <3>1, <3>2
    <2>7. \A q \in Processes : cancelling'[q].step \in {"none", "find", "announce"}
                               => cancelling'[q].rows = {}
      BY <2>2 DEF Handled
    <2>. QED
      BY <2>5, <2>6, <2>7 DEF Handled
  <1>4. ASSUME NEW p \in Processes, UpdateCancelled(p)
        PROVE  Handled'
    <2>1. /\ row' = [r \in ScheduleRows |-> IF r \in ToCancel(p) THEN "CANCELLED" ELSE row[r]]
          /\ cancelling' = [cancelling EXCEPT ![p].step = "announce", ![p].rows = {}]
          /\ UNCHANGED <<reminder, stage>>
      BY <1>4 DEF UpdateCancelled
    <2>2. \A q \in Processes : cancelling'[q].rows = {} \/ cancelling'[q] = cancelling[q]
      BY <2>1 DEF RemindersTypeOK, Cancellations
    <2>3. \A r \in ScheduleRows : row[r] # "NONE" => row'[r] # "NONE"
      BY <2>1
    <2>4. \A q \in Processes : cancelling[q].rows \subseteq ScheduleRows
      BY DEF RemindersTypeOK, Cancellations
    <2>5. \A q \in Processes, r \in ScheduleRows : stage'[q][r] # "none" => row'[r] # "NONE"
      BY <2>1, <2>3 DEF Handled
    <2>6. ASSUME NEW q \in Processes, NEW r \in cancelling'[q].rows
          PROVE  row'[r] # "NONE" /\ reminder'[r] > cancelling'[q].after
      BY <2>1, <2>2, <2>3, <2>4, <2>6 DEF Handled
    <2>7. \A q \in Processes : cancelling'[q].step \in {"none", "find", "announce"}
                               => cancelling'[q].rows = {}
      BY <2>2 DEF Handled
    <2>. QED
      BY <2>5, <2>6, <2>7 DEF Handled
  <1>5. ASSUME NEW p \in Processes, Restart(p)
        PROVE  Handled'
    <2>1. \A r \in Rehydrated : row[r] # "NONE"
      BY DEF Rehydrated
    <2>. QED
      BY <1>5, <2>1 DEF Restart, Handled, RemindersTypeOK
  <1>6. CASE FallsDue \/ UNCHANGED reminderVars
    BY <1>6 DEF FallsDue, reminderVars, Handled
  <1>. QED
    BY <1>1, <1>2, <1>3, <1>4, <1>5, <1>6 DEF RemindersNext, Cancel
-----------------------------------------------------------------------------
(***************************************************************************)
(* One push.                                                               *)
(***************************************************************************)

\* A step that pushes nothing, and lets nobody come to the push.
LEMMA PushingQuiet ==
    ASSUME Pushing, UNCHANGED <<told, pushes>>,
           \A p \in Processes, r \in ScheduleRows : stage'[p][r] = "push" =>
              stage[p][r] = "push" /\ reminder'[r] = reminder[r]
    PROVE  Pushing'
  BY DEF Pushing

LEMMA PushingStep ==
    RemindersTypeOK /\ Handled /\ Pushing /\ [RemindersNext]_reminderVars => Pushing'
  <1>. SUFFICES ASSUME RemindersTypeOK, Handled, Pushing, [RemindersNext]_reminderVars
                PROVE  Pushing'
    OBVIOUS
  <1>. USE DEF schedule
  <1>0. {"none", "created", "armed", "notify", "insert", "push", "sent", "failed"} = Stages
    BY DEF Stages
  <1>k. ASSUME UNCHANGED <<reminder, told, pushes>>, NEW p \in Processes, NEW r \in ScheduleRows,
               NEW s \in Stages \ {"push"}, Move(p, r, s)
        PROVE  Pushing'
    BY <1>k, Moves, PushingQuiet
  <1>n. ASSUME NEW p \in Processes, NEW r \in ScheduleRows, NEW k, row[r] = "NONE",
               NEW s \in Stages \ {"push"}, Move(p, r, s),
               reminder' = [reminder EXCEPT ![r] = k], UNCHANGED <<told, pushes>>
        PROVE  Pushing'
    <2>1. \A q \in Processes : stage[q][r] = "none"
      BY <1>n DEF Handled
    <2>2. \A q \in Processes, t \in ScheduleRows : stage'[q][t] = "push" =>
             stage[q][t] = "push" /\ t # r
      BY <1>n, <2>1, Moves
    <2>. QED
      BY <1>n, <2>2, PushingQuiet DEF RemindersTypeOK
  <1>1. ASSUME NEW p \in Processes, NEW r \in ScheduleRows, ReminderStep(p, r)
        PROVE  Pushing'
    <2>1. ASSUME NEW k \in Reminders, ScheduleReminder(p, r, k)
          PROVE  Pushing'
      BY <1>0, <1>n, <2>1 DEF ScheduleReminder
    <2>2. CASE Arm(p, r)
      BY <1>0, <1>k, <2>2 DEF Arm
    <2>3. CASE Process(p, r)
      BY <1>0, <1>k, <2>3 DEF Process
    <2>4. CASE LookUpNotification(p, r)
      BY <1>0, <1>k, <2>4 DEF LookUpNotification
    <2>5. CASE InsertNotification(p, r)
      <3>1. CASE KeyTaken(reminder[r])
        BY <1>0, <1>k, <2>5, <3>1 DEF InsertNotification
      <3>2. CASE ~KeyTaken(reminder[r])
        <4>1. /\ Move(p, r, "push") /\ told' = told \cup {reminder[r]}
              /\ reminder[r] \notin told /\ UNCHANGED <<reminder, pushes>>
          BY <2>5, <3>2 DEF InsertNotification, KeyTaken
        <4>2. \A q \in Processes, t \in ScheduleRows : q # p \/ t # r => stage'[q][t] = stage[q][t]
          BY <1>0, <4>1, Moves
        <4>3. \A q \in Processes, t \in ScheduleRows :
                 stage[q][t] = "push" => reminder[t] # reminder[r]
          BY <4>1 DEF Pushing
        <4>4. reminder[r] \in Reminders /\ pushes[reminder[r]] = 0
          BY <4>1 DEF Pushing, RemindersTypeOK
        <4>. QED
          BY <4>1, <4>2, <4>3, <4>4 DEF Pushing
      <3>. QED
        BY <3>1, <3>2
    <2>6. CASE Push(p, r)
      <3>1. /\ stage[p][r] = "push" /\ Move(p, r, "sent") /\ UNCHANGED <<reminder, told>>
            /\ pushes' = [pushes EXCEPT ![reminder[r]] = @ + 1]
        BY <2>6 DEF Push
      <3>2. \A q \in Processes, t \in ScheduleRows : stage'[q][t] = "push" =>
               stage[q][t] = "push" /\ (q # p \/ t # r)
        BY <1>0, <3>1, Moves
      <3>3. \A q \in Processes, t \in ScheduleRows :
               stage'[q][t] = "push" => reminder[t] # reminder[r]
        BY <3>1, <3>2 DEF Pushing
      <3>4. /\ reminder[r] \in Reminders /\ reminder[r] \in told /\ pushes[reminder[r]] = 0
            /\ \A t \in ScheduleRows : reminder[t] \in Reminders
        BY <3>1 DEF Pushing, RemindersTypeOK
      <3>5. /\ pushes'[reminder[r]] = 1
            /\ \A k \in Reminders : k # reminder[r] => pushes'[k] = pushes[k]
        BY <3>1, <3>4 DEF RemindersTypeOK
      <3>. QED
        BY <3>1, <3>2, <3>3, <3>4, <3>5 DEF Pushing
    <2>7. CASE MarkRow(p, r)
      BY <1>0, <1>k, <2>7 DEF MarkRow
    <2>8. CASE StatementFails(p, r)
      BY <1>0, <1>k, <2>8 DEF StatementFails
    <2>9. CASE Rejected(p, r)
      BY <1>0, <1>k, <2>9 DEF Rejected
    <2>10. CASE Announce(p, r)
      BY <1>0, <1>n, <2>10 DEF Announce
    <2>. QED
      BY <1>1, <2>1, <2>2, <2>3, <2>4, <2>5, <2>6, <2>7, <2>8, <2>9, <2>10
         DEF ReminderStep, Deliver
  <1>2. ASSUME NEW p \in Processes,
               StartJob(p) \/ Cancel(p) \/ CancelFails(p) \/ ProcessDies(p) \/ Restart(p)
        PROVE  Pushing'
    <2>1. UNCHANGED <<reminder, told, pushes>>
      BY <1>2 DEF StartJob, Cancel, FindToCancel, UpdateCancelled, CancelFails, ProcessDies, Restart
    <2>2. \A q \in Processes, t \in ScheduleRows : stage'[q][t] = "push" => stage[q][t] = "push"
      BY <1>2 DEF StartJob, Cancel, FindToCancel, UpdateCancelled, CancelFails, ProcessDies, Restart,
         RemindersTypeOK
    <2>. QED
      BY <2>1, <2>2, PushingQuiet
  <1>3. CASE FallsDue \/ UNCHANGED reminderVars
    BY <1>3, PushingQuiet DEF FallsDue, reminderVars
  <1>. QED
    BY <1>1, <1>2, <1>3 DEF RemindersNext
-----------------------------------------------------------------------------
(***************************************************************************)
(* No row is forgotten.                                                    *)
(***************************************************************************)

LEMMA HeldStep ==
    RemindersTypeOK /\ Handled /\ NoOrphan /\ [RemindersNext]_reminderVars => NoOrphan'
  <1>. SUFFICES ASSUME RemindersTypeOK, Handled, NoOrphan, [RemindersNext]_reminderVars
                PROVE  NoOrphan'
    OBVIOUS
  <1>. USE DEF schedule
  <1>0. {"none", "created", "armed", "notify", "insert", "push", "sent", "failed"} = Stages
    BY DEF Stages
  <1>k. ASSUME NEW p \in Processes, NEW r \in ScheduleRows, NEW s \in Stages, Move(p, r, s),
               UNCHANGED <<cancelling, up>>, stranded \subseteq stranded',
               \A t \in ScheduleRows \ {r} : row'[t] = row[t],
               s # "none" \/ row'[r] # "PENDING" \/ r \in stranded'
        PROVE  NoOrphan'
    <2>1. stage'[p][r] = s
          /\ \A q \in Processes, t \in ScheduleRows : q # p \/ t # r => stage'[q][t] = stage[q][t]
      BY <1>k, Moves
    <2>. QED
      BY <1>k, <2>1 DEF NoOrphan, Held
  <1>1. ASSUME NEW p \in Processes, NEW r \in ScheduleRows, ReminderStep(p, r)
        PROVE  NoOrphan'
    <2>1. ASSUME NEW k \in Reminders, ScheduleReminder(p, r, k)
          PROVE  NoOrphan'
      BY <1>0, <1>k, <2>1 DEF ScheduleReminder, RemindersTypeOK
    <2>2. CASE Arm(p, r)
      BY <1>0, <1>k, <2>2 DEF Arm
    <2>3. CASE Process(p, r)
      BY <1>0, <1>k, <2>3 DEF Process
    <2>4. CASE LookUpNotification(p, r)
      BY <1>0, <1>k, <2>4 DEF LookUpNotification
    <2>5. CASE InsertNotification(p, r)
      BY <1>0, <1>k, <2>5 DEF InsertNotification
    <2>6. CASE Push(p, r)
      BY <1>0, <1>k, <2>6 DEF Push
    <2>7. CASE MarkRow(p, r)
      BY <1>0, <1>k, <2>7 DEF MarkRow, RemindersTypeOK
    <2>8. CASE StatementFails(p, r)
      BY <1>0, <1>k, <2>8 DEF StatementFails
    <2>9. CASE Rejected(p, r)
      BY <1>0, <1>k, <2>9 DEF Rejected
    <2>10. CASE Announce(p, r)
      <3>1. /\ row' = [row EXCEPT ![r] = "PENDING"] /\ UNCHANGED <<up, stranded>>
            /\ cancelling[p].step = "announce" /\ Move(p, r, "armed")
            /\ cancelling' = [cancelling EXCEPT ![p] = NotCancelling]
        BY <2>10 DEF Announce
      <3>2. \A q \in Processes : cancelling'[q].rows = cancelling[q].rows
        BY <3>1 DEF Handled, NotCancelling, RemindersTypeOK
      <3>3. stage'[p][r] = "armed"
            /\ \A q \in Processes, t \in ScheduleRows : q # p \/ t # r => stage'[q][t] = stage[q][t]
        BY <1>0, <3>1, Moves
      <3>. QED
        BY <3>1, <3>2, <3>3 DEF NoOrphan, Held, RemindersTypeOK
    <2>. QED
      BY <1>1, <2>1, <2>2, <2>3, <2>4, <2>5, <2>6, <2>7, <2>8, <2>9, <2>10
         DEF ReminderStep, Deliver
  <1>2. ASSUME NEW p \in Processes, StartJob(p)
        PROVE  NoOrphan'
    <2>1. \A q \in Processes : cancelling'[q].rows = cancelling[q].rows
      BY <1>2 DEF StartJob, Handled, RemindersTypeOK
    <2>. QED
      BY <1>2, <2>1 DEF StartJob, NoOrphan, Held
  <1>3. ASSUME NEW p \in Processes, FindToCancel(p)
        PROVE  NoOrphan'
    <2>1. /\ cancelling'[p].rows = ToCancel(p) /\ cancelling[p].rows = {}
          /\ \A q \in Processes \ {p} : cancelling'[q] = cancelling[q]
      BY <1>3 DEF FindToCancel, RemindersTypeOK, Cancellations, Handled
    <2>2. \A q \in Processes, r \in ScheduleRows :
             stage'[q][r] = stage[q][r] \/ (q = p /\ r \in ToCancel(p))
      BY <1>3 DEF FindToCancel, RemindersTypeOK
    <2>3. UNCHANGED <<row, up, stranded>>
      BY <1>3 DEF FindToCancel
    <2>. QED
      BY <2>1, <2>2, <2>3 DEF NoOrphan, Held
  <1>4. ASSUME NEW p \in Processes, UpdateCancelled(p)
        PROVE  NoOrphan'
    <2>1. /\ row' = [r \in ScheduleRows |-> IF r \in ToCancel(p) THEN "CANCELLED" ELSE row[r]]
          /\ UNCHANGED <<stage, up, stranded>>
          /\ \A q \in Processes \ {p} : cancelling'[q] = cancelling[q]
      BY <1>4 DEF UpdateCancelled, RemindersTypeOK
    <2>2. \A r \in ScheduleRows : row'[r] = "PENDING" => row[r] = "PENDING" /\ r \notin ToCancel(p)
      BY <2>1
    <2>3. \A r \in ScheduleRows : row'[r] = "PENDING" => r \notin cancelling[p].rows
      BY <2>2 DEF ToCancel, Handled
    <2>. QED
      BY <2>1, <2>2, <2>3 DEF NoOrphan, Held
  <1>5. ASSUME NEW p \in Processes, CancelFails(p)
        PROVE  NoOrphan'
    <2>1. /\ stranded' = stranded \cup cancelling[p].rows /\ UNCHANGED <<row, stage, up>>
          /\ \A q \in Processes \ {p} : cancelling'[q] = cancelling[q]
      BY <1>5 DEF CancelFails, RemindersTypeOK
    <2>. QED
      BY <2>1 DEF NoOrphan, Held
  <1>6. ASSUME NEW p \in Processes, ProcessDies(p)
        PROVE  NoOrphan'
    BY <1>6 DEF ProcessDies, NoOrphan, Held
  <1>7. ASSUME NEW p \in Processes, Restart(p)
        PROVE  NoOrphan'
    <2>1. \A r \in ScheduleRows : row[r] = "PENDING" => stage'[p][r] = "armed"
      BY <1>7 DEF Restart, Rehydrated, RemindersTypeOK
    <2>. QED
      BY <1>7, <2>1 DEF Restart, NoOrphan, Held
  <1>8. CASE FallsDue \/ UNCHANGED reminderVars
    BY <1>8 DEF FallsDue, reminderVars, NoOrphan, Held
  <1>. QED
    BY <1>1, <1>2, <1>3, <1>4, <1>5, <1>6, <1>7, <1>8 DEF RemindersNext, Cancel
-----------------------------------------------------------------------------

LEMMA IInvInit == RemindersInit => IInv
  BY TypeInit DEF RemindersInit, IInv, Handled, Pushing, NoOrphan, NotCancelling

LEMMA IInvStep == IInv /\ [RemindersNext]_reminderVars => IInv'
  BY TypeStep, HandledStep, PushingStep, HeldStep DEF IInv

LEMMA Inductive == RemindersSpec => []IInv
  BY IInvInit, IInvStep, PTL DEF RemindersSpec

\* deliver and createNotification: however many rows and processes work on a reminder,
\* and wherever they crash, it is pushed once.
THEOREM NeverPushedTwice == RemindersSpec => []PushedOnce
  <1>1. IInv => PushedOnce
    BY DEF IInv, Pushing, PushedOnce
  <1>. QED
    BY <1>1, Inductive, PTL

\* onModuleInit arms every PENDING row: none is forgotten unless a statement failed.
THEOREM NeverOrphaned == RemindersSpec => []NoOrphan
  <1>1. IInv => NoOrphan
    BY DEF IInv
  <1>. QED
    BY <1>1, Inductive, PTL
=============================================================================
