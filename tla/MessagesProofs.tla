----------------------------- MODULE MessagesProofs -----------------------------
(***************************************************************************)
(* Proofs about the jobs of an event and about a support ticket, for any   *)
(* number of jobs, attempts and requests, and about the messages together: *)
(*   - the push of an event is sent once for each life of its lock;        *)
(*   - a ticket moves as the state machine allows, and closedAt follows.   *)
(***************************************************************************)
EXTENDS MCMessages, RemindersProofs, FiniteSetTheorems

(***************************************************************************)
(* Jobs.                                                                   *)
(***************************************************************************)

Sending == {j \in Jobs : step[j] = "send"}

\* A push is sent, or about to be, for the lock as it is held now and for each time it lapsed.
LockedPushes == alerts + Cardinality(Sending) <= (IF pushLock THEN 1 ELSE 0) + lapses

\* Where the lock has been taken, or a job has completed, the push has been sent, is about
\* to be, or went with its worker.
LockMeansPush ==
    pushLock \/ lapses > 0 \/ (\E j \in Jobs : job[j] = "completed") =>
        alerts > 0 \/ dropped \/ (\E j \in Jobs : step[j] = "send")

OnlyActive == \A j \in Jobs : step[j] # "idle" => job[j] = "active"

JobInv == NotificationJobsTypeOK /\ OnlyActive /\ LockedPushes /\ LockMeansPush

LEMMA JobStart == NotificationJobsInit => JobInv
  <1>. SUFFICES ASSUME NotificationJobsInit PROVE JobInv
    OBVIOUS
  <1>1. NotificationJobsTypeOK
    <2>1. pushLock \in BOOLEAN /\ dropped \in BOOLEAN
      BY DEF NotificationJobsInit
    <2>2. /\ job \in [Jobs -> {"none", "waiting", "active"} \cup Ended]
          /\ step \in [Jobs -> {"idle", "create", "lock", "send"}]
          /\ failures \in [Jobs -> 0 .. Attempts] /\ stalled \subseteq Jobs
      BY JobsAssumption DEF NotificationJobsInit, Ended
    <2>3. /\ inbox \in Nat /\ echoes \in Nat /\ alerts \in Nat
          /\ retries \in 0 .. MaxRetries /\ lapses \in 0 .. MaxLapses
      BY JobsAssumption DEF NotificationJobsInit
    <2>. QED
      BY <2>1, <2>2, <2>3 DEF NotificationJobsTypeOK
  <1>2. OnlyActive /\ LockMeansPush
    BY DEF NotificationJobsInit, OnlyActive, LockMeansPush
  <1>3. Sending = {}
    BY DEF NotificationJobsInit, Sending
  <1>4. LockedPushes
    BY <1>3, FS_EmptySet DEF NotificationJobsInit, LockedPushes
  <1>. QED
    BY <1>1, <1>2, <1>4 DEF JobInv

\* The jobs that are about to send are finitely many, and a step moves one of them.
LEMMA SendingMoves ==
  ASSUME NotificationJobsTypeOK, NEW j \in Jobs, NEW s, step' = [step EXCEPT ![j] = s]
  PROVE  /\ Cardinality(Sending) \in Nat /\ Cardinality(Sending') \in Nat
         /\ step[j] # "send" /\ s # "send" => Cardinality(Sending') = Cardinality(Sending)
         /\ step[j] # "send" /\ s = "send" => Cardinality(Sending') = Cardinality(Sending) + 1
         /\ step[j] = "send" /\ s # "send" => Cardinality(Sending') = Cardinality(Sending) - 1
  <1>1. IsFiniteSet(Sending) /\ IsFiniteSet(Sending')
    BY JobsAssumption, FS_Subset DEF Sending
  <1>2. Cardinality(Sending) \in Nat /\ Cardinality(Sending') \in Nat
    BY <1>1, FS_CardinalityType
  <1>3. ASSUME step[j] # "send", s # "send"
        PROVE  Cardinality(Sending') = Cardinality(Sending)
    <2>1. Sending' = Sending
      BY <1>3 DEF NotificationJobsTypeOK, Sending
    <2>. QED
      BY <2>1
  <1>4. ASSUME step[j] # "send", s = "send"
        PROVE  Cardinality(Sending') = Cardinality(Sending) + 1
    <2>1. Sending' = Sending \cup {j} /\ j \notin Sending
      BY <1>4 DEF NotificationJobsTypeOK, Sending
    <2>. QED
      BY <1>1, <2>1, FS_AddElement
  <1>5. ASSUME step[j] = "send", s # "send"
        PROVE  Cardinality(Sending') = Cardinality(Sending) - 1
    <2>1. Sending' = Sending \ {j} /\ j \in Sending
      BY <1>5 DEF NotificationJobsTypeOK, Sending
    <2>. QED
      BY <1>1, <2>1, FS_RemoveElement
  <1>. QED
    BY <1>2, <1>3, <1>4, <1>5

\* A job moves on without a push: nothing is lost that was about to be sent.
LEMMA QuietJob ==
  ASSUME JobInv, NEW j \in Jobs, NEW s \in {"idle", "create", "lock"}, NEW b,
         NotificationJobsTypeOK',
         step' = [step EXCEPT ![j] = s], job' = [job EXCEPT ![j] = b],
         s # "idle" => b = "active",
         b = "completed" => pushLock,
         step[j] = "send" => dropped', dropped => dropped',
         UNCHANGED <<pushLock, alerts, lapses>>
  PROVE  JobInv'
  <1>1. step'[j] = s /\ \A k \in Jobs \ {j} : step'[k] = step[k]
    BY DEF JobInv, NotificationJobsTypeOK
  <1>2. job'[j] = b /\ \A k \in Jobs \ {j} : job'[k] = job[k]
    BY DEF JobInv, NotificationJobsTypeOK
  <1>3. OnlyActive'
    BY <1>1, <1>2 DEF JobInv, OnlyActive
  <1>4. LockedPushes'
    <2>. DEFINE n == Cardinality(Sending)
                m == Cardinality(Sending')
    <2>1. n \in Nat /\ m \in Nat /\ (m = n \/ m = n - 1) /\ alerts \in Nat /\ lapses \in Nat
      <3>1. alerts \in Nat /\ lapses \in Nat /\ s # "send"
        BY JobsAssumption DEF JobInv, NotificationJobsTypeOK
      <3>. QED
        BY <3>1, SendingMoves DEF JobInv
    <2>2. alerts + m <= alerts + n
      BY <2>1
    <2>. QED
      BY <2>1, <2>2 DEF JobInv, LockedPushes
  <1>5. LockMeansPush'
    <2>1. SUFFICES ASSUME pushLock \/ lapses > 0 \/ (\E k \in Jobs : job'[k] = "completed")
                   PROVE  alerts > 0 \/ dropped' \/ (\E k \in Jobs : step'[k] = "send")
      BY DEF LockMeansPush
    <2>2. pushLock \/ lapses > 0 \/ (\E k \in Jobs : job[k] = "completed")
      BY <1>2, <2>1
    <2>3. alerts > 0 \/ dropped \/ (\E k \in Jobs : step[k] = "send")
      BY <2>2 DEF JobInv, LockMeansPush
    <2>. QED
      BY <1>1, <2>3
  <1>. QED
    BY <1>3, <1>4, <1>5 DEF JobInv

LEMMA JobStep ==
  ASSUME JobInv, [NotificationJobsNext]_jobVars
  PROVE  JobInv'
  <1>1. /\ job \in [Jobs -> {"none", "waiting", "active"} \cup Ended]
        /\ step \in [Jobs -> {"idle", "create", "lock", "send"}]
        /\ failures \in [Jobs -> 0 .. Attempts] /\ stalled \subseteq Jobs
    BY DEF JobInv, NotificationJobsTypeOK
  <1>2. inbox \in Nat /\ echoes \in Nat /\ alerts \in Nat /\ lapses \in 0 .. MaxLapses
        /\ retries \in 0 .. MaxRetries /\ lapses \in Nat
    BY JobsAssumption DEF JobInv, NotificationJobsTypeOK
  <1>3. pushLock \in BOOLEAN /\ dropped \in BOOLEAN
    BY DEF JobInv, NotificationJobsTypeOK
  <1>4. \A j \in Jobs : step[j] # "idle" => job[j] = "active"
    BY DEF JobInv, OnlyActive
  <1>5. CASE UNCHANGED jobVars
    BY <1>5 DEF jobVars, JobInv, NotificationJobsTypeOK, OnlyActive, LockedPushes, LockMeansPush,
                Sending
  <1>6. ASSUME NEW j \in Jobs, AddJob(j)
        PROVE  JobInv'
    <2>1. /\ job' = [job EXCEPT ![j] = "waiting"] /\ job[j] = "none"
          /\ UNCHANGED <<step, failures, stalled, pushLock, inbox, echoes, alerts, dropped, retries,
                         lapses>>
      BY <1>6 DEF AddJob, effects
    <2>2. step' = [step EXCEPT ![j] = "idle"]
      BY <1>1, <1>4, <2>1
    <2>3. NotificationJobsTypeOK'
      BY <1>1, <1>2, <1>3, <2>1 DEF NotificationJobsTypeOK
    <2>4. step[j] # "send"
      BY <1>4, <2>1
    <2>. QED
      BY <2>1, <2>2, <2>3, <2>4, QuietJob
  <1>7. ASSUME NEW j \in Jobs, TakeJob(j)
        PROVE  JobInv'
    <2>1. PICK first \in {"create", "lock"} : step' = [step EXCEPT ![j] = first]
      BY <1>7 DEF TakeJob
    <2>2. /\ job' = [job EXCEPT ![j] = "active"] /\ step[j] # "send"
          /\ UNCHANGED <<failures, stalled, pushLock, inbox, echoes, alerts, dropped, retries, lapses>>
      BY <1>4, <1>7 DEF TakeJob, effects
    <2>3. NotificationJobsTypeOK'
      BY <1>1, <1>2, <1>3, <2>1, <2>2 DEF NotificationJobsTypeOK
    <2>. QED
      BY <2>1, <2>2, <2>3, QuietJob
  <1>8. ASSUME NEW j \in Jobs, CreateInApp(j)
        PROVE  JobInv'
    <2>1. /\ step' = [step EXCEPT ![j] = "lock"] /\ step[j] = "create"
          /\ inbox' = inbox + 1 /\ echoes' = echoes + 1
          /\ UNCHANGED <<job, failures, stalled, pushLock, alerts, dropped, retries, lapses>>
      BY <1>8 DEF CreateInApp
    <2>2. job' = [job EXCEPT ![j] = "active"]
      BY <1>1, <1>4, <2>1
    <2>3. inbox' \in Nat /\ echoes' \in Nat
      BY <1>2, <2>1
    <2>4. NotificationJobsTypeOK'
      BY <1>1, <1>2, <1>3, <2>1, <2>3 DEF NotificationJobsTypeOK
    <2>5. /\ step' = [step EXCEPT ![j] = "lock"] /\ step[j] # "send" /\ (dropped => dropped')
          /\ UNCHANGED <<pushLock, alerts, lapses>>
      BY <2>1
    <2>. QED
      BY <2>2, <2>4, <2>5, QuietJob
  <1>9. ASSUME NEW j \in Jobs, LockPush(j), pushLock
        PROVE  JobInv'
    <2>1. /\ job' = [job EXCEPT ![j] = "completed"] /\ step' = [step EXCEPT ![j] = "idle"]
          /\ step[j] = "lock" /\ pushLock' = TRUE
          /\ UNCHANGED <<failures, stalled, inbox, echoes, alerts, dropped, retries, lapses>>
      BY <1>9 DEF LockPush, MayPush, Complete, effects
    <2>2. pushLock' = pushLock /\ dropped' = dropped
      BY <1>3, <1>9, <2>1
    <2>3. NotificationJobsTypeOK'
      BY <1>1, <1>2, <1>3, <2>1, <2>2 DEF NotificationJobsTypeOK, Ended
    <2>4. UNCHANGED <<pushLock, alerts, lapses>>
      BY <2>1, <2>2
    <2>5. step[j] # "send" /\ (dropped => dropped')
      BY <2>1, <2>2
    <2>. QED
      BY <1>9, <2>1, <2>3, <2>4, <2>5, QuietJob
  \* The lock is taken, and one job more is about to send.
  <1>10. ASSUME NEW j \in Jobs, LockPush(j), ~pushLock
         PROVE  JobInv'
    <2>1. /\ step' = [step EXCEPT ![j] = "send"] /\ step[j] = "lock" /\ pushLock' = TRUE
          /\ UNCHANGED <<job, failures, stalled, inbox, echoes, alerts, dropped, retries, lapses>>
      BY <1>10 DEF LockPush, MayPush, effects
    <2>2. step'[j] = "send" /\ \A k \in Jobs \ {j} : step'[k] = step[k]
      BY <1>1, <2>1
    <2>3. pushLock' \in BOOLEAN /\ dropped' \in BOOLEAN
      BY <1>3, <2>1
    <2>4. NotificationJobsTypeOK'
      BY <1>1, <1>2, <2>1, <2>3 DEF NotificationJobsTypeOK
    <2>5. OnlyActive'
      BY <1>4, <2>1, <2>2 DEF OnlyActive
    <2>6. LockedPushes'
      <3>1. Cardinality(Sending) \in Nat /\ Cardinality(Sending') = Cardinality(Sending) + 1
        BY <2>1, SendingMoves DEF JobInv
      <3>2. alerts + Cardinality(Sending) <= 0 + lapses
        BY <1>10 DEF JobInv, LockedPushes
      <3>3. alerts + (Cardinality(Sending) + 1) <= 1 + lapses
        BY <1>2, <3>1, <3>2
      <3>. QED
        BY <2>1, <3>1, <3>3 DEF LockedPushes
    <2>7. LockMeansPush'
      BY <2>2 DEF LockMeansPush
    <2>. QED
      BY <2>4, <2>5, <2>6, <2>7 DEF JobInv
  <1>11. ASSUME NEW j \in Jobs, SendPush(j)
         PROVE  JobInv'
    <2>1. /\ step' = [step EXCEPT ![j] = "idle"] /\ step[j] = "send" /\ alerts' = alerts + 1
          /\ job' = [job EXCEPT ![j] = "completed"]
          /\ UNCHANGED <<failures, stalled, pushLock, inbox, echoes, dropped, retries, lapses>>
      BY <1>11 DEF SendPush, Complete
    <2>2. alerts' \in Nat /\ alerts' > 0
      BY <1>2, <2>1
    <2>3. NotificationJobsTypeOK'
      BY <1>1, <1>2, <1>3, <2>1, <2>2 DEF NotificationJobsTypeOK, Ended
    <2>4. OnlyActive'
      BY <1>1, <1>4, <2>1 DEF OnlyActive
    <2>5. LockedPushes'
      <3>0. NotificationJobsTypeOK /\ step[j] = "send" /\ step' = [step EXCEPT ![j] = "idle"]
        BY <2>1 DEF JobInv
      <3>1. Cardinality(Sending) \in Nat /\ Cardinality(Sending') = Cardinality(Sending) - 1
        BY <3>0, "idle" # "send", SendingMoves
      <3>2. alerts' + Cardinality(Sending') = alerts + Cardinality(Sending)
        BY <1>2, <2>1, <3>1
      <3>. QED
        BY <2>1, <3>2 DEF JobInv, LockedPushes
    <2>6. LockMeansPush'
      BY <2>2 DEF LockMeansPush
    <2>. QED
      BY <2>3, <2>4, <2>5, <2>6 DEF JobInv
  <1>12. ASSUME NEW j \in Jobs, AttemptFails(j)
         PROVE  JobInv'
    <2>. DEFINE b == IF MoreAttempts(j) THEN "waiting" ELSE "failed"
                f == IF MoreAttempts(j) THEN failures[j] + 1 ELSE Attempts
    <2>1. /\ job' = [job EXCEPT ![j] = b] /\ failures' = [failures EXCEPT ![j] = f]
          /\ step' = [step EXCEPT ![j] = "idle"] /\ step[j] \in {"create", "lock"}
          /\ UNCHANGED <<stalled, pushLock, inbox, echoes, alerts, dropped, retries, lapses>>
      BY <1>12 DEF AttemptFails, effects
    <2>2. f \in 0 .. Attempts
      BY <1>1, JobsAssumption DEF MoreAttempts
    <2>3. b \in {"waiting", "failed"}
      OBVIOUS
    <2>. HIDE DEF b, f
    <2>4. NotificationJobsTypeOK'
      BY <1>1, <1>2, <1>3, <2>1, <2>2, <2>3 DEF NotificationJobsTypeOK, Ended
    <2>. QED
      BY <2>1, <2>3, <2>4, QuietJob
  <1>13. ASSUME NEW j \in Jobs, WorkerDies(j)
         PROVE  JobInv'
    <2>. DEFINE b == IF j \in stalled THEN "failed" ELSE "waiting"
    <2>1. /\ job' = [job EXCEPT ![j] = b] /\ step' = [step EXCEPT ![j] = "idle"]
          /\ stalled' = stalled \cup {j}
          /\ UNCHANGED <<failures, pushLock, inbox, echoes, alerts, retries, lapses>>
      BY <1>13 DEF WorkerDies, effects
    <2>2. dropped' = (dropped \/ step[j] = "send")
      BY <1>13 DEF WorkerDies
    <2>3. dropped' \in BOOLEAN /\ (dropped => dropped') /\ (step[j] = "send" => dropped')
      BY <1>3, <2>2, Zenon
    <2>4. b \in {"waiting", "failed"}
      OBVIOUS
    <2>. HIDE DEF b
    <2>5. NotificationJobsTypeOK'
      BY <1>1, <1>2, <1>3, <2>1, <2>3, <2>4 DEF NotificationJobsTypeOK, Ended
    <2>. QED
      BY <2>1, <2>3, <2>4, <2>5, QuietJob
  <1>14. ASSUME NEW j \in Jobs, RetryJob(j)
         PROVE  JobInv'
    <2>1. /\ job' = [job EXCEPT ![j] = "waiting"] /\ job[j] = "failed" /\ retries < MaxRetries
          /\ retries' = retries + 1
          /\ UNCHANGED <<step, failures, stalled, pushLock, inbox, echoes, alerts, dropped, lapses>>
      BY <1>14 DEF RetryJob, effects
    <2>2. step' = [step EXCEPT ![j] = "idle"] /\ step[j] # "send"
      BY <1>1, <1>4, <2>1
    <2>3. retries' \in 0 .. MaxRetries
      BY <1>2, <2>1, JobsAssumption
    <2>4. NotificationJobsTypeOK'
      BY <1>1, <1>2, <1>3, <2>1, <2>3 DEF NotificationJobsTypeOK
    <2>. QED
      BY <2>1, <2>2, <2>4, QuietJob
  <1>15. ASSUME LockLapses
         PROVE  JobInv'
    <2>1. /\ pushLock /\ pushLock' = FALSE /\ lapses < MaxLapses /\ lapses' = lapses + 1
          /\ UNCHANGED <<job, step, failures, stalled, inbox, echoes, alerts, dropped, retries>>
      BY <1>15 DEF LockLapses, queue, effects
    <2>2. lapses' \in 0 .. MaxLapses
      BY <1>2, <2>1, JobsAssumption
    <2>3. pushLock' \in BOOLEAN /\ dropped' \in BOOLEAN
      BY <1>3, <2>1
    <2>4. NotificationJobsTypeOK'
      BY <1>1, <1>2, <2>1, <2>2, <2>3 DEF NotificationJobsTypeOK
    <2>5. Sending' = Sending
      BY <2>1 DEF Sending
    <2>6. LockedPushes'
      <3>1. alerts + Cardinality(Sending) <= 1 + lapses
        BY <2>1 DEF JobInv, LockedPushes
      <3>2. alerts + Cardinality(Sending) <= 0 + lapses'
        BY <1>2, <2>1, <3>1
      <3>. QED
        BY <2>1, <2>5, <3>2 DEF LockedPushes
    <2>. QED
      BY <2>1, <2>4, <2>6 DEF JobInv, OnlyActive, LockMeansPush
  <1>. QED
    BY <1>5, <1>6, <1>7, <1>8, <1>9, <1>10, <1>11, <1>12, <1>13, <1>14, <1>15
       DEF NotificationJobsNext, Work

\* However often Bull tries the jobs of an event, and whoever dies, the worker pushes it once
\* for each life of push:idem:<key>, and a job that completed did not lose its push.
THEOREM AlwaysAlertedOnce == NotificationJobsSpec => []AlertedOnce
  <1>1. ASSUME JobInv PROVE AlertedOnce
    <2>1. IsFiniteSet(Sending) /\ alerts \in Nat /\ lapses \in Nat
      BY <1>1, JobsAssumption, FS_Subset DEF JobInv, NotificationJobsTypeOK, Sending
    <2>2. Cardinality(Sending) \in Nat
      BY <2>1, FS_CardinalityType
    <2>3. alerts + Cardinality(Sending) <= 1 + lapses \/ alerts + Cardinality(Sending) <= 0 + lapses
      BY <1>1 DEF JobInv, LockedPushes
    <2>4. alerts <= 1 + lapses
      BY <2>1, <2>2, <2>3
    <2>. QED
      BY <1>1, <2>4 DEF JobInv, LockMeansPush, AlertedOnce
  <1>2. JobInv => AlertedOnce
    BY <1>1
  <1>. QED
    BY <1>2, JobStart, JobStep, PTL DEF NotificationJobsSpec

(***************************************************************************)
(* A support ticket.                                                       *)
(***************************************************************************)

RequestRecords == [do : {"idle", "read", "write", "assign"}, to : TicketStatuses]

\* closedAt tells whether the ticket is concluded, but for an assignment after the end.
ClosedTells == closedAt <=> ticket \in Concluded \/ reassigned

\* Before the ticket there is nothing to ask for.
NothingYet ==
    creating = "insert" =>
        ticket = "none" /\ ~reassigned /\ \A a \in Agents : request[a] = NoRequest

\* While no two changes overlap, what one of them is about to write is still a legal move.
OneRequest ==
    ~collided =>
        /\ \A a, b \in Agents : request[a] # NoRequest /\ request[b] # NoRequest => a = b
        /\ \A a \in Agents : request[a].do = "write" => <<ticket, request[a].to>> \in TicketMoves

TicketInv == SupportTypeOK /\ ClosedTells /\ NothingYet /\ OneRequest

LEMMA NoRequestFits == NoRequest \in RequestRecords /\ NoRequest.do = "idle"
  BY DEF NoRequest, RequestRecords, TicketStatuses

LEMMA TicketStart == SupportInit => TicketInv
  <1>. SUFFICES ASSUME SupportInit PROVE TicketInv
    OBVIOUS
  <1>1. SupportTypeOK
    <2>1. closedAt \in BOOLEAN /\ collided \in BOOLEAN /\ reassigned \in BOOLEAN
      BY DEF SupportInit
    <2>2. request \in [Agents -> RequestRecords]
      BY NoRequestFits DEF SupportInit
    <2>3. ticket = "none" /\ creating = "insert" /\ sla = "none" /\ changes = 0
      BY DEF SupportInit
    <2>. QED
      BY <2>1, <2>2, <2>3 DEF SupportTypeOK, RequestRecords
  <1>2. ClosedTells
    BY DEF SupportInit, ClosedTells, Concluded
  <1>3. NothingYet /\ OneRequest
    BY NoRequestFits DEF SupportInit, NothingYet, OneRequest
  <1>. QED
    BY <1>1, <1>2, <1>3 DEF TicketInv

\* A request is begun: the others are done, or the changes overlap from here on.
LEMMA RequestBegins ==
  ASSUME TicketInv, NEW a \in Agents, NEW r \in RequestRecords, r.do \in {"read", "assign"},
         ticket # "none", Asks(a, r), UNCHANGED <<ticket, closedAt, creating, sla, reassigned>>
  PROVE  TicketInv'
  <1>1. request \in [Agents -> RequestRecords] /\ changes \in Nat
    BY DEF TicketInv, SupportTypeOK, RequestRecords
  <1>2. /\ request' = [request EXCEPT ![a] = r] /\ changes' = changes + 1
        /\ request[a] = NoRequest
    BY DEF Asks
  <1>3. collided' = (collided \/ Requesting # {})
    BY DEF Asks
  <1>4. collided' \in BOOLEAN /\ closedAt' \in BOOLEAN /\ reassigned' \in BOOLEAN
    BY <1>3, Zenon DEF TicketInv, SupportTypeOK
  <1>5. SupportTypeOK'
    <2>1. request' \in [Agents -> RequestRecords] /\ changes' \in Nat
      BY <1>1, <1>2
    <2>2. ticket' \in TicketStatuses \cup {"none"} /\ sla' \in {"none", "waiting"}
          /\ creating' \in {"insert", "notify", "schedule", "done"}
      BY DEF TicketInv, SupportTypeOK
    <2>. QED
      BY <1>4, <2>1, <2>2 DEF SupportTypeOK, RequestRecords
  <1>6. ClosedTells' /\ NothingYet'
    BY DEF TicketInv, ClosedTells, NothingYet
  <1>7. OneRequest'
    <2>1. ~collided' => \A b \in Agents : request[b] = NoRequest
      <3>1. ~collided' => Requesting = {}
        BY <1>3, Zenon
      <3>. QED
        BY <3>1 DEF Requesting
    <2>2. request'[a] = r /\ \A b \in Agents \ {a} : request'[b] = request[b]
      BY <1>1, <1>2
    <2>. QED
      BY <2>1, <2>2, NoRequestFits DEF OneRequest
  <1>. QED
    BY <1>5, <1>6, <1>7 DEF TicketInv

\* A request is done, and nothing else moves but what it wrote.
LEMMA RequestEnds ==
  ASSUME TicketInv, NEW a \in Agents, request[a] # NoRequest,
         request' = [request EXCEPT ![a] = NoRequest],
         ticket' \in TicketStatuses \cup {"none"}, closedAt' \in BOOLEAN, reassigned' \in BOOLEAN,
         ClosedTells', UNCHANGED <<creating, sla, changes, collided>>
  PROVE  TicketInv'
  <1>1. request \in [Agents -> RequestRecords]
    BY DEF TicketInv, SupportTypeOK, RequestRecords
  <1>2. request'[a] = NoRequest /\ \A b \in Agents \ {a} : request'[b] = request[b]
    BY <1>1
  <1>3. SupportTypeOK'
    <2>1. request' \in [Agents -> RequestRecords]
      BY <1>1, NoRequestFits
    <2>2. collided' \in BOOLEAN
      BY DEF TicketInv, SupportTypeOK
    <2>3. /\ creating' \in {"insert", "notify", "schedule", "done"} /\ sla' \in {"none", "waiting"}
          /\ changes' \in Nat
      BY DEF TicketInv, SupportTypeOK
    <2>. QED
      BY <2>1, <2>2, <2>3 DEF SupportTypeOK, RequestRecords
  <1>4. creating' # "insert"
    BY DEF TicketInv, NothingYet
  <1>5. OneRequest'
    <2>1. ~collided => \A b \in Agents : request'[b] = NoRequest
      BY <1>2 DEF TicketInv, OneRequest
    <2>. QED
      BY <2>1, NoRequestFits DEF OneRequest
  <1>. QED
    BY <1>3, <1>4, <1>5 DEF TicketInv, NothingYet

LEMMA TicketStep ==
  ASSUME TicketInv, [SupportNext]_ticketVars
  PROVE  TicketInv'
  <1>1. request \in [Agents -> RequestRecords]
    BY DEF TicketInv, SupportTypeOK, RequestRecords
  <1>2. ticket \in TicketStatuses \cup {"none"} /\ closedAt \in BOOLEAN /\ reassigned \in BOOLEAN
    BY DEF TicketInv, SupportTypeOK
  <1>3. CASE UNCHANGED ticketVars
    BY <1>3 DEF ticketVars, TicketInv, SupportTypeOK, ClosedTells, NothingYet, OneRequest
  <1>4. CASE InsertTicket
    <2>1. /\ creating = "insert" /\ ticket' = "OPEN" /\ creating' = "notify"
          /\ UNCHANGED <<closedAt, sla, request, changes, collided, reassigned>>
      BY <1>4 DEF InsertTicket
    <2>2. ticket = "none" /\ ~reassigned /\ \A a \in Agents : request[a] = NoRequest
      BY <2>1 DEF TicketInv, NothingYet
    <2>3. ~closedAt
      BY <2>2 DEF TicketInv, ClosedTells, Concluded
    <2>4. SupportTypeOK'
      <3>1. closedAt' \in BOOLEAN /\ collided' \in BOOLEAN /\ reassigned' \in BOOLEAN
        BY <2>1 DEF TicketInv, SupportTypeOK
      <3>. QED
        BY <2>1, <3>1 DEF TicketInv, SupportTypeOK, TicketStatuses
    <2>5. ClosedTells'
      BY <2>1, <2>2, <2>3 DEF ClosedTells, Concluded
    <2>6. NothingYet' /\ OneRequest'
      BY <2>1, <2>2, NoRequestFits DEF NothingYet, OneRequest
    <2>. QED
      BY <2>4, <2>5, <2>6 DEF TicketInv
  <1>5. CASE NotifyAdmins \/ ScheduleCheck \/ CreateBreaksOff
    <2>1. /\ creating' \in {"schedule", "done"} /\ sla' \in {sla, "waiting"}
          /\ UNCHANGED <<ticket, closedAt, request, changes, collided, reassigned>>
      BY <1>5 DEF NotifyAdmins, ScheduleCheck, CreateBreaksOff
    <2>2. SupportTypeOK'
      <3>1. closedAt' \in BOOLEAN /\ collided' \in BOOLEAN /\ reassigned' \in BOOLEAN
        BY <2>1 DEF TicketInv, SupportTypeOK
      <3>. QED
        BY <2>1, <3>1 DEF TicketInv, SupportTypeOK
    <2>. QED
      BY <2>1, <2>2 DEF TicketInv, ClosedTells, NothingYet, OneRequest
  <1>6. ASSUME NEW a \in Agents, AddMessage(a)
        PROVE  TicketInv'
    <2>. DEFINE r == [do |-> "read", to |-> AnswerTo(ticket)]
    <2>1. ticket # "none" /\ AnswerTo(ticket) \in TicketStatuses
      BY <1>6 DEF AddMessage, AnswerTo, TicketStatuses
    <2>2. r \in RequestRecords /\ r.do \in {"read", "assign"}
      BY <2>1 DEF RequestRecords
    <2>3. Asks(a, r) /\ UNCHANGED <<ticket, closedAt, creating, sla, reassigned>>
      BY <1>6 DEF AddMessage
    <2>. QED
      BY <2>1, <2>2, <2>3, RequestBegins
  <1>7. ASSUME NEW a \in Agents, NEW s \in TicketStatuses, AskStatus(a, s)
        PROVE  TicketInv'
    <2>. DEFINE r == [do |-> "read", to |-> s]
    <2>1. r \in RequestRecords /\ r.do \in {"read", "assign"}
      BY DEF RequestRecords
    <2>2. Asks(a, r) /\ ticket # "none" /\ UNCHANGED <<ticket, closedAt, creating, sla, reassigned>>
      BY <1>7 DEF AskStatus
    <2>. QED
      BY <2>1, <2>2, RequestBegins
  <1>8. ASSUME NEW a \in Agents, Assign(a)
        PROVE  TicketInv'
    <2>. DEFINE r == [do |-> "assign", to |-> "IN_PROGRESS"]
    <2>1. r \in RequestRecords /\ r.do \in {"read", "assign"}
      BY DEF RequestRecords, TicketStatuses
    <2>2. Asks(a, r) /\ ticket # "none" /\ UNCHANGED <<ticket, closedAt, creating, sla, reassigned>>
      BY <1>8 DEF Assign
    <2>. QED
      BY <2>1, <2>2, RequestBegins
  \* What the state machine allows for the ticket as it is will be written.
  <1>9. ASSUME NEW a \in Agents, ReadTicket(a), CanTransition(a)
        PROVE  TicketInv'
    <2>. DEFINE r == [request[a] EXCEPT !.do = "write"]
    <2>1. request' = [request EXCEPT ![a] = r] /\ request[a].do = "read"
          /\ UNCHANGED <<ticket, closedAt, creating, sla, changes, collided, reassigned>>
      BY <1>1, <1>9 DEF ReadTicket
    <2>2. r \in RequestRecords /\ r.do = "write" /\ r.to = request[a].to
      BY <1>1 DEF RequestRecords
    <2>3. request'[a] = r /\ \A b \in Agents \ {a} : request'[b] = request[b]
      BY <1>1, <2>1
    <2>4. request[a] # NoRequest
      BY <2>1, NoRequestFits
    <2>5. SupportTypeOK'
      <3>1. closedAt' \in BOOLEAN /\ collided' \in BOOLEAN /\ reassigned' \in BOOLEAN
        BY <2>1 DEF TicketInv, SupportTypeOK
      <3>2. request' \in [Agents -> RequestRecords]
        BY <1>1, <2>1, <2>2
      <3>. QED
        BY <2>1, <3>1, <3>2 DEF TicketInv, SupportTypeOK, RequestRecords
    <2>6. OneRequest'
      <3>1. <<ticket, request[a].to>> \in TicketMoves
        BY <1>9 DEF CanTransition
      <3>2. ~collided => \A b \in Agents \ {a} : request[b] = NoRequest
        BY <2>4 DEF TicketInv, OneRequest
      <3>. QED
        BY <2>1, <2>2, <2>3, <3>1, <3>2, NoRequestFits DEF OneRequest
    <2>7. creating # "insert"
      BY <2>4 DEF TicketInv, NothingYet
    <2>. QED
      BY <2>1, <2>5, <2>6, <2>7 DEF TicketInv, ClosedTells, NothingYet
  <1>10. ASSUME NEW a \in Agents, ReadTicket(a), ~CanTransition(a)
         PROVE  TicketInv'
    <2>1. /\ request' = [request EXCEPT ![a] = NoRequest] /\ request[a].do = "read"
          /\ UNCHANGED <<ticket, closedAt, creating, sla, changes, collided, reassigned>>
      BY <1>10 DEF ReadTicket
    <2>2. request[a] # NoRequest /\ ClosedTells'
      BY <2>1, NoRequestFits DEF TicketInv, ClosedTells
    <2>. QED
      BY <1>2, <2>1, <2>2, RequestEnds
  <1>11. ASSUME NEW a \in Agents, WriteTicket(a)
         PROVE  TicketInv'
    <2>1. /\ request' = [request EXCEPT ![a] = NoRequest] /\ request[a].do = "write"
          /\ ticket' = request[a].to /\ reassigned' = FALSE
          /\ UNCHANGED <<creating, sla, changes, collided>>
      BY <1>11 DEF WriteTicket
    <2>2. closedAt' = (request[a].to \in Concluded)
      BY <1>11 DEF WriteTicket, Concludes
    <2>3. closedAt' \in BOOLEAN /\ reassigned' \in BOOLEAN /\ ClosedTells'
      <3>1. closedAt' \in BOOLEAN
        BY <2>2
      <3>2. closedAt' <=> ticket' \in Concluded
        BY <2>1, <2>2
      <3>3. ~reassigned' /\ reassigned' \in BOOLEAN
        BY <2>1
      <3>. QED
        BY <3>1, <3>2, <3>3 DEF ClosedTells
    <2>4. request[a] # NoRequest /\ ticket' \in TicketStatuses
      BY <1>1, <2>1, NoRequestFits DEF RequestRecords
    <2>. QED
      BY <2>1, <2>3, <2>4, RequestEnds
  <1>12. ASSUME NEW a \in Agents, WriteAssigned(a)
         PROVE  TicketInv'
    <2>1. /\ request' = [request EXCEPT ![a] = NoRequest] /\ request[a].do = "assign"
          /\ ticket' = "IN_PROGRESS" /\ reassigned' = closedAt
          /\ UNCHANGED <<closedAt, creating, sla, changes, collided>>
      BY <1>12 DEF WriteAssigned
    <2>2. closedAt' \in BOOLEAN /\ reassigned' \in BOOLEAN /\ ClosedTells'
      BY <1>2, <2>1 DEF ClosedTells, Concluded
    <2>3. request[a] # NoRequest /\ ticket' \in TicketStatuses
      BY <2>1, NoRequestFits DEF TicketStatuses
    <2>. QED
      BY <2>1, <2>2, <2>3, RequestEnds
  <1>13. ASSUME NEW a \in Agents, RequestFails(a)
         PROVE  TicketInv'
    <2>1. /\ request' = [request EXCEPT ![a] = NoRequest] /\ request[a] # NoRequest
          /\ UNCHANGED <<ticket, closedAt, creating, sla, changes, collided, reassigned>>
      BY <1>13 DEF RequestFails
    <2>2. ClosedTells'
      BY <2>1 DEF TicketInv, ClosedTells
    <2>. QED
      BY <1>2, <2>1, <2>2, RequestEnds
  <1>. QED
    BY <1>3, <1>4, <1>5, <1>6, <1>7, <1>8, <1>9, <1>10, <1>11, <1>12, <1>13
       DEF SupportNext, CreateTicket

\* A ticket moves only as SupportStateMachine allows or because assignTicket says so, unless
\* changes overlap; and closedAt tells whether it is concluded, unless it was assigned after.
THEOREM TicketMovesInOrder == SupportSpec => MovesInOrder
  <1>. DEFINE Orderly ==
         /\ ~collided /\ ticket \notin {"none", ticket'} =>
                <<ticket, ticket'>> \in TicketMoves \/ Assigned
         /\ closedAt' <=> ticket' \in Concluded \/ reassigned'
  <1>1. ASSUME TicketInv, [SupportNext]_ticketVars, TicketInv'
        PROVE  [Orderly]_ticketVars
    <2>1. closedAt' <=> ticket' \in Concluded \/ reassigned'
      BY <1>1 DEF TicketInv, ClosedTells
    <2>2. ASSUME ~collided, ticket \notin {"none", ticket'}
          PROVE  <<ticket, ticket'>> \in TicketMoves \/ Assigned
      <3>1. \E a \in Agents : WriteTicket(a) \/ WriteAssigned(a)
        BY <1>1, <2>2 DEF SupportNext, CreateTicket, InsertTicket, NotifyAdmins, ScheduleCheck,
             CreateBreaksOff, AddMessage, AskStatus, ReadTicket, Assign, RequestFails,
             TicketInv, NothingYet, ticketVars
      <3>2. PICK a \in Agents : WriteTicket(a) \/ WriteAssigned(a)
        BY <3>1
      <3>3. CASE WriteTicket(a)
        BY <1>1, <2>2, <3>3 DEF WriteTicket, TicketInv, OneRequest
      <3>4. CASE WriteAssigned(a)
        BY <3>4 DEF WriteAssigned, Assigned
      <3>. QED
        BY <3>2, <3>3, <3>4
    <2>. QED
      BY <2>1, <2>2
  <1>2. TicketInv /\ [SupportNext]_ticketVars /\ TicketInv' => [Orderly]_ticketVars
    BY <1>1
  <1>3. SupportSpec => []TicketInv
    BY TicketStart, TicketStep, PTL DEF SupportSpec
  <1>. QED
    BY <1>2, <1>3, PTL DEF SupportSpec, MovesInOrder

(***************************************************************************)
(* The messages together.                                                  *)
(***************************************************************************)

MessagesInv == IInv /\ JobInv /\ TicketInv

\* The three keep their invariants side by side, and with them the types of all variables.
THEOREM MessagesTypeCorrect == MessagesSpec => []MessagesTypeOK
  <1>1. MessagesInit => MessagesInv
    BY IInvInit, JobStart, TicketStart DEF MessagesInit, MessagesInv
  <1>2. ASSUME MessagesInv, [MessagesNext]_messageVars
        PROVE  MessagesInv'
    <2>1. [RemindersNext]_reminderVars
      BY <1>2 DEF MessagesNext, messageVars
    <2>2. [NotificationJobsNext]_jobVars
      BY <1>2 DEF MessagesNext, messageVars
    <2>3. [SupportNext]_ticketVars
      BY <1>2 DEF MessagesNext, messageVars
    <2>. QED
      BY <1>2, <2>1, <2>2, <2>3, IInvStep, JobStep, TicketStep DEF MessagesInv
  <1>3. MessagesInv /\ [MessagesNext]_messageVars => MessagesInv'
    BY <1>2
  <1>4. MessagesInv => MessagesTypeOK
    BY DEF MessagesInv, IInv, JobInv, TicketInv, MessagesTypeOK
  <1>. QED
    BY <1>1, <1>3, <1>4, PTL DEF MessagesSpec
=============================================================================
