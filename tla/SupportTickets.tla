------------------------------ MODULE SupportTickets ------------------------------
(***************************************************************************)
(* One support ticket: SupportService and SupportStateMachine.  A change   *)
(* reads the ticket, asks the state machine and writes by id; an           *)
(* assignment asks nobody.  The check of the SLA is put into the queue     *)
(* "support-escalations", which no worker of the build takes jobs from     *)
(* (its processor is one of @nestjs/bullmq, the registered module one of   *)
(* @nestjs/bull): the job waits.                                           *)
(***************************************************************************)
EXTENDS Integers

CONSTANTS
    Agents,         \* requests in flight together
    MaxChanges      \* bound: changes of the ticket

ASSUME SupportAssumption == MaxChanges \in Nat

TicketStatuses == {"OPEN", "IN_PROGRESS", "WAITING_USER", "RESOLVED", "CLOSED"}
Concluded      == {"RESOLVED", "CLOSED"}

\* SupportStateMachine.
TicketMoves ==
    {<<"OPEN", "IN_PROGRESS">>, <<"OPEN", "CLOSED">>, <<"IN_PROGRESS", "WAITING_USER">>,
     <<"IN_PROGRESS", "RESOLVED">>, <<"WAITING_USER", "IN_PROGRESS">>,
     <<"WAITING_USER", "CLOSED">>, <<"RESOLVED", "CLOSED">>, <<"RESOLVED", "IN_PROGRESS">>}

VARIABLES
    ticket,         \* its status, "none" before it is created
    closedAt,       \* is closedAt set
    creating,       \* what createTicket does next
    sla,            \* the job check-sla: none, waiting
    request,        \* what each request does next: a status, with the one it read
    changes,        \* changes begun
    collided,       \* two changes of the ticket were in flight together
    reassigned      \* assigned while closedAt was set, and not changed since

ticketVars == <<ticket, closedAt, creating, sla, request, changes, collided, reassigned>>

NoRequest == [do |-> "idle", to |-> "OPEN"]
Requesting == {a \in Agents : request[a] # NoRequest}
Asks(a, record) ==
    /\ request[a] = NoRequest
    /\ changes < MaxChanges /\ changes' = changes + 1
    /\ request' = [request EXCEPT ![a] = record]
    /\ collided' = (collided \/ Requesting # {})

SupportInit ==
    /\ ticket = "none" /\ closedAt = FALSE /\ creating = "insert" /\ sla = "none"
    /\ request = [a \in Agents |-> NoRequest] /\ changes = 0
    /\ collided = FALSE /\ reassigned = FALSE
-----------------------------------------------------------------------------
(***************************************************************************)
(* createTicket; the limit of three an hour is about other tickets.        *)
(***************************************************************************)

InsertTicket ==
    /\ creating = "insert"
    /\ ticket' = "OPEN" /\ creating' = "notify"
    /\ UNCHANGED <<closedAt, sla, request, changes, collided, reassigned>>

NotifyAdmins ==
    /\ creating = "notify" /\ creating' = "schedule"
    /\ UNCHANGED <<ticket, closedAt, sla, request, changes, collided, reassigned>>

ScheduleCheck ==
    /\ creating = "schedule"
    /\ sla' = "waiting" /\ creating' = "done"
    /\ UNCHANGED <<ticket, closedAt, request, changes, collided, reassigned>>

\* A statement fails or the process dies: the ticket stays without its check.
CreateBreaksOff ==
    /\ creating \in {"notify", "schedule"}
    /\ creating' = "done"
    /\ UNCHANGED <<ticket, closedAt, sla, request, changes, collided, reassigned>>
-----------------------------------------------------------------------------
(***************************************************************************)
(* updateTicketStatus, asked for by an administrator or by                 *)
(* addMessageToTicket, which decides on a ticket it has read before.       *)
(***************************************************************************)

AnswerTo(status) ==
    IF status \in {"WAITING_USER", "RESOLVED"} THEN "IN_PROGRESS" ELSE "none"

AddMessage(a) ==
    /\ AnswerTo(ticket) # "none"
    /\ Asks(a, [do |-> "read", to |-> AnswerTo(ticket)])
    /\ UNCHANGED <<ticket, closedAt, creating, sla, reassigned>>

AskStatus(a, s) ==
    /\ ticket # "none"
    /\ Asks(a, [do |-> "read", to |-> s])
    /\ UNCHANGED <<ticket, closedAt, creating, sla, reassigned>>

CanTransition(a) == <<ticket, request[a].to>> \in TicketMoves

ReadTicket(a) ==
    /\ request[a].do = "read"
    /\ request' = [request EXCEPT ![a] =
                     IF CanTransition(a) THEN [@ EXCEPT !.do = "write"] ELSE NoRequest]
    /\ UNCHANGED <<ticket, closedAt, creating, sla, changes, collided, reassigned>>

ClosesOnly(s) == s = "CLOSED"
Concludes(s)  == s \in Concluded

WriteTicket(a) ==
    /\ request[a].do = "write"
    /\ ticket' = request[a].to /\ closedAt' = Concludes(request[a].to)
    /\ reassigned' = FALSE
    /\ request' = [request EXCEPT ![a] = NoRequest]
    /\ UNCHANGED <<creating, sla, changes, collided>>

\* assignTicket: IN_PROGRESS from any status; closedAt is not touched.
Assign(a) ==
    /\ ticket # "none"
    /\ Asks(a, [do |-> "assign", to |-> "IN_PROGRESS"])
    /\ UNCHANGED <<ticket, closedAt, creating, sla, reassigned>>

WriteAssigned(a) ==
    /\ request[a].do = "assign"
    /\ ticket' = "IN_PROGRESS" /\ reassigned' = closedAt
    /\ request' = [request EXCEPT ![a] = NoRequest]
    /\ UNCHANGED <<closedAt, creating, sla, changes, collided>>

RequestFails(a) ==
    /\ request[a] # NoRequest /\ request' = [request EXCEPT ![a] = NoRequest]
    /\ UNCHANGED <<ticket, closedAt, creating, sla, changes, collided, reassigned>>
-----------------------------------------------------------------------------
CreateTicket == InsertTicket \/ NotifyAdmins \/ ScheduleCheck

SupportNext ==
    \/ CreateTicket \/ CreateBreaksOff
    \/ \E a \in Agents :
          \/ AddMessage(a) \/ ReadTicket(a) \/ WriteTicket(a)
          \/ Assign(a) \/ WriteAssigned(a) \/ RequestFails(a)
          \/ \E s \in TicketStatuses : AskStatus(a, s)

SupportSpec == SupportInit /\ [][SupportNext]_ticketVars
-----------------------------------------------------------------------------
\* Every variable keeps its domain.
SupportTypeOK ==
    /\ ticket \in TicketStatuses \cup {"none"} /\ closedAt \in BOOLEAN
    /\ creating \in {"insert", "notify", "schedule", "done"}
    /\ sla \in {"none", "waiting"}
    /\ request \in [Agents -> [do : {"idle", "read", "write", "assign"}, to : TicketStatuses]]
    /\ changes \in Nat /\ collided \in BOOLEAN /\ reassigned \in BOOLEAN

\* Unless changes overlap, a ticket moves only as the state machine allows, or because
\* it is assigned; and closedAt tells whether it is concluded, through reopening and
\* closing again, unless it was assigned after the end.
Assigned == ticket' = "IN_PROGRESS" /\ \E a \in Agents : request[a].do = "assign"

MovesInOrder ==
    [][/\ ~collided /\ ticket \notin {"none", ticket'} =>
              <<ticket, ticket'>> \in TicketMoves \/ Assigned
       /\ closedAt' <=> ticket' \in Concluded \/ reassigned']_ticketVars
=============================================================================
