----------------------------- MODULE SlotReservation -----------------------------
(***************************************************************************)
(* How a client reserves a slot of one provider's calendar, in one week:   *)
(* BookingsService.create.  A call asks the idempotency cache, takes the   *)
(* creation lock of the client and the start, then the weekly lock of the  *)
(* client, looks for an overlapping booking, counts the client's week,     *)
(* inserts the booking, releases the weekly lock, charges by PIX and fills *)
(* the cache; the creation lock goes last.  Each of these is a step of its *)
(* own.  Bookings change status under it.                                  *)
(***************************************************************************)
EXTENDS Integers, FiniteSets, BookingStatus

CONSTANTS
    Handlers,       \* calls of create, and stale status updates, in flight together
    NoHandler,      \* "nobody holds the lock"
    Clients,        \* clients of the provider
    Starts,         \* when a booking may start
    Duration,       \* how long a booking lasts, in the unit of Starts
    Rows,           \* bound: booking rows
    WeeklyLimit,    \* WEEKLY_BOOKING_LIMIT
    Asked,          \* pairs <<status, new status>> that callers of updateStatus ask for
    Free, Gone,     \* of the abstract agenda
    MaxFaults,      \* bound: crashes, aborted transactions, failed charges
    MaxStalls,      \* bound: locks that expire under a running holder
    MaxStale        \* bound: status updates written after others have intervened

ASSUME HandlersAssumption == NoHandler \notin Handlers
ASSUME SlotsAssumption ==
    /\ Clients # {} /\ Rows # {} /\ Starts # {} /\ Starts \subseteq Int
    /\ Duration \in Nat \ {0}
    /\ Free \notin Starts /\ Gone \notin Starts /\ Free # Gone
\* Callers ask for what the table of transitions offers.
ASSUME OfferedAssumption ==
    Asked \subseteq {p \in Statuses \X Statuses : p[2] \in Transitions[p[1]]}
ASSUME BoundsAssumption ==
    /\ WeeklyLimit \in Nat /\ MaxFaults \in Nat /\ MaxStalls \in Nat /\ MaxStale \in Nat

VARIABLES
    status,         \* Booking.status of each row, "NONE" when there is no row
    who, start,     \* Booking.clientId and scheduledStart of each row
    creation,       \* holder of booking:creation:client:provider:date:time
    weekly,         \* holder of booking:weekly:client:provider:week
    cached,         \* requests whose idempotency key the cache knows
    pc, seen,       \* what each handler does next and what it works on
    faults, stalls, stale

vars == <<status, who, start, creation, weekly, cached, pc, seen, faults, stalls, stale>>
rows   == <<status, who, start>>
locks  == <<creation, weekly>>
budget == <<faults, stalls, stale>>

Request == [client : Clients, start : Starts]
Call    == [client : Clients, start : Starts, keyed : BOOLEAN, row : Rows, to : Statuses]
Blank   == [client |-> CHOOSE c \in Clients : TRUE, start |-> CHOOSE s \in Starts : TRUE,
            keyed |-> FALSE, row |-> CHOOSE r \in Rows : TRUE, to |-> "CANCELED"]

WeeklySteps == {"check", "count", "insert", "booked", "release"}
CreateSteps == WeeklySteps \cup {"weekly", "charge", "cache", "unlock"}
Steps       == CreateSteps \cup {"idle", "lock", "write"}

Goto(h, step)  == pc' = [pc EXCEPT ![h] = step]
Return(h)      == Goto(h, "idle") /\ seen' = [seen EXCEPT ![h] = Blank]
Fault          == faults < MaxFaults /\ faults' = faults + 1
RequestOf(h)   == [client |-> seen[h].client, start |-> seen[h].start]

Clash == {p \in Starts \X Starts : p[1] < p[2] + Duration /\ p[2] < p[1] + Duration}

Active(r) == status[r] \in BlockedStatuses

Init ==
    /\ status = [r \in Rows |-> "NONE"]
    /\ who = [r \in Rows |-> Blank.client] /\ start = [r \in Rows |-> Blank.start]
    /\ creation = [q \in Request |-> NoHandler]
    /\ weekly = [c \in Clients |-> NoHandler]
    /\ cached = {}
    /\ pc = [h \in Handlers |-> "idle"] /\ seen = [h \in Handlers |-> Blank]
    /\ faults = 0 /\ stalls = 0 /\ stale = 0
-----------------------------------------------------------------------------
(***************************************************************************)
(* create.                                                                 *)
(***************************************************************************)

\* A request whose key is cached gets the cached booking and stops here.
Begin(h) ==
    /\ pc[h] = "idle"
    /\ \E q \in Request, keyed \in BOOLEAN :
          /\ keyed => q \notin cached
          /\ seen' = [seen EXCEPT ![h].client = q.client, ![h].start = q.start,
                                  ![h].keyed = keyed]
    /\ Goto(h, "lock")
    /\ UNCHANGED <<rows, locks, cached, budget>>

NobodyChecks(h)  == TRUE
CreationFree(h)  == creation[RequestOf(h)] = NoHandler

\* One attempt: a busy lock is answered with a conflict.
LockCreation(h) ==
    /\ pc[h] = "lock"
    /\ IF CreationFree(h)
         THEN /\ creation' = [creation EXCEPT ![RequestOf(h)] = h]
              /\ Goto(h, "weekly")
              /\ UNCHANGED seen
         ELSE /\ Return(h)
              /\ UNCHANGED creation
    /\ UNCHANGED <<rows, weekly, cached, budget>>

\* Terms not accepted, provider not approved, quote expired, price mismatch...
Refused(h) ==
    /\ pc[h] = "weekly"
    /\ Goto(h, "unlock")
    /\ UNCHANGED <<rows, locks, cached, seen, budget>>

NoWeekly(h)   == TRUE
WeeklyFree(h) == weekly[seen[h].client] = NoHandler

LockWeek(h) ==
    /\ pc[h] = "weekly"
    /\ IF WeeklyFree(h)
         THEN /\ weekly' = [weekly EXCEPT ![seen[h].client] = h]
              /\ Goto(h, "check")
         ELSE /\ Goto(h, "unlock")
              /\ UNCHANGED weekly
    /\ UNCHANGED <<rows, creation, cached, seen, budget>>

SlotIsFree(s) == \A r \in Rows : Active(r) => <<start[r], s>> \notin Clash

CheckOverlap(h) ==
    /\ pc[h] = "check"
    /\ Goto(h, IF SlotIsFree(seen[h].start) THEN "count" ELSE "release")
    /\ UNCHANGED <<rows, locks, cached, seen, budget>>

\* countWeeklyBookings: what is only waiting for payment is not counted.
WeekOf(c) == {r \in Rows : status[r] \in CountableStatuses /\ who[r] = c}

CountWeek(h) ==
    /\ pc[h] = "count"
    /\ Goto(h, IF Cardinality(WeekOf(seen[h].client)) < WeeklyLimit
                 THEN "insert" ELSE "release")
    /\ UNCHANGED <<rows, locks, cached, seen, budget>>

Insert(h) ==
    /\ pc[h] = "insert"
    /\ \E r \in Rows :
          /\ status[r] = "NONE"
          /\ status' = [status EXCEPT ![r] = "PENDING_PAYMENT"]
          /\ who'    = [who EXCEPT ![r] = seen[h].client]
          /\ start'  = [start EXCEPT ![r] = seen[h].start]
          /\ seen'   = [seen EXCEPT ![h].row = r]
    /\ Goto(h, "booked")
    /\ UNCHANGED <<locks, cached, budget>>

\* The transaction exceeds its time limit or the database refuses it.
Abort(h) ==
    /\ pc[h] = "insert"
    /\ Fault
    /\ Goto(h, "release")
    /\ UNCHANGED <<rows, locks, cached, seen, stalls, stale>>

\* finally: after a commit, a conflict, a full week or an abort.
ReleaseWeek(h) ==
    /\ pc[h] \in {"booked", "release"}
    /\ weekly' = [weekly EXCEPT ![seen[h].client] = IF @ = h THEN NoHandler ELSE @]
    /\ Goto(h, IF pc[h] = "booked" THEN "charge" ELSE "unlock")
    /\ UNCHANGED <<rows, creation, cached, seen, budget>>

\* createPixCharge; if it fails the client gets an error and the booking stays.
Charge(h) ==
    /\ pc[h] = "charge"
    /\ \/ Goto(h, "cache") /\ UNCHANGED faults
       \/ Goto(h, "unlock") /\ Fault
    /\ UNCHANGED <<rows, locks, cached, seen, stalls, stale>>

Remember(h) ==
    /\ pc[h] = "cache"
    /\ cached' = IF seen[h].keyed THEN cached \cup {RequestOf(h)} ELSE cached
    /\ Goto(h, "unlock")
    /\ UNCHANGED <<rows, locks, seen, budget>>

Unlock(h) ==
    /\ pc[h] = "unlock"
    /\ creation' = [creation EXCEPT ![RequestOf(h)] = IF @ = h THEN NoHandler ELSE @]
    /\ Return(h)
    /\ UNCHANGED <<rows, weekly, cached, budget>>
-----------------------------------------------------------------------------
(***************************************************************************)
(* Bookings change status: paid, expired, canceled, served...  The writers *)
(* (updateStatus, changeBookingStatus, the expiry job) read the status and *)
(* write it by id; updateStatus refuses only to leave a final status.      *)
(* Change reads and writes at once, ChangeRead leaves the write for later. *)
(***************************************************************************)

Requested(r) == {to \in Statuses : <<status[r], to>> \in Asked}

LegacyStatuses(r)  == Requested(r) \cup (IF status[r] = "CONFIRMED" THEN {"COMPLETED"} ELSE {})
ExpiredReopens(r)  == Requested(r) \cup (IF status[r] = "EXPIRED" THEN {"CONFIRMED"} ELSE {})
NextStatuses(r)    == Requested(r)

MayChange(r) == status[r] \notin FinalizedStates \cup {"NONE"}

Change(r) ==
    /\ MayChange(r)
    /\ \E to \in NextStatuses(r) : status' = [status EXCEPT ![r] = to]
    /\ UNCHANGED <<who, start, locks, cached, pc, seen, budget>>

ChangeRead(h) ==
    /\ pc[h] = "idle"
    /\ stale < MaxStale /\ stale' = stale + 1
    /\ \E r \in Rows :
          /\ MayChange(r)
          /\ \E to \in NextStatuses(r) : seen' = [seen EXCEPT ![h].row = r, ![h].to = to]
    /\ Goto(h, "write")
    /\ UNCHANGED <<rows, locks, cached, faults, stalls>>

ChangeWrite(h) ==
    /\ pc[h] = "write"
    /\ status' = [status EXCEPT ![seen[h].row] = seen[h].to]
    /\ Return(h)
    /\ UNCHANGED <<who, start, locks, cached, budget>>
-----------------------------------------------------------------------------
(***************************************************************************)
(* The TTLs (15 s for the creation lock, 3 s for the weekly lock, less     *)
(* than the 5 s a transaction may take), the cache's TTL of 10 minutes,    *)
(* crashes.                                                                *)
(***************************************************************************)

CreationExpires(q) ==
    /\ creation[q] \in Handlers
    /\ pc[creation[q]] \notin CreateSteps \/ RequestOf(creation[q]) # q
    /\ creation' = [creation EXCEPT ![q] = NoHandler]
    /\ UNCHANGED <<rows, weekly, cached, pc, seen, budget>>

WeeklyExpires(c) ==
    /\ weekly[c] \in Handlers
    /\ pc[weekly[c]] \notin WeeklySteps \/ seen[weekly[c]].client # c
    /\ weekly' = [weekly EXCEPT ![c] = NoHandler]
    /\ UNCHANGED <<rows, creation, cached, pc, seen, budget>>

ExpiresOnHolder ==
    /\ stalls < MaxStalls /\ stalls' = stalls + 1
    /\ \/ \E q \in Request : /\ creation[q] # NoHandler
                             /\ creation' = [creation EXCEPT ![q] = NoHandler]
                             /\ UNCHANGED weekly
       \/ \E c \in Clients : /\ weekly[c] # NoHandler
                             /\ weekly' = [weekly EXCEPT ![c] = NoHandler]
                             /\ UNCHANGED creation
    /\ UNCHANGED <<rows, cached, pc, seen, faults, stale>>

Forget ==
    /\ \E q \in cached : cached' = cached \ {q}
    /\ UNCHANGED <<rows, locks, pc, seen, budget>>

Crash(h) ==
    /\ pc[h] # "idle"
    /\ Fault
    /\ Return(h)
    /\ UNCHANGED <<rows, locks, cached, stalls, stale>>
-----------------------------------------------------------------------------

Create(h) ==
    \/ Begin(h) \/ LockCreation(h) \/ Refused(h) \/ LockWeek(h) \/ CheckOverlap(h)
    \/ CountWeek(h) \/ Insert(h) \/ Abort(h) \/ ReleaseWeek(h) \/ Charge(h)
    \/ Remember(h) \/ Unlock(h)

Next ==
    \/ \E h \in Handlers : Create(h) \/ ChangeRead(h) \/ ChangeWrite(h) \/ Crash(h)
    \/ \E r \in Rows : Change(r)
    \/ (\E q \in Request : CreationExpires(q)) \/ (\E c \in Clients : WeeklyExpires(c))
    \/ ExpiresOnHolder \/ Forget

Spec == Init /\ [][Next]_vars
-----------------------------------------------------------------------------
(***************************************************************************)
(* Properties.                                                             *)
(***************************************************************************)

\* Every variable keeps its domain.
TypeOK ==
    /\ status \in [Rows -> Statuses \cup {"NONE"}]
    /\ who \in [Rows -> Clients] /\ start \in [Rows -> Starts]
    /\ creation \in [Request -> Handlers \cup {NoHandler}]
    /\ weekly \in [Clients -> Handlers \cup {NoHandler}]
    /\ cached \subseteq Request
    /\ pc \in [Handlers -> Steps] /\ seen \in [Handlers -> Call]
    /\ faults \in Nat /\ stalls \in Nat /\ stale \in Nat

\* No two bookings that block the provider's calendar overlap.
NoDoubleBooking ==
    \A r, q \in Rows : r # q /\ Active(r) /\ Active(q) => <<start[r], start[q]>> \notin Clash

\* No two active bookings of one client overlap, while no lock expires under its
\* holder and no status is written on a stale read: the weekly lock separates the
\* look-up of an overlap from its insert.
NoOwnOverlap ==
    stalls = 0 /\ stale = 0 =>
        \A r, q \in Rows : r # q /\ who[r] = who[q] /\ Active(r) /\ Active(q)
                           => <<start[r], start[q]>> \notin Clash

\* A client does not have two active bookings of one slot even when one of the two
\* locks has expired under its holder: each request holds both.
SameSlotOnce ==
    stalls <= 1 /\ stale = 0 =>
        \A r, q \in Rows : r # q /\ who[r] = who[q] /\ start[r] = start[q]
                           => ~(Active(r) /\ Active(q))

\* What create promises each client: it implements the abstract agenda.
TakenBy(c, r) ==
    CASE status[r] = "NONE" \/ who[r] # c -> Free
      [] status[r] # "NONE" /\ who[r] = c /\ Active(r) -> start[r]
      [] OTHER -> Gone

Abstract == INSTANCE Agenda
                WITH taken <- [c \in Clients |-> [r \in Rows |-> TakenBy(c, r)]]

ImplementsAgenda == Abstract!Spec
=============================================================================
