------------------------- MODULE SlotReservationProofs -------------------------
(***************************************************************************)
(* Proofs about SlotReservation for any sets of handlers, clients, starts  *)
(* and rows:                                                               *)
(*   - the weekly lock alone keeps a client's own bookings apart as long   *)
(*     as it does not expire under its holder;                             *)
(*   - of the two locks a request holds, one is enough to keep a client    *)
(*     from having one slot twice;                                         *)
(*   - while locks outlive their holders and no status is written on a     *)
(*     stale read, create implements the abstract agenda.                  *)
(***************************************************************************)
EXTENDS SlotReservation, TLAPS

\* A request between its look-up of the week and its release holds the lock of
\* that week; one in progress holds the lock of its slot.
WeekHeld == \A h \in Handlers : pc[h] \in WeeklySteps => weekly[seen[h].client] = h
SlotHeld == \A h \in Handlers : pc[h] \in CreateSteps => creation[RequestOf(h)] = h

\* What a request found free is still free when it inserts.
Checked(h) == pc[h] \in {"count", "insert"}

StillFree ==
    \A h \in Handlers, r \in Rows :
        Checked(h) /\ Active(r) /\ who[r] = seen[h].client
        => <<start[r], seen[h].start>> \notin Clash

StillUntaken ==
    \A h \in Handlers, r \in Rows :
        Checked(h) /\ Active(r) /\ who[r] = seen[h].client => start[r] # seen[h].start

OwnApart ==
    \A r, q \in Rows : r # q /\ who[r] = who[q] /\ Active(r) /\ Active(q)
                       => <<start[r], start[q]>> \notin Clash

SlotApart ==
    \A r, q \in Rows : r # q /\ who[r] = who[q] /\ start[r] = start[q]
                       => ~(Active(r) /\ Active(q))

NobodyStale == stale = 0 => \A h \in Handlers : pc[h] # "write"

LockInv ==
    /\ NobodyStale
    /\ stalls = 0 => WeekHeld /\ SlotHeld
    /\ stalls <= 1 => WeekHeld \/ SlotHeld

OInv == stalls = 0 /\ stale = 0 => StillFree /\ OwnApart
SInv == stalls <= 1 /\ stale = 0 => StillUntaken /\ SlotApart

IInv == TypeOK /\ LockInv /\ OInv /\ SInv
-----------------------------------------------------------------------------
(***************************************************************************)
(* Type correctness.                                                       *)
(***************************************************************************)

LEMMA BlankType == Blank \in Call
  <1>1. /\ (CHOOSE c \in Clients : TRUE) \in Clients
        /\ (CHOOSE s \in Starts : TRUE) \in Starts
        /\ (CHOOSE r \in Rows : TRUE) \in Rows
    BY SlotsAssumption
  <1>. QED
    BY <1>1 DEF Blank, Call, Statuses, Closed

LEMMA HandlerTypes ==
    ASSUME TypeOK, NEW h \in Handlers
    PROVE  /\ \A s \in Steps : Goto(h, s) => pc' \in [Handlers -> Steps]
           /\ Return(h) => pc' \in [Handlers -> Steps] /\ seen' \in [Handlers -> Call]
           /\ Fault => faults' \in Nat
           /\ RequestOf(h) \in Request
           /\ seen[h] \in Call
  <1>1. seen[h] \in Call
    BY DEF TypeOK
  <1>2. RequestOf(h) \in Request
    BY <1>1 DEF RequestOf, Request, Call
  <1>. QED
    BY <1>1, <1>2, BlankType DEF Goto, Return, Fault, TypeOK, Steps

\* What the operations put into a call they work on is of its fields' types.
LEMMA CallFields ==
    ASSUME TypeOK, NEW h \in Handlers, NEW c \in Clients, NEW s \in Starts,
           NEW keyed \in BOOLEAN, NEW r \in Rows, NEW to \in Statuses
    PROVE  /\ [seen EXCEPT ![h].client = c, ![h].start = s, ![h].keyed = keyed]
                  \in [Handlers -> Call]
           /\ [seen EXCEPT ![h].row = r] \in [Handlers -> Call]
           /\ [seen EXCEPT ![h].row = r, ![h].to = to] \in [Handlers -> Call]
  <1>1. seen[h] \in Call /\ seen \in [Handlers -> Call]
    BY DEF TypeOK
  <1>2. [seen[h] EXCEPT !.client = c, !.start = s, !.keyed = keyed] \in Call
    BY <1>1 DEF Call
  <1>3. [seen[h] EXCEPT !.row = r] \in Call
    BY <1>1 DEF Call
  <1>4. [seen[h] EXCEPT !.row = r, !.to = to] \in Call
    BY <1>1 DEF Call
  <1>5. [seen EXCEPT ![h].client = c, ![h].start = s, ![h].keyed = keyed]
        = [seen EXCEPT ![h] = [seen[h] EXCEPT !.client = c, !.start = s, !.keyed = keyed]]
    BY <1>1
  <1>6. [seen EXCEPT ![h].row = r] = [seen EXCEPT ![h] = [seen[h] EXCEPT !.row = r]]
    BY <1>1
  <1>7. [seen EXCEPT ![h].row = r, ![h].to = to]
        = [seen EXCEPT ![h] = [seen[h] EXCEPT !.row = r, !.to = to]]
    BY <1>1
  <1>. QED
    BY <1>1, <1>2, <1>3, <1>4, <1>5, <1>6, <1>7

LEMMA TypeInit == Init => TypeOK
  BY BlankType DEF Init, TypeOK, Steps, Call, Blank

LEMMA StepNames ==
    {"idle", "lock", "weekly", "check", "count", "insert", "booked", "release",
     "charge", "cache", "unlock", "write"} \subseteq Steps
  BY DEF Steps, CreateSteps, WeeklySteps

LEMMA TypeStep == TypeOK /\ [Next]_vars => TypeOK'
  <1>. SUFFICES ASSUME TypeOK, [Next]_vars
                PROVE  TypeOK'
    OBVIOUS
  <1>. USE DEF rows, locks, budget
  <1>0. CASE UNCHANGED vars
    BY <1>0 DEF TypeOK, vars
  <1>1. ASSUME NEW h \in Handlers, Create(h)
        PROVE  TypeOK'
    <2>1. CASE Begin(h)
      <3>1. seen' \in [Handlers -> Call]
        <4>1. PICK q \in Request, keyed \in BOOLEAN :
                 seen' = [seen EXCEPT ![h].client = q.client, ![h].start = q.start,
                                      ![h].keyed = keyed]
          BY <2>1 DEF Begin
        <4>2. q.client \in Clients /\ q.start \in Starts
          BY DEF Request
        <4>3. PICK r \in Rows : TRUE
          BY SlotsAssumption
        <4>4. "CANCELED" \in Statuses
          BY DEF Statuses, Closed
        <4>5. [seen EXCEPT ![h].client = q.client, ![h].start = q.start, ![h].keyed = keyed]
              \in [Handlers -> Call]
          BY <4>2, <4>3, <4>4, CallFields
        <4>. QED
          BY <4>1, <4>5
      <3>. QED
        BY <2>1, <3>1, HandlerTypes, StepNames DEF Begin, TypeOK
    <2>2. CASE LockCreation(h)
      BY <2>2, HandlerTypes, StepNames DEF LockCreation, TypeOK
    <2>3. CASE Refused(h)
      BY <2>3, HandlerTypes, StepNames DEF Refused, TypeOK
    <2>4. CASE LockWeek(h)
      BY <2>4, HandlerTypes, StepNames DEF LockWeek, TypeOK
    <2>5. CASE CheckOverlap(h)
      BY <2>5, HandlerTypes, StepNames DEF CheckOverlap, TypeOK
    <2>6. CASE CountWeek(h)
      BY <2>6, HandlerTypes, StepNames DEF CountWeek, TypeOK
    <2>7. CASE Insert(h)
      <3>0. seen' \in [Handlers -> Call]
        <4>1. "CANCELED" \in Statuses
          BY DEF Statuses, Closed
        <4>2. seen[h].client \in Clients /\ seen[h].start \in Starts
          BY HandlerTypes DEF Call
        <4>3. PICK r \in Rows : seen' = [seen EXCEPT ![h].row = r]
          BY <2>7 DEF Insert
        <4>4. [seen EXCEPT ![h].row = r] \in [Handlers -> Call]
          BY <4>1, <4>2, TRUE \in BOOLEAN, CallFields
        <4>. QED
          BY <4>3, <4>4
      <3>1. who' \in [Rows -> Clients] /\ start' \in [Rows -> Starts]
        <4>1. seen[h].client \in Clients /\ seen[h].start \in Starts
          BY HandlerTypes DEF Call
        <4>. QED
          BY <2>7, <4>1 DEF Insert, TypeOK
      <3>2. status' \in [Rows -> Statuses \cup {"NONE"}]
        BY <2>7 DEF Insert, TypeOK, Statuses, Waiting
      <3>. QED
        BY <2>7, <3>0, <3>1, <3>2, HandlerTypes, StepNames DEF Insert, TypeOK
    <2>8. CASE Abort(h)
      BY <2>8, HandlerTypes, StepNames DEF Abort, TypeOK
    <2>9. CASE ReleaseWeek(h)
      BY <2>9, HandlerTypes, StepNames DEF ReleaseWeek, TypeOK
    <2>10. CASE Charge(h)
      BY <2>10, HandlerTypes, StepNames DEF Charge, TypeOK
    <2>11. CASE Remember(h)
      BY <2>11, HandlerTypes, StepNames DEF Remember, TypeOK
    <2>12. CASE Unlock(h)
      BY <2>12, HandlerTypes, StepNames DEF Unlock, TypeOK
    <2>. QED
      BY <1>1, <2>1, <2>2, <2>3, <2>4, <2>5, <2>6, <2>7, <2>8, <2>9, <2>10, <2>11,
         <2>12 DEF Create
  <1>2. ASSUME NEW r \in Rows, Change(r)
        PROVE  TypeOK'
    BY <1>2 DEF Change, NextStatuses, Requested, TypeOK
  <1>3. ASSUME NEW h \in Handlers, ChangeRead(h)
        PROVE  TypeOK'
    <2>1. seen' \in [Handlers -> Call]
      <3>1. PICK r \in Rows, to \in Statuses :
               seen' = [seen EXCEPT ![h].row = r, ![h].to = to]
        BY <1>3 DEF ChangeRead, NextStatuses, Requested
      <3>2. \E c \in Clients, s \in Starts : TRUE
        BY SlotsAssumption
      <3>. QED
        BY <3>1, <3>2, CallFields
    <2>. QED
      BY <1>3, <2>1, HandlerTypes, StepNames DEF ChangeRead, TypeOK
  <1>4. ASSUME NEW h \in Handlers, ChangeWrite(h)
        PROVE  TypeOK'
    <2>1. seen[h].to \in Statuses
      BY HandlerTypes DEF Call
    <2>. QED
      BY <1>4, <2>1, HandlerTypes DEF ChangeWrite, TypeOK
  <1>5. ASSUME NEW h \in Handlers, Crash(h)
        PROVE  TypeOK'
    BY <1>5, HandlerTypes DEF Crash, TypeOK
  <1>6. ASSUME NEW q \in Request, CreationExpires(q)
        PROVE  TypeOK'
    BY <1>6 DEF CreationExpires, TypeOK
  <1>7. ASSUME NEW c \in Clients, WeeklyExpires(c)
        PROVE  TypeOK'
    BY <1>7 DEF WeeklyExpires, TypeOK
  <1>8. CASE ExpiresOnHolder
    BY <1>8 DEF ExpiresOnHolder, TypeOK
  <1>9. CASE Forget
    BY <1>9 DEF Forget, TypeOK
  <1>. QED
    BY <1>0, <1>1, <1>2, <1>3, <1>4, <1>5, <1>6, <1>7, <1>8, <1>9 DEF Next

\* Every variable keeps its domain, for any constants.
THEOREM TypeCorrect == Spec => []TypeOK
  BY TypeInit, TypeStep, PTL DEF Spec
-----------------------------------------------------------------------------
(***************************************************************************)
(* The locks.                                                              *)
(***************************************************************************)

LEMMA ClashFacts ==
    /\ \A s \in Starts : <<s, s>> \in Clash
    /\ \A s, t \in Starts : <<s, t>> \in Clash <=> <<t, s>> \in Clash
  BY SlotsAssumption DEF Clash

\* No status that the table of transitions offers brings time back.
LEMMA NeverBack ==
    \A p \in Asked : p[2] \in BlockedStatuses => p[1] \in BlockedStatuses
  <1>1. ASSUME NEW s \in Statuses \ BlockedStatuses
        PROVE  Transitions[s] \cap BlockedStatuses = {}
    BY <1>1 DEF Transitions, Statuses, BlockedStatuses, Waiting, OnSite, Closed
  <1>. QED
    BY <1>1, OfferedAssumption

LEMMA LockStep == TypeOK /\ TypeOK' /\ LockInv /\ [Next]_vars => LockInv'
  <1>. SUFFICES ASSUME TypeOK, TypeOK', LockInv, [Next]_vars
                PROVE  LockInv'
    OBVIOUS
  <1>. USE DEF rows, locks, budget
  <1>t. /\ pc \in [Handlers -> Steps] /\ seen \in [Handlers -> Call]
        /\ creation \in [Request -> Handlers \cup {NoHandler}]
        /\ weekly \in [Clients -> Handlers \cup {NoHandler}]
        /\ stalls \in Nat /\ stale \in Nat
        /\ \A h \in Handlers : seen[h].client \in Clients /\ RequestOf(h) \in Request
    BY HandlerTypes DEF TypeOK, Call
  <1>a. stalls' = stalls /\ stale' = stale /\ NobodyStale' /\ (WeekHeld => WeekHeld')
        /\ (SlotHeld => SlotHeld') => LockInv'
    BY DEF LockInv
  <1>u. ASSUME UNCHANGED <<locks, pc, seen, stalls, stale>>
        PROVE  LockInv'
    BY <1>u DEF LockInv, NobodyStale, WeekHeld, SlotHeld, RequestOf
  <1>1. ASSUME NEW h \in Handlers, Create(h)
        PROVE  LockInv'
    <2>. USE <1>t DEF WeekHeld, SlotHeld, NobodyStale, RequestOf, CreateSteps,
                      WeeklySteps, Goto, Return
    <2>0. NobodyStale
      BY DEF LockInv
    <2>b. stalls' = stalls /\ stale' = stale
      BY <1>1 DEF Create, Begin, LockCreation, Refused, LockWeek, CheckOverlap, CountWeek,
         Insert, Abort, ReleaseWeek, Charge, Remember, Unlock, Fault
    <2>1. CASE Begin(h)
      BY <2>0, <2>1, <2>b, <1>a DEF Begin
    <2>2. CASE LockCreation(h)
      BY <2>0, <2>2, <2>b, <1>a, HandlersAssumption DEF LockCreation, CreationFree
    <2>3. CASE Refused(h)
      BY <2>0, <2>3, <2>b, <1>a DEF Refused
    <2>4. CASE LockWeek(h)
      BY <2>0, <2>4, <2>b, <1>a, HandlersAssumption DEF LockWeek, WeeklyFree
    <2>5. CASE CheckOverlap(h)
      BY <2>0, <2>5, <2>b, <1>a DEF CheckOverlap
    <2>6. CASE CountWeek(h)
      BY <2>0, <2>6, <2>b, <1>a DEF CountWeek
    <2>7. CASE Insert(h)
      BY <2>0, <2>7, <2>b, <1>a DEF Insert
    <2>8. CASE Abort(h)
      BY <2>0, <2>8, <2>b, <1>a DEF Abort
    <2>9. CASE ReleaseWeek(h)
      BY <2>0, <2>9, <2>b, <1>a DEF ReleaseWeek
    <2>10. CASE Charge(h)
      BY <2>0, <2>10, <2>b, <1>a DEF Charge
    <2>11. CASE Remember(h)
      BY <2>0, <2>11, <2>b, <1>a DEF Remember
    <2>12. CASE Unlock(h)
      BY <2>0, <2>12, <2>b, <1>a DEF Unlock
    <2>. QED
      BY <1>1, <2>1, <2>2, <2>3, <2>4, <2>5, <2>6, <2>7, <2>8, <2>9, <2>10, <2>11,
         <2>12 DEF Create
  <1>2. ASSUME NEW h \in Handlers, ChangeRead(h) \/ ChangeWrite(h)
        PROVE  LockInv'
    <2>. USE <1>t DEF WeekHeld, SlotHeld, NobodyStale, RequestOf, CreateSteps,
                      WeeklySteps, Goto, Return
    <2>1. CASE ChangeRead(h)
      BY <2>1 DEF ChangeRead, LockInv
    <2>2. CASE ChangeWrite(h)
      BY <2>2, <1>a DEF ChangeWrite, LockInv
    <2>. QED
      BY <1>2, <2>1, <2>2
  <1>3. ASSUME NEW h \in Handlers, Crash(h)
        PROVE  LockInv'
    BY <1>3, <1>t, <1>a DEF Crash, WeekHeld, SlotHeld, NobodyStale, RequestOf, CreateSteps,
       WeeklySteps, Return, Goto, LockInv
  <1>4. ASSUME NEW q \in Request, CreationExpires(q)
        PROVE  LockInv'
    BY <1>4, <1>t, <1>a DEF CreationExpires, WeekHeld, SlotHeld, NobodyStale, RequestOf,
       CreateSteps, WeeklySteps, LockInv
  <1>5. ASSUME NEW c \in Clients, WeeklyExpires(c)
        PROVE  LockInv'
    BY <1>5, <1>t, <1>a DEF WeeklyExpires, WeekHeld, SlotHeld, NobodyStale, RequestOf,
       CreateSteps, WeeklySteps, LockInv
  <1>6. CASE ExpiresOnHolder
    <2>1. stalls' = stalls + 1 /\ UNCHANGED <<pc, seen, stale>>
          /\ (UNCHANGED weekly \/ UNCHANGED creation)
      BY <1>6 DEF ExpiresOnHolder
    <2>2. stalls' <= 1 => WeekHeld /\ SlotHeld
      BY <2>1, <1>t DEF LockInv
    <2>. QED
      BY <2>1, <2>2, <1>t DEF LockInv, WeekHeld, SlotHeld, NobodyStale, RequestOf
  <1>7. CASE Forget \/ (\E r \in Rows : Change(r)) \/ UNCHANGED vars
    BY <1>7, <1>u DEF Forget, Change, vars
  <1>. QED
    BY <1>1, <1>2, <1>3, <1>4, <1>5, <1>6, <1>7 DEF Next
-----------------------------------------------------------------------------
(***************************************************************************)
(* A client's own bookings.                                                *)
(***************************************************************************)

\* A step that keeps the rows, or only takes time off them, and sends no request
\* past its look-up, keeps what requests have found.
LEMMA Quiet ==
    ASSUME TypeOK, TypeOK', OInv, SInv,
           UNCHANGED <<who, start>>, stalls' >= stalls, stale' >= stale,
           \A r \in Rows : Active(r)' => Active(r),
           \A h \in Handlers : Checked(h)' => Checked(h) /\ UNCHANGED <<seen[h].client, seen[h].start>>
    PROVE  OInv' /\ SInv'
  <1>1. stalls' = 0 /\ stale' = 0 => stalls = 0 /\ stale = 0
    BY DEF TypeOK
  <1>2. OInv'
    BY <1>1 DEF OInv, StillFree, OwnApart
  <1>3. stalls' <= 1 /\ stale' = 0 => stalls <= 1 /\ stale = 0
    BY DEF TypeOK
  <1>4. SInv'
    BY <1>3 DEF SInv, StillUntaken, SlotApart
  <1>. QED
    BY <1>2, <1>4

\* Two handlers that are both between look-up and insert work for different
\* clients, or, with one lock expired under its holder, on different slots.
LEMMA Alone ==
    ASSUME TypeOK, LockInv, NEW h \in Handlers, NEW g \in Handlers, h # g,
           pc[h] = "insert", Checked(g)
    PROVE  /\ stalls = 0 => seen[h].client # seen[g].client
           /\ stalls <= 1 => seen[h].client # seen[g].client \/ seen[h].start # seen[g].start
  <1>1. WeekHeld => seen[h].client # seen[g].client
    BY DEF WeekHeld, Checked, WeeklySteps
  <1>2. SlotHeld => RequestOf(h) # RequestOf(g)
    BY DEF SlotHeld, Checked, CreateSteps, WeeklySteps
  <1>3. RequestOf(h) # RequestOf(g)
        => seen[h].client # seen[g].client \/ seen[h].start # seen[g].start
    BY DEF RequestOf
  <1>. QED
    BY <1>1, <1>2, <1>3 DEF LockInv

LEMMA InsertStep ==
    ASSUME TypeOK, LockInv, OInv, SInv, NEW h \in Handlers, Insert(h)
    PROVE  OInv' /\ SInv'
  <1>1. PICK r \in Rows :
           /\ status[r] = "NONE"
           /\ status' = [status EXCEPT ![r] = "PENDING_PAYMENT"]
           /\ who' = [who EXCEPT ![r] = seen[h].client]
           /\ start' = [start EXCEPT ![r] = seen[h].start]
           /\ seen' = [seen EXCEPT ![h].row = r]
    BY DEF Insert
  <1>2. /\ pc[h] = "insert" /\ ~Checked(h)' /\ UNCHANGED <<stalls, stale>>
        /\ \A g \in Handlers : Checked(g)' => g # h /\ Checked(g)
    BY DEF Insert, Goto, Checked, TypeOK, budget
  <1>3. \A g \in Handlers : seen'[g].client = seen[g].client /\ seen'[g].start = seen[g].start
    BY <1>1 DEF TypeOK, Call
  <1>4. /\ \A q \in Rows \ {r} : (Active(q)' <=> Active(q)) /\ who'[q] = who[q]
                               /\ start'[q] = start[q]
        /\ who'[r] = seen[h].client /\ start'[r] = seen[h].start
    BY <1>1 DEF Active, TypeOK
  <1>5. /\ \A q \in Rows : start[q] \in Starts /\ who[q] \in Clients
        /\ \A g \in Handlers : seen[g].start \in Starts
    BY DEF TypeOK, Call
  <1>6. OInv'
    <2>. SUFFICES ASSUME stalls = 0, stale = 0
                  PROVE  StillFree' /\ OwnApart'
      BY <1>2 DEF OInv
    <2>1. StillFree /\ OwnApart
      BY DEF OInv
    <2>2. ASSUME NEW q \in Rows \ {r}, Active(q), who[q] = seen[h].client
          PROVE  /\ <<start[q], seen[h].start>> \notin Clash
                 /\ <<seen[h].start, start[q]>> \notin Clash
      BY <1>2, <1>5, <2>1, <2>2, ClashFacts DEF StillFree, Checked
    <2>3. OwnApart'
      BY <1>4, <2>1, <2>2 DEF OwnApart
    <2>4. ASSUME NEW g \in Handlers, Checked(g)'
          PROVE  seen[g].client # seen[h].client
      BY <1>2, <2>4, Alone
    <2>5. StillFree'
      BY <1>2, <1>3, <1>4, <2>1, <2>4 DEF StillFree
    <2>. QED
      BY <2>3, <2>5
  <1>7. SInv'
    <2>. SUFFICES ASSUME stalls <= 1, stale = 0
                  PROVE  StillUntaken' /\ SlotApart'
      BY <1>2 DEF SInv
    <2>1. StillUntaken /\ SlotApart
      BY DEF SInv
    <2>2. ASSUME NEW q \in Rows \ {r}, Active(q), who[q] = seen[h].client
          PROVE  start[q] # seen[h].start
      BY <1>2, <2>1, <2>2 DEF StillUntaken, Checked
    <2>3. SlotApart'
      BY <1>4, <2>1, <2>2 DEF SlotApart
    <2>4. ASSUME NEW g \in Handlers, Checked(g)'
          PROVE  seen[g].client # seen[h].client \/ seen[g].start # seen[h].start
      BY <1>2, <2>4, Alone
    <2>5. StillUntaken'
      BY <1>2, <1>3, <1>4, <2>1, <2>4 DEF StillUntaken
    <2>. QED
      BY <2>3, <2>5
  <1>. QED
    BY <1>6, <1>7

LEMMA CheckStep ==
    ASSUME TypeOK, OInv, SInv, NEW h \in Handlers, CheckOverlap(h)
    PROVE  OInv' /\ SInv'
  <1>1. UNCHANGED <<status, who, start, seen, stalls, stale>>
        /\ \A g \in Handlers \ {h} : Checked(g)' <=> Checked(g)
    BY DEF CheckOverlap, rows, budget, Goto, Checked, TypeOK
  <1>2. Checked(h)' => SlotIsFree(seen[h].start)
    BY DEF CheckOverlap, Goto, Checked, TypeOK
  <1>3. Checked(h)' => \A r \in Rows : Active(r) => start[r] # seen[h].start
    BY <1>2, ClashFacts DEF SlotIsFree, TypeOK, Call
  <1>4. OInv'
    BY <1>1, <1>2 DEF OInv, StillFree, OwnApart, SlotIsFree, Active
  <1>5. SInv'
    BY <1>1, <1>3 DEF SInv, StillUntaken, SlotApart, Active
  <1>. QED
    BY <1>4, <1>5

LEMMA OwnStep == TypeOK /\ TypeOK' /\ LockInv /\ OInv /\ SInv /\ [Next]_vars => OInv' /\ SInv'
  <1>. SUFFICES ASSUME TypeOK, TypeOK', LockInv, OInv, SInv, [Next]_vars
                PROVE  OInv' /\ SInv'
    OBVIOUS
  <1>. USE DEF rows, locks, budget
  <1>1. ASSUME NEW h \in Handlers, Create(h)
        PROVE  OInv' /\ SInv'
    <2>. DEFINE Calm ==
           /\ UNCHANGED <<status, who, start, stalls, stale>>
           /\ \A g \in Handlers : Checked(g)' =>
                  Checked(g) /\ UNCHANGED <<seen[g].client, seen[g].start>>
    <2>c. ASSUME Calm PROVE OInv' /\ SInv'
      <3>1. stalls' >= stalls /\ stale' >= stale
        BY <2>c DEF TypeOK
      <3>2. \A r \in Rows : Active(r)' => Active(r)
        BY <2>c DEF Active
      <3>. QED
        BY <2>c, <3>1, <3>2, Quiet
    <2>. USE DEF Checked, Goto, Return, TypeOK
    <2>1. CASE Begin(h)
      BY <2>1, <2>c DEF Begin
    <2>2. CASE LockCreation(h)
      BY <2>2, <2>c DEF LockCreation
    <2>3. CASE Refused(h)
      BY <2>3, <2>c DEF Refused
    <2>4. CASE LockWeek(h)
      BY <2>4, <2>c DEF LockWeek
    <2>5. CASE CheckOverlap(h)
      BY <2>5, CheckStep
    <2>6. CASE CountWeek(h)
      BY <2>6, <2>c DEF CountWeek
    <2>7. CASE Insert(h)
      BY <2>7, InsertStep
    <2>8. CASE Abort(h)
      BY <2>8, <2>c DEF Abort, Fault
    <2>9. CASE ReleaseWeek(h)
      BY <2>9, <2>c DEF ReleaseWeek
    <2>10. CASE Charge(h)
      BY <2>10, <2>c DEF Charge, Fault
    <2>11. CASE Remember(h)
      BY <2>11, <2>c DEF Remember
    <2>12. CASE Unlock(h)
      BY <2>12, <2>c DEF Unlock
    <2>. QED
      BY <1>1, <2>1, <2>2, <2>3, <2>4, <2>5, <2>6, <2>7, <2>8, <2>9, <2>10, <2>11,
         <2>12 DEF Create
  <1>2. ASSUME NEW r \in Rows, Change(r)
        PROVE  OInv' /\ SInv'
    <2>1. \A q \in Rows : Active(q)' => Active(q)
      BY <1>2, NeverBack DEF Change, NextStatuses, Requested, Active, TypeOK
    <2>. QED
      BY <1>2, <2>1, Quiet DEF Change, Checked, TypeOK
  <1>3. ASSUME NEW h \in Handlers, ChangeRead(h)
        PROVE  OInv' /\ SInv'
    <2>1. stale' # 0
      BY <1>3 DEF ChangeRead, TypeOK
    <2>. QED
      BY <2>1 DEF OInv, SInv
  <1>4. ASSUME NEW h \in Handlers, ChangeWrite(h)
        PROVE  OInv' /\ SInv'
    <2>1. stale # 0 /\ stale' = stale
      BY <1>4 DEF ChangeWrite, LockInv, NobodyStale
    <2>. QED
      BY <2>1 DEF OInv, SInv
  <1>5. ASSUME NEW h \in Handlers, Crash(h)
        PROVE  OInv' /\ SInv'
    BY <1>5, Quiet DEF Crash, Return, Goto, Checked, Active, TypeOK
  <1>6. CASE (\E q \in Request : CreationExpires(q)) \/ (\E c \in Clients : WeeklyExpires(c))
             \/ Forget \/ UNCHANGED vars
    BY <1>6, Quiet DEF CreationExpires, WeeklyExpires, Forget, vars, Checked, Active, TypeOK
  <1>7. CASE ExpiresOnHolder
    <2>1. UNCHANGED <<status, who, start, pc, seen>> /\ stalls' >= stalls /\ stale' >= stale
      BY <1>7 DEF ExpiresOnHolder, TypeOK
    <2>. QED
      BY <2>1, Quiet DEF Checked, Active
  <1>. QED
    BY <1>1, <1>2, <1>3, <1>4, <1>5, <1>6, <1>7 DEF Next
-----------------------------------------------------------------------------

LEMMA IInvInit == Init => IInv
  BY TypeInit DEF Init, IInv, LockInv, NobodyStale, WeekHeld, SlotHeld, OInv, SInv,
     StillFree, StillUntaken, OwnApart, SlotApart, Checked, Active, BlockedStatuses, Waiting,
     OnSite, WeeklySteps, CreateSteps

LEMMA IInvStep == IInv /\ [Next]_vars => IInv'
  BY TypeStep, LockStep, OwnStep DEF IInv

LEMMA Inductive == Spec => []IInv
  BY IInvInit, IInvStep, PTL DEF Spec

\* create: the weekly lock separates the look-up of an overlap from the insert, so
\* no two active bookings of a client overlap, however many handlers there are.
THEOREM OwnOverlapNever == Spec => []NoOwnOverlap
  <1>1. IInv => NoOwnOverlap
    BY DEF IInv, OInv, OwnApart, NoOwnOverlap
  <1>. QED
    BY <1>1, Inductive, PTL

\* create: each of the two locks is enough to keep a client from holding one slot
\* twice, so one of them may expire under its holder.
THEOREM SlotTakenOnce == Spec => []SameSlotOnce
  <1>1. IInv => SameSlotOnce
    BY DEF IInv, SInv, SlotApart, SameSlotOnce
  <1>. QED
    BY <1>1, Inductive, PTL
-----------------------------------------------------------------------------
(***************************************************************************)
(* The abstract agenda.                                                    *)
(***************************************************************************)

\* So far no lock has been lost under its holder and no status written on a stale read.
NothingLost == stalls = 0 /\ stale = 0

Agendas == [c \in Clients |-> [r \in Rows |-> TakenBy(c, r)]]

LEMMA AgendaInit == Init => Abstract!Init
  BY DEF Init, Abstract!Init, TakenBy

\* What a row holds in an agenda depends only on that row.
LEMMA TakenFacts ==
    ASSUME TypeOK, NEW c \in Clients, NEW r \in Rows
    PROVE  /\ TakenBy(c, r) = Free <=> status[r] = "NONE" \/ who[r] # c
           /\ TakenBy(c, r) \in Starts <=> Active(r) /\ who[r] = c
           /\ Active(r) /\ who[r] = c => TakenBy(c, r) = start[r]
           /\ status[r] # "NONE" /\ who[r] = c /\ ~Active(r) => TakenBy(c, r) = Gone
  <1>1. Active(r) => status[r] # "NONE"
    BY DEF Active, BlockedStatuses, Waiting, OnSite
  <1>2. start[r] \in Starts
    BY DEF TypeOK
  <1>. QED
    BY <1>1, <1>2, SlotsAssumption DEF TakenBy

\* A step that changes what one row holds for one client.
LEMMA AgendasMove ==
    ASSUME NEW c \in Clients, NEW r \in Rows, NEW s, TakenBy(c, r)' = s,
           \A d \in Clients, q \in Rows : q # r \/ d # c => TakenBy(d, q)' = TakenBy(d, q)
    PROVE  Agendas' = [Agendas EXCEPT ![c][r] = s]
  <1>1. Agendas' = [d \in Clients |-> [q \in Rows |-> TakenBy(d, q)']]
    BY DEF Agendas
  <1>2. ASSUME NEW d \in Clients, NEW q \in Rows
        PROVE  TakenBy(d, q)' = [Agendas EXCEPT ![c][r] = s][d][q]
    <2>. HIDE DEF TakenBy
    <2>1. CASE d = c /\ q = r
      BY <2>1 DEF Agendas
    <2>2. CASE d # c
      BY <2>2 DEF Agendas
    <2>3. CASE d = c /\ q # r
      BY <2>3 DEF Agendas
    <2>. QED
      BY <2>1, <2>2, <2>3
  <1>3. [Agendas EXCEPT ![c][r] = s]
        = [d \in Clients |-> [q \in Rows |-> [Agendas EXCEPT ![c][r] = s][d][q]]]
    BY DEF Agendas
  <1>. QED
    BY <1>1, <1>2, <1>3

LEMMA TakeMaps ==
    ASSUME TypeOK, TypeOK', IInv, stalls = 0, stale = 0, NEW h \in Handlers, Insert(h)
    PROVE  Abstract!Next
  <1>1. PICK r \in Rows :
           /\ status[r] = "NONE"
           /\ status' = [status EXCEPT ![r] = "PENDING_PAYMENT"]
           /\ who' = [who EXCEPT ![r] = seen[h].client]
           /\ start' = [start EXCEPT ![r] = seen[h].start]
    BY DEF Insert
  <1>2. PICK c \in Clients, s \in Starts : c = seen[h].client /\ s = seen[h].start
    BY HandlerTypes DEF Call
  <1>3. Agendas[c][r] = Free
    BY <1>1, <1>2, TakenFacts DEF Agendas
  <1>4. \A q \in Rows : Agendas[c][q] \in Starts => <<Agendas[c][q], s>> \notin Clash
    <2>1. StillFree /\ Checked(h)
      BY DEF IInv, OInv, Insert, Checked
    <2>. QED
      BY <1>2, <2>1, TakenFacts DEF Agendas, StillFree
  <1>5. Agendas' = [Agendas EXCEPT ![c][r] = s]
    <2>1. ASSUME NEW d \in Clients, NEW q \in Rows, q # r \/ d # c
          PROVE  TakenBy(d, q)' = TakenBy(d, q)
      BY <1>1, <1>2, <2>1 DEF TakenBy, Active, TypeOK
    <2>2. TakenBy(c, r)' = s
      <3>1. status'[r] = "PENDING_PAYMENT" /\ who'[r] = c /\ start'[r] = s
        BY <1>1, <1>2 DEF TypeOK
      <3>2. "PENDING_PAYMENT" \in BlockedStatuses
        BY DEF BlockedStatuses, Waiting
      <3>. QED
        BY <3>1, <3>2 DEF TakenBy, Active
    <2>. QED
      BY <1>2, <2>1, <2>2, AgendasMove
  <1>6. Abstract!Take(c, r, s)
    BY <1>3, <1>4, <1>5 DEF Abstract!Take, Abstract!Holds, Agendas
  <1>. QED
    BY <1>2, <1>6 DEF Abstract!Next

LEMMA ChangeMaps ==
    ASSUME TypeOK, TypeOK', NEW r \in Rows, Change(r)
    PROVE  Abstract!Next \/ Agendas' = Agendas
  <1>1. PICK to \in Statuses :
           /\ status[r] # "NONE" /\ <<status[r], to>> \in Asked
           /\ status' = [status EXCEPT ![r] = to] /\ UNCHANGED <<who, start>>
    BY DEF Change, MayChange, NextStatuses, Requested
  <1>c. PICK c \in Clients : c = who[r]
    BY DEF TypeOK
  <1>2. /\ \A q \in Rows \ {r} : status'[q] = status[q]
        /\ status'[r] = to /\ to # "NONE" /\ who[r] \in Clients /\ start[r] \in Starts
    BY <1>1 DEF TypeOK, Statuses, Waiting, OnSite, Closed
  <1>3. \A k \in Clients, q \in Rows : q # r \/ k # who[r] => TakenBy(k, q)' = TakenBy(k, q)
    BY <1>1, <1>2 DEF TakenBy, Active
  <1>4. CASE Active(r) /\ ~Active(r)'
    <2>1. TakenBy(c, r) \in Starts /\ TakenBy(c, r)' = Gone
      BY <1>c, <1>1, <1>2, <1>4, SlotsAssumption DEF TakenBy, Active
    <2>2. Agendas' = [Agendas EXCEPT ![c][r] = Gone]
      BY <1>c, <1>3, <2>1, AgendasMove
    <2>. QED
      BY <2>1, <2>2, SlotsAssumption DEF Abstract!Next, Abstract!GiveUp, Abstract!Holds, Agendas
  <1>5. CASE Active(r) <=> Active(r)'
    BY <1>1, <1>2, <1>3, <1>5 DEF Agendas, TakenBy, Active
  <1>6. Active(r)' => Active(r)
    BY <1>1, <1>2, NeverBack DEF Active
  <1>. QED
    BY <1>4, <1>5, <1>6

LEMMA AgendaStep ==
    IInv /\ IInv' /\ NothingLost /\ [Next]_vars => [Abstract!Next]_Agendas
  <1>. SUFFICES ASSUME IInv, IInv', stalls = 0, stale = 0, [Next]_vars
                PROVE  Abstract!Next \/ Agendas' = Agendas
    BY DEF NothingLost
  <1>1. TypeOK /\ TypeOK' /\ LockInv
    BY DEF IInv
  <1>2. ASSUME UNCHANGED rows
        PROVE  Agendas' = Agendas
    BY <1>2 DEF rows, Agendas, TakenBy, Active
  <1>3. ASSUME NEW h \in Handlers, Create(h)
        PROVE  Abstract!Next \/ Agendas' = Agendas
    <2>1. CASE Insert(h)
      BY <1>1, <2>1, TakeMaps
    <2>2. CASE ~Insert(h)
      BY <1>2, <1>3, <2>2 DEF Create, Begin, LockCreation, Refused, LockWeek, CheckOverlap,
         CountWeek, Abort, ReleaseWeek, Charge, Remember, Unlock
    <2>. QED
      BY <2>1, <2>2
  <1>4. ASSUME NEW h \in Handlers, ChangeWrite(h)
        PROVE  FALSE
    BY <1>1, <1>4 DEF ChangeWrite, LockInv, NobodyStale
  <1>. QED
    BY <1>1, <1>2, <1>3, <1>4, ChangeMaps DEF Next, vars, rows, ChangeRead, Crash,
       CreationExpires, WeeklyExpires, ExpiresOnHolder, Forget

\* create implements the agenda it promises each client in every behaviour in which
\* locks outlive their holders and no status is written on a stale read, whatever
\* crashes, aborts, is refused or asked again.
THEOREM ImplementsWhileHeld == Spec /\ []NothingLost => ImplementsAgenda
  <1>1. IInv /\ IInv' /\ NothingLost /\ [Next]_vars
        => [Abstract!Next]_[c \in Clients |-> [r \in Rows |-> TakenBy(c, r)]]
    BY AgendaStep DEF Agendas
  <1>. QED
    BY <1>1, AgendaInit, Inductive, PTL DEF Spec, ImplementsAgenda, Abstract!Spec

NoLockLost == MaxStalls = 0 /\ MaxStale = 0

Settled == NoLockLost => NothingLost

LEMMA SettledStep == IInv /\ Settled /\ [Next]_vars => Settled'
  <1>. SUFFICES ASSUME IInv, Settled, [Next]_vars, NoLockLost
                PROVE  stalls' = 0 /\ stale' = 0
    BY DEF Settled, NothingLost
  <1>1. stalls = 0 /\ stale = 0
    BY DEF Settled, NothingLost
  <1>. USE <1>1 DEF budget
  <1>2. ASSUME NEW h \in Handlers, Create(h)
        PROVE  stalls' = 0 /\ stale' = 0
    BY <1>2 DEF Create, Begin, LockCreation, Refused, LockWeek, CheckOverlap, CountWeek,
       Insert, Abort, ReleaseWeek, Charge, Remember, Unlock, Fault
  <1>. QED
    BY <1>2 DEF Next, vars, NoLockLost, ChangeRead, ChangeWrite, Crash, Change,
       CreationExpires, WeeklyExpires, ExpiresOnHolder, Forget

\* With a time to live that no holder reaches and updates that write what they read, as
\* slot_agenda bounds them, create implements the agenda.
THEOREM Implements == ASSUME NoLockLost PROVE Spec => ImplementsAgenda
  <1>1. Init => Settled
    BY DEF Init, Settled, NothingLost
  <1>2. Spec => []Settled
    BY <1>1, SettledStep, Inductive, PTL DEF Spec
  <1>3. Settled => NothingLost
    BY DEF Settled
  <1>. QED
    BY <1>2, <1>3, ImplementsWhileHeld, PTL
=============================================================================
