------------------------------- MODULE WeeklyHours -------------------------------
(***************************************************************************)
(* The weekly slots of one provider: AvailabilityService.  A batch of      *)
(* changes looks the bookings up once, then checks and writes one item     *)
(* after the other, without a transaction; createAvailability is called    *)
(* on its own.                                                             *)
(***************************************************************************)
EXTENDS Integers, FiniteSets

CONSTANTS
    Days,           \* weekdays, 0 for Sunday
    Hours,          \* hours of a day, from 0
    Today, Now,     \* weekday and hour in Sao Paulo
    SlotIds,        \* ids of slots, each used once
    Changers,       \* requests in flight together
    MaxBooked       \* bound: bookings

ASSUME WeeklyHoursAssumption ==
    /\ Days \subseteq 0..6 /\ Days # {} /\ Hours \in Nat \ {0} /\ SlotIds # {}
    /\ Today \in 0..6 /\ Now \in Nat /\ MaxBooked \in Nat

Slot == {s \in [day : Days, from : 0..Hours, to : 0..Hours] : s.from < s.to}
Booked == [day : Days, hour : 0..Hours - 1]
Unused == [day |-> -1, from |-> 0, to |-> 0]
Removed == [day |-> -2, from |-> 0, to |-> 0]

VARIABLES
    slot,           \* each row: a slot, Unused or Removed
    booked,         \* the bookings that count, on their own weekday
    change,         \* each request: what it does next, with what
    loose,          \* createAvailability was used: it does not look at other slots
    met             \* two requests were in flight together

weeklyVars == <<slot, booked, change, loose, met>>

NoItem == CHOOSE s \in Slot : TRUE
NoChange == [do |-> "idle", id |-> CHOOSE i \in SlotIds : TRUE, item |-> NoItem, seen |-> {}]
Changing == {e \in Changers : change[e] # NoChange}
Slots == {i \in SlotIds : slot[i] \in Slot}

WeeklyInit ==
    /\ slot = [i \in SlotIds |-> Unused] /\ booked = {}
    /\ change = [e \in Changers |-> NoChange] /\ loose = FALSE /\ met = FALSE
-----------------------------------------------------------------------------
\* The weekday getSaoPauloDayRangeFromTimestamp gives for a scheduledDate: bookings
\* store midnight UTC, which is the evening before in Sao Paulo.
SaoPauloDay(day) == (day + 6) % 7

\* The conflict with a booking: it starts inside the item.
Covers(item, booking) ==
    /\ SaoPauloDay(booking.day) = item.day
    /\ item.from <= booking.hour /\ booking.hour < item.to

\* The conflict with another slot of the day.
StartsInside(item, other) ==
    item.day = other.day /\ other.from <= item.from /\ item.from < other.to
Meets(item, other) ==
    item.day = other.day /\ item.from < other.to /\ other.from < item.to

Past(item) == item.day = Today /\ item.to <= Now
Changes(e, step) == change' = [change EXCEPT ![e].do = step]
Leaves(e) == change' = [change EXCEPT ![e] = NoChange]
-----------------------------------------------------------------------------
\* updateAvailability: the bookings are looked up.
BatchBegins(e) ==
    /\ change[e] = NoChange
    /\ change' = [change EXCEPT ![e].do = "item", ![e].seen = booked]
    /\ met' = (met \/ Changing # {})
    /\ UNCHANGED <<slot, booked, loose>>

\* An item, checked against the bookings seen and the other slots as they are: a new
\* slot, a new time for slot i, or (with its time) slot i to be removed.
CheckItem(e) ==
    /\ change[e].do = "item"
    /\ \E item \in Slot, i \in SlotIds, step \in {"insert", "update", "remove"} :
          /\ ~Past(item)
          /\ \A b \in change[e].seen : ~Covers(item, b)
          /\ \A j \in Slots : (step # "insert" /\ j = i) \/ ~Meets(item, slot[j])
          /\ step = "insert" => slot[i] = Unused
          /\ change' = [change EXCEPT ![e].do = step, ![e].id = i, ![e].item = item]
    /\ UNCHANGED <<slot, booked, loose, met>>

\* A new slot gets a new row; the rest finds its row by id or fails.
WriteItem(e) ==
    LET i == change[e].id
    IN  /\ \/ /\ change[e].do = "insert"
              /\ \E j \in SlotIds : slot[j] = Unused /\ slot' = [slot EXCEPT ![j] = change[e].item]
           \/ /\ change[e].do = "update" /\ i \in Slots
              /\ slot' = [slot EXCEPT ![i] = change[e].item]
           \/ /\ change[e].do = "remove" /\ i \in Slots
              /\ slot' = [slot EXCEPT ![i] = Removed]
        /\ Changes(e, "item")
        /\ UNCHANGED <<booked, loose, met>>

\* The list ends, an item is refused or fails, or the process dies: what was written
\* of the batch stays.
BatchEnds(e) ==
    /\ change[e].do \in {"item", "insert", "update", "remove"}
    /\ Leaves(e)
    /\ UNCHANGED <<slot, booked, loose, met>>
-----------------------------------------------------------------------------
\* createAvailability, which looks for the same slot only.
CreateCheck(e) ==
    /\ change[e] = NoChange
    /\ \E item \in Slot :
          /\ ~Past(item)
          /\ \A j \in Slots : slot[j] # item
          /\ \A b \in booked : ~Covers(item, b)
          /\ change' = [change EXCEPT ![e].do = "create", ![e].item = item, ![e].seen = booked]
    /\ met' = (met \/ Changing # {})
    /\ UNCHANGED <<slot, booked, loose>>

CreateWrite(e) ==
    /\ change[e].do = "create"
    /\ \E i \in SlotIds : slot[i] = Unused /\ slot' = [slot EXCEPT ![i] = change[e].item]
    /\ loose' = TRUE
    /\ Leaves(e)
    /\ UNCHANGED <<booked, met>>

\* deleteAvailability.
DeleteSlot(i) ==
    /\ i \in Slots
    /\ slot' = [slot EXCEPT ![i] = Removed]
    /\ UNCHANGED <<booked, change, loose, met>>

\* A client books an hour of a slot.
HourBooked ==
    /\ \E b \in Booked \ booked :
          /\ \E i \in Slots : /\ slot[i].day = b.day
                              /\ slot[i].from <= b.hour /\ b.hour < slot[i].to
          /\ booked' = booked \cup {b}
    /\ Cardinality(booked) < MaxBooked
    /\ UNCHANGED <<slot, change, loose, met>>
-----------------------------------------------------------------------------
WeeklyNext ==
    \/ \E e \in Changers : \/ BatchBegins(e) \/ CheckItem(e) \/ WriteItem(e) \/ BatchEnds(e)
                           \/ CreateCheck(e) \/ CreateWrite(e)
    \/ \E i \in SlotIds : DeleteSlot(i)
    \/ HourBooked

WeeklySpec == WeeklyInit /\ [][WeeklyNext]_weeklyVars
-----------------------------------------------------------------------------
\* Every variable keeps its domain.
WeeklyTypeOK ==
    /\ slot \in [SlotIds -> Slot \cup {Unused, Removed}] /\ booked \subseteq Booked
    /\ change \in [Changers -> [do : {"idle", "item", "insert", "update", "remove", "create"},
                                id : SlotIds, item : Slot, seen : SUBSET Booked]]
    /\ loose \in BOOLEAN /\ met \in BOOLEAN

\* Whatever a batch changes, moves and removes, and wherever it stops, the slots of a
\* day stay apart: each item is checked against what the ones before it have written.
\* createAvailability and requests that overlap are left out: neither keeps this.
SlotsApart ==
    ~loose /\ ~met => \A i, j \in Slots : i # j => ~Meets(slot[i], slot[j])

\* updateAvailability's "Conflito com agendamento existente neste horario": an item that
\* was accepted has no booking, of those it looked up, that starts inside it.
BookedHoursKept ==
    \A e \in Changers, b \in Booked :
        change[e].do \in {"insert", "update", "remove"} /\ b \in change[e].seen
        => ~(/\ b.day = change[e].item.day
             /\ change[e].item.from <= b.hour /\ b.hour < change[e].item.to)
=============================================================================
