--------------------------- MODULE MCSlotReservation ---------------------------
(* Instances of SlotReservation for TLC.                                   *)
EXTENDS SlotReservation, TLC

CONSTANTS h1, h2, c1, c2, r1, r2

TwoHandlers == {h1, h2}
OneClient   == {c1}
TwoClients  == {c1, c2}
TwoRows     == {r1, r2}

\* Two starts that overlap: a booking lasts 2.
OneStart    == {0}
TwoStarts   == {0, 1}

\* What the apps offer (the published table), for bookings paid or expired.
Short   == {"CONFIRMED", "EXPIRED"}
Offered == {p \in Statuses \X Short : p[2] \in Transitions[p[1]]}

Interchangeable == Permutations(Handlers)
=============================================================================
