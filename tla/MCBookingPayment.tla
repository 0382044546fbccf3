--------------------------- MODULE MCBookingPayment ---------------------------
(* Instances of BookingPayment for TLC: two or three handlers in flight.   *)
EXTENDS BookingPayment, TLC

CONSTANTS h1, h2, h3

OneHandler    == {h1}
TwoHandlers   == {h1, h2}
ThreeHandlers == {h1, h2, h3}

HandlerSymmetry == Permutations(Handlers)
=============================================================================
