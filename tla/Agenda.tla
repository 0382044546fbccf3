--------------------------------- MODULE Agenda ---------------------------------
(***************************************************************************)
(* What the creation of bookings promises each client: among a client's    *)
(* own bookings with a provider, a new one never takes time that another   *)
(* one holds, and a booking that has given its time up does not get it     *)
(* back.                                                                   *)
(***************************************************************************)
CONSTANTS
    Clients, Rows, Starts,
    Clash,          \* pairs of starts whose bookings would overlap
    Free, Gone

VARIABLE taken      \* taken[c][r]: the time row r holds in c's agenda, Free or Gone

Holds(c, r) == taken[c][r] \in Starts

Init == taken = [c \in Clients |-> [r \in Rows |-> Free]]

Take(c, r, s) ==
    /\ taken[c][r] = Free
    /\ \A q \in Rows : Holds(c, q) => <<taken[c][q], s>> \notin Clash
    /\ taken' = [taken EXCEPT ![c][r] = s]

GiveUp(c, r) ==
    /\ Holds(c, r)
    /\ taken' = [taken EXCEPT ![c][r] = Gone]

Next == \E c \in Clients, r \in Rows : GiveUp(c, r) \/ \E s \in Starts : Take(c, r, s)

Spec == Init /\ [][Next]_taken
=============================================================================
