--------------------------------- MODULE Escrow ---------------------------------
(***************************************************************************)
(* What the payment of a booking promises the provider: the money that has *)
(* come in is put in escrow by one step, which enters the HOLD, the FEE    *)
(* and the record of the payment together.  It may be repeated, and enters *)
(* nothing then; the record may be reopened by a later charge, the entries *)
(* stay.                                                                   *)
(***************************************************************************)
VARIABLES
    answered,       \* the client has paid, or an administrator answers for it
    entries,        \* how many entries of each kind there are
    recorded        \* the payment is recorded as made

Nothing == [hold |-> 0, fee |-> 0]
InHold  == [hold |-> 1, fee |-> 1]

Init == ~answered /\ entries = Nothing /\ ~recorded

ComesIn ==
    /\ answered' = TRUE
    /\ UNCHANGED <<entries, recorded>>

PutInHold ==
    /\ answered /\ entries \in {Nothing, InHold}
    /\ entries' = InHold /\ recorded' = TRUE
    /\ UNCHANGED answered

Reopen ==
    /\ recorded' = FALSE
    /\ UNCHANGED <<answered, entries>>

Next == ComesIn \/ PutInHold \/ Reopen

Spec == Init /\ [][Next]_<<answered, entries, recorded>>
=============================================================================
