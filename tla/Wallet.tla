--------------------------------- MODULE Wallet ---------------------------------
(***************************************************************************)
(* What withdrawals promise a provider: an account without overdraft.      *)
(* A withdrawal is one step that finds the money there and takes it, once  *)
(* per key; everything else only adds to the funds.                        *)
(***************************************************************************)
EXTENDS Integers

CONSTANTS
    Keys,
    Price           \* Price[k]: what the withdrawal of key k takes, its fee included

VARIABLES
    funds,          \* what is on the account
    taken           \* the keys that have been withdrawn

Init == funds = 0 /\ taken = {}

Deposit ==
    /\ funds' \in Nat /\ funds' >= funds
    /\ UNCHANGED taken

Withdraw(k) ==
    /\ k \notin taken /\ taken' = taken \cup {k}
    /\ Price[k] <= funds /\ funds' = funds - Price[k]

Next == Deposit \/ \E k \in Keys : Withdraw(k)

Spec == Init /\ [][Next]_<<funds, taken>>
=============================================================================
