----------------------------- MODULE MCServiceDay -----------------------------
(* Instances of ServiceDay for TLC.                                        *)
EXTENDS ServiceDay, TLC

CONSTANTS h1, h2

TwoHandlers == {h1, h2}
OneRefund   == {1}

Interchangeable == Permutations(Handlers)
=============================================================================
