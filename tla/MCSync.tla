------------------------------- MODULE MCSync -------------------------------
(* Model checking Sync: kinds of peers; the workers are interchangeable,   *)
(* where no liveness is checked.                                           *)
EXTENDS Sync, TLC

WorkerSymmetry == Permutations(Workers)

Good     == {[prompt |-> TRUE, refuses |-> FALSE]}
Late     == {[prompt |-> FALSE, refuses |-> FALSE]}
Refusing == {[prompt |-> FALSE, refuses |-> TRUE]}

GoodOrRefusing == Good \cup Refusing
=============================================================================
