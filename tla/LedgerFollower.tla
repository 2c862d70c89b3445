--------------------------- MODULE LedgerFollower ---------------------------
(***************************************************************************)
(* What the explorer promises about its copy of the ledger, and nothing    *)
(* about how the copy is made: while it follows, the peer's ledger only    *)
(* grows and the copy is a gapless prefix of it that only grows, and the   *)
(* copy never stays behind for ever.  A follower that has stopped may be   *)
(* started again, with another copy and another peer, but only with a copy *)
(* that is not beyond the peer.                                            *)
(***************************************************************************)
EXTENDS Naturals

VARIABLES
  ledger,    \* number of blocks the peer has committed
  indexed,   \* number of blocks the explorer has indexed: heights 1..indexed
  stopped    \* TRUE once the explorer no longer follows

vars == <<ledger, indexed, stopped>>

TypeOK ==
  /\ ledger \in Nat
  /\ indexed \in Nat
  /\ stopped \in BOOLEAN

Init ==
  /\ ledger \in Nat
  /\ indexed \in Nat
  /\ stopped = TRUE

(* The peer commits one more block. *)
Grow ==
  /\ ledger' = ledger + 1
  /\ UNCHANGED <<indexed, stopped>>

(* The explorer appends the blocks that follow the ones it has. *)
Follow ==
  /\ \E n \in (indexed + 1) .. ledger : indexed' = n
  /\ UNCHANGED <<ledger, stopped>>

(* The explorer stops, and may lose its copy. *)
Stop ==
  /\ stopped' = TRUE
  /\ indexed' \in Nat
  /\ UNCHANGED ledger

(* While nothing is followed the copy is loaded or made anew, and another  *)
(* peer may take the place of the first.                                   *)
Reload ==
  /\ stopped /\ stopped' = TRUE
  /\ ledger' \in Nat
  /\ indexed' \in Nat

(* Following starts with a copy that the peer's ledger may go on from.     *)
Start ==
  /\ stopped /\ stopped' = FALSE
  /\ indexed <= ledger
  /\ UNCHANGED <<ledger, indexed>>

Next == Grow \/ Follow \/ Stop \/ Reload \/ Start

Spec == Init /\ [][Next]_vars

(* The eventual half of the promise: a follower that has not stopped does  *)
(* not stay behind for ever.                                               *)
NotBehindForEver == []<>(indexed >= ledger \/ stopped)

LiveSpec == Spec /\ NotBehindForEver
=============================================================================
