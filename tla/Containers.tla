----------------------------- MODULE Containers -----------------------------
(***************************************************************************)
(* What the data structures of ds stand for: a list of sizes, a list of    *)
(* values for every index, and the first place of every value.             *)
(***************************************************************************)
EXTENDS Naturals, Sequences

CONSTANTS Sizes, Indices, Values

VARIABLES
  sizes,   \* Len: the sizes, in order
  lists,   \* Linked::Vector: the list of each index
  places   \* Hashed: where each value is found; {} when it is not

vars == <<sizes, lists, places>>

Init ==
  /\ sizes = <<>>
  /\ lists = [i \in Indices |-> <<>>]
  /\ places = [v \in Values |-> {}]

(* One more size at the end. *)
Grow ==
  /\ \E n \in Sizes : sizes' = Append(sizes, n)
  /\ UNCHANGED <<lists, places>>

(* Only the first sizes stay. *)
Shorten ==
  /\ \E n \in 0 .. Len(sizes) : sizes' = SubSeq(sizes, 1, n)
  /\ UNCHANGED <<lists, places>>

(* A value before the others of one list. *)
Add ==
  /\ \E i \in Indices, v \in Values : lists' = [lists EXCEPT ![i] = <<v>> \o @]
  /\ UNCHANGED <<sizes, places>>

(* A value that had no place has one from now on, and no other value has   *)
(* it; the places that values have stay.                                   *)
Place ==
  /\ \E v \in Values :
       /\ places[v] = {}
       /\ places'[v] # {}
       /\ places' = [places EXCEPT ![v] = places'[v]]
       /\ \A w \in Values \ {v} : places[w] \cap places'[v] = {}
  /\ UNCHANGED <<sizes, lists>>

Next == Grow \/ Shorten \/ Add \/ Place

Spec == Init /\ [][Next]_vars
=============================================================================
