----------------------------- MODULE MCQueries -----------------------------
(* Model checking Queries: the arguments that the schema allows. *)
EXTENDS Queries

Ask(list, count, reverse, time_after, time_before) ==
  [list |-> list, count |-> count, reverse |-> reverse,
   time_after |-> time_after, time_before |-> time_before]

Bounds == Times \cup {None}
Counts == {-1, 0, 1, 2}

BlockRequests ==
  {Ask("blocks", c, r, a, b) : c \in Counts, r \in BOOLEAN, a \in Bounds, b \in Bounds}

TransactionRequests ==
  {Ask("transactions", c, FALSE, a, b) : c \in Counts, a \in Bounds, b \in Bounds}

(* Also for peers, roles and domains. *)
AccountRequests == {Ask("accounts", c, FALSE, None, None) : c \in Counts}

AllRequests == BlockRequests \cup TransactionRequests \cup AccountRequests

RequestsBack == {Ask("blocks", 2, TRUE, None, b) : b \in Times}
=============================================================================
