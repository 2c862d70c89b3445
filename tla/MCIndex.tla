------------------------------ MODULE MCIndex ------------------------------
(* Model checking Index: four ways a ledger can start. *)
EXTENDS Index

Admin == <<"admin", "d1">>

(* A role, a domain, an account and a peer. *)
Setup ==
  <<[type |-> "CreateRole", role |-> "r1", perms |-> {"read"}],
    [type |-> "CreateDomain", domain |-> "d1", role |-> "r1"],
    [type |-> "CreateAccount", account |-> Admin],
    [type |-> "AddPeer", key |-> "k1", address |-> "old"]>>

Quorum2 == <<[type |-> "SetAccountQuorum", account |-> Admin, quorum |-> 2]>>

(* The creator is an account that the block itself creates; there is no    *)
(* creator; the second transaction has none; a signatory has a key that    *)
(* cannot be read.                                                         *)
FirstBlocks ==
  {<<Tx(Admin, 0, <<"k1">>, Setup)>>,
   <<Tx(Admin, 0, <<"k1", "long">>, Setup)>>,
   <<Tx(NoCreator, 0, <<>>, Setup)>>,
   <<Tx(Admin, 0, <<"k1", "k2">>, Setup), Tx(NoCreator, 0, <<"k2">>, Quorum2)>>}
=============================================================================
