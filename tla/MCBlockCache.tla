---------------------------- MODULE MCBlockCache ----------------------------
(* Model checking BlockCache with two ledgers, written as strings. *)
EXTENDS BlockCache

TwoLedgers == {"mainnet", "testnet"}
=============================================================================
