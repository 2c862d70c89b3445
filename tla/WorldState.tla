----------------------------- MODULE WorldState -----------------------------
(***************************************************************************)
(* What the peer's commands mean: the part of Iroha's world state that the *)
(* explorer shows, when a command is valid in it and what it changes.      *)
(* Iroha is not part of the repository; this module is the reference that  *)
(* the index is compared with.                                             *)
(***************************************************************************)
EXTENDS Naturals, Sequences, SequencesExt

CONSTANTS
  Names,     \* account names
  Domains,   \* domain ids
  Roles,     \* role names
  Keys,      \* public keys of peers and signatories
  Perms,     \* grantable permissions
  RolePerms, \* permissions a role may have
  NoCreator  \* the empty creator_account_id of a genesis transaction

(* An account id is NAME@DOMAIN. *)
AccountIds == Names \X Domains
DomainOf(account) == account[2]

(* A peer is known by its key and has an address; a peer that was removed  *)
(* may be added again with another one.                                    *)
Addresses == {"old", "new"}

Commands ==
       [type : {"CreateRole"}, role : Roles, perms : SUBSET RolePerms]
  \cup [type : {"CreateDomain"}, domain : Domains, role : Roles]
  \cup [type : {"CreateAccount"}, account : AccountIds]
  \cup [type : {"AppendRole", "DetachRole"}, account : AccountIds, role : Roles]
  \cup [type : {"SetAccountQuorum"}, account : AccountIds, quorum : {2}]
  \cup [type : {"GrantPermission", "RevokePermission"},
        account : AccountIds, perm : Perms]
  \cup [type : {"AddPeer"}, key : Keys, address : Addresses]
  \cup [type : {"RemovePeer"}, key : Keys]

(* The commands that take something away again. *)
Removal(cmd) == cmd.type \in {"DetachRole", "RevokePermission", "RemovePeer"}

(* Functions are sets of pairs, so that they are easily extended. *)
EmptyWorld ==
  [roles    |-> {},   \* <<role, permissions>>
   domains  |-> {},   \* <<domain, default role>>
   accounts |-> {},   \* <<account, quorum>>
   has_role |-> {},   \* <<account, role>>
   granted  |-> {},   \* <<by, to, permission>>
   peers    |-> {}]   \* <<key, address>>

AccountsOf(world) == {p[1] : p \in world.accounts}
DomainsOf(world)  == {p[1] : p \in world.domains}
PeersOf(world)    == {p[1] : p \in world.peers}
RolesOf(world)    == {p[1] : p \in world.roles}

(* The peer executes a command of an account only when this holds. *)
Valid(world, by, cmd) ==
  CASE cmd.type = "CreateRole" -> cmd.role \notin RolesOf(world)
    [] cmd.type = "CreateDomain" ->
         cmd.domain \notin DomainsOf(world) /\ cmd.role \in RolesOf(world)
    [] cmd.type = "CreateAccount" ->
         /\ cmd.account \notin AccountsOf(world)
         /\ DomainOf(cmd.account) \in DomainsOf(world)
    [] cmd.type = "AppendRole" ->
         /\ cmd.account \in AccountsOf(world) /\ cmd.role \in RolesOf(world)
         /\ <<cmd.account, cmd.role>> \notin world.has_role
    [] cmd.type = "DetachRole" -> <<cmd.account, cmd.role>> \in world.has_role
    [] cmd.type = "SetAccountQuorum" -> cmd.account \in AccountsOf(world)
    [] cmd.type = "GrantPermission" ->
         cmd.account \in AccountsOf(world) /\ by \in AccountsOf(world)
    [] cmd.type = "RevokePermission" ->
         <<by, cmd.account, cmd.perm>> \in world.granted
    [] cmd.type = "AddPeer" -> cmd.key \notin PeersOf(world)
    [] cmd.type = "RemovePeer" -> cmd.key \in PeersOf(world)

DefaultRole(world, domain) ==
  CHOOSE role \in Roles : <<domain, role>> \in world.domains

Effect(world, by, cmd) ==
  CASE cmd.type = "CreateRole" ->
         [world EXCEPT !.roles = @ \cup {<<cmd.role, cmd.perms>>}]
    [] cmd.type = "CreateDomain" ->
         [world EXCEPT !.domains = @ \cup {<<cmd.domain, cmd.role>>}]
    [] cmd.type = "CreateAccount" ->
         LET role == DefaultRole(world, DomainOf(cmd.account))
         IN [world EXCEPT !.accounts = @ \cup {<<cmd.account, 1>>},
                          !.has_role = @ \cup {<<cmd.account, role>>}]
    [] cmd.type = "AppendRole" ->
         [world EXCEPT !.has_role = @ \cup {<<cmd.account, cmd.role>>}]
    [] cmd.type = "DetachRole" ->
         [world EXCEPT !.has_role = @ \ {<<cmd.account, cmd.role>>}]
    [] cmd.type = "SetAccountQuorum" ->
         [world EXCEPT !.accounts =
            {p \in @ : p[1] # cmd.account} \cup {<<cmd.account, cmd.quorum>>}]
    [] cmd.type = "GrantPermission" ->
         [world EXCEPT !.granted = @ \cup {<<by, cmd.account, cmd.perm>>}]
    [] cmd.type = "RevokePermission" ->
         [world EXCEPT !.granted = @ \ {<<by, cmd.account, cmd.perm>>}]
    [] cmd.type = "AddPeer" ->
         [world EXCEPT !.peers = @ \cup {<<cmd.key, cmd.address>>}]
    [] cmd.type = "RemovePeer" ->
         [world EXCEPT !.peers = {p \in @ : p[1] # cmd.key}]

(* A transaction: who created it and when, who signed it, its commands. *)
Tx(by, time, signers, commands) ==
  [by |-> by, time |-> time, signers |-> signers, cmds |-> commands]

Txs == [by : AccountIds \cup {NoCreator}, time : Nat,
        signers : Seq(Keys), cmds : Seq(Commands)]

(* Executing a list of commands from the left, and one of transactions.    *)
EffectOfAll(world, by, commands) ==
  FoldLeft(LAMBDA w, cmd : Effect(w, by, cmd), world, commands)

EffectOfTxs(world, txs) ==
  FoldLeft(LAMBDA w, tx : EffectOfAll(w, tx.by, tx.cmds), world, txs)

(* The peer can execute a first block: each command is valid after those   *)
(* before it, and who created a transaction is an account at its end.      *)
ValidFirst(txs) ==
  \A k \in DOMAIN txs :
    LET tx == txs[k]
        before == EffectOfTxs(EmptyWorld, SubSeq(txs, 1, k - 1))
        After(n) == EffectOfAll(before, tx.by, SubSeq(tx.cmds, 1, n))
    IN /\ \A c \in DOMAIN tx.cmds : Valid(After(c - 1), tx.by, tx.cmds[c])
       /\ tx.by \in AccountsOf(After(Len(tx.cmds))) \cup {NoCreator}
=============================================================================
