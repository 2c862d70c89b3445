------------------------------- MODULE Index -------------------------------
(***************************************************************************)
(* The in-memory index: the tables of db.cpp and the indexing half of      *)
(* addBlock, which fills them from the commands of each block.             *)
(*                                                                         *)
(* The peer executes transactions into a block and commits it; addBlock    *)
(* runs over the whole block at once, in the thread that also answers the  *)
(* queries.  Tables are sequences and an index is a position in one; a     *)
(* query that finds an optional empty is undefined, as dereferencing it    *)
(* is.  A hash is what was hashed.  What the queries show is compared with *)
(* the peer's ledger and world state.                                      *)
(***************************************************************************)
EXTENDS Fields, FiniteSets

CONSTANTS
  HexKeys,        \* the keys that are 64 hex digits
  Genesis,        \* the name of the stubs of a first block without a creator
  GenesisBlocks,  \* the blocks a ledger may start with
  MaxTxs,         \* bound: transactions after the first block
  MaxBlock,       \* bound: transactions in a block
  MaxBlocks       \* bound: blocks

ASSUME ConstantsAssumption ==
  /\ HexKeys \subseteq Keys
  /\ MaxTxs \in Nat /\ MaxBlock \in Nat /\ MaxBlocks \in Nat
  /\ NoCreator \notin AccountIds /\ Genesis \notin AccountIds
  /\ Genesis \notin Domains /\ Genesis \notin Roles
  /\ \A txs \in GenesisBlocks : txs \in Seq(Txs) /\ ValidFirst(txs)

VARIABLES
  ledger,   \* the committed blocks; a block is a sequence of transactions
  block,    \* the transactions executed for the next block
  world,    \* the peer's world state after ledger and block
  db        \* the index

vars == <<ledger, block, world, db>>

(* The tables of db.cpp and their counters. *)
EmptyDb ==
  [block_bytes     |-> <<>>,  \* what the blocks were serialized to
   block_count     |-> 0,
   block_hash      |-> <<>>,
   block_tx_count  |-> <<0>>,  \* Len: offsets of the blocks' first transactions
   tx_count        |-> 0,
   tx_hash         |-> <<>>,
   tx_time         |-> <<>>,
   tx_creator      |-> <<>>,   \* account of each transaction
   tx_pubs         |-> <<>>,   \* lists of positions in all_pub
   tx_cmds         |-> <<>>,   \* views into the bytes of the block
   account_count   |-> 0,
   account_id      |-> <<>>,
   account_quorum  |-> <<>>,
   account_roles   |-> <<>>,   \* lists of positions in role_name
   account_grant   |-> {},     \* <<by, to, permission>>
   peer_count      |-> 0,
   peer_address    |-> <<>>,
   peer_pub        |-> <<>>,
   role_count      |-> 0,
   role_name       |-> <<>>,
   role_perms      |-> <<>>,
   domain_count    |-> 0,
   domain_id       |-> <<>>,
   domain_role     |-> <<>>,
   domain_tx_count |-> <<>>,
   all_pub         |-> <<>>,
   undefined       |-> FALSE]  \* an empty optional was dereferenced

Init ==
  /\ ledger = <<>>
  /\ block = <<>>
  /\ world = EmptyWorld
  /\ db = EmptyDb
-----------------------------------------------------------------------------
(* Hashed::find: the position of a value, the first of several equal ones; *)
(* 0 is the empty optional.                                                *)
Find(table, value) == SelectInSeq(table, LAMBDA v : v = value)

(* Linked::Vector: lists that are there once a value is added, which comes *)
(* before the others of its list.                                          *)
ListAt(lists, i) == IF i <= Len(lists) THEN lists[i] ELSE <<>>

AddAt(lists, i, value) ==
  [j \in 1 .. (IF i > Len(lists) THEN i ELSE Len(lists)) |->
     IF j = i THEN <<value>> \o ListAt(lists, i) ELSE ListAt(lists, j)]

(* sha256 of a transaction's reduced payload, which has no signatures, and *)
(* of a block's payload, which is the block without the peers' signatures. *)
TxHash(tx) == [by |-> tx.by, time |-> tx.time, cmds |-> tx.cmds]
BlockHash(height, txs) == <<height, txs>>

(* Iroha accepts no transaction twice; a time is the number of those before*)
(* it, and no later in a first block, which one moment may have created.   *)
ASSUME GenesisAssumption ==
  \A txs \in GenesisBlocks : \A j, k \in DOMAIN txs :
    /\ txs[j].time < Len(txs)
    /\ TxHash(txs[j]) = TxHash(txs[k]) => j = k

Undefined(d) == [d EXCEPT !.undefined = TRUE]

(* txCreator and txCreatorDomain: an empty creator is the stub, which is   *)
(* first in its table.                                                     *)
TxCreator(d, tx) == IF tx.by = NoCreator THEN 1 ELSE Find(d.account_id, tx.by)

TxCreatorDomain(d, tx) ==
  IF tx.by = NoCreator THEN 1 ELSE Find(d.domain_id, DomainOf(tx.by))

NeedsStubFirstTx(txs) == txs # <<>> /\ txs[1].by = NoCreator

(* genesis::check looks for a transaction of the first block without a     *)
(* creator and adds a role, a domain and an account for it.                *)
NeedsStub(txs) == \E i \in DOMAIN txs : txs[i].by = NoCreator

Stubs(d) ==
  [d EXCEPT !.role_count      = @ + 1,
            !.role_name       = Append(@, Genesis),
            !.role_perms      = Append(@, {}),
            !.domain_count    = @ + 1,
            !.domain_id       = Append(@, Genesis),
            !.domain_role     = Append(@, 1),
            !.domain_tx_count = Append(@, 0),
            !.account_count   = @ + 1,
            !.account_id      = Append(@, Genesis),
            !.account_quorum  = Append(@, 0)]

CheckGenesisNoQuorum(d, txs) ==
  IF d.block_count = 0 /\ NeedsStub(txs)
  THEN [Stubs(d) EXCEPT !.account_quorum = d.account_quorum]
  ELSE d

CheckGenesis(d, txs) ==
  IF d.block_count = 0 /\ NeedsStub(txs) THEN Stubs(d) ELSE d

CreateAccountNoRole(d, cmd) ==
  [d EXCEPT !.account_count  = @ + 1,
            !.account_id     = Append(@, cmd.account),
            !.account_quorum = Append(@, 1)]

CreateAccount(d, cmd) ==
  LET domain == Find(d.domain_id, DomainOf(cmd.account))
  IN IF domain = 0
     THEN Undefined(d)
     ELSE [d EXCEPT !.account_count  = @ + 1,
                    !.account_id     = Append(@, cmd.account),
                    !.account_quorum = Append(@, 1),
                    !.account_roles  =
                      AddAt(@, d.account_count + 1, d.domain_role[domain])]

AppendRole(d, cmd) ==
  LET account == Find(d.account_id, cmd.account)
      role    == Find(d.role_name, cmd.role)
  IN IF account = 0 \/ role = 0
     THEN Undefined(d)
     ELSE [d EXCEPT !.account_roles = AddAt(@, account, role)]

SetAccountQuorum(d, cmd) ==
  LET account == Find(d.account_id, cmd.account)
  IN IF account = 0
     THEN Undefined(d)
     ELSE [d EXCEPT !.account_quorum[account] = cmd.quorum]

GrantSwapped(d, tx, cmd) ==
  LET to == Find(d.account_id, cmd.account)
      by == TxCreator(d, tx)
  IN [d EXCEPT !.account_grant = @ \cup {<<to, by, cmd.perm>>}]

(* account_grant is a bimap without a relation collection of its own, so   *)
(* that its find compares only the left side: a pair of the same granter,  *)
(* whoever it is with, takes the permission, and no other pair is added.   *)
GrantPermission(d, tx, cmd) ==
  LET to    == Find(d.account_id, cmd.account)
      by    == TxCreator(d, tx)
      found == {g \in d.account_grant : g[1] = by}
      with  == IF found = {} THEN to ELSE (CHOOSE g \in found : TRUE)[2]
  IN IF to = 0 \/ by = 0
     THEN Undefined(d)
     ELSE [d EXCEPT !.account_grant = @ \cup {<<by, with, cmd.perm>>}]

(* unhex gives an empty optional for a key that is not 64 hex digits.      *)
AddPeer(d, cmd) ==
  IF cmd.key \notin HexKeys
  THEN Undefined(d)
  ELSE [d EXCEPT !.peer_count   = @ + 1,
                 !.peer_address = Append(@, cmd.address),
                 !.peer_pub     = Append(@, cmd.key)]

CreateRole(d, cmd) ==
  [d EXCEPT !.role_count = @ + 1,
            !.role_name  = Append(@, cmd.role),
            !.role_perms = Append(@, cmd.perms)]

CreateDomain(d, cmd) ==
  LET role == Find(d.role_name, cmd.role)
  IN IF role = 0
     THEN Undefined(d)
     ELSE [d EXCEPT !.domain_count    = @ + 1,
                    !.domain_id       = Append(@, cmd.domain),
                    !.domain_role     = Append(@, role),
                    !.domain_tx_count = Append(@, 0)]

(* The switch of addBlock; the other commands change no table. *)
AddCommand(d, tx, cmd) ==
  CASE cmd.type = "CreateAccount"    -> CreateAccount(d, cmd)
    [] cmd.type = "AppendRole"       -> AppendRole(d, cmd)
    [] cmd.type = "SetAccountQuorum" -> SetAccountQuorum(d, cmd)
    [] cmd.type = "GrantPermission"  -> GrantPermission(d, tx, cmd)
    [] cmd.type = "AddPeer"          -> AddPeer(d, cmd)
    [] cmd.type = "CreateRole"       -> CreateRole(d, cmd)
    [] cmd.type = "CreateDomain"     -> CreateDomain(d, cmd)
    [] OTHER                         -> d

AddSignerAlways(d, key) ==
  LET all == Append(d.all_pub, key)
  IN [d EXCEPT !.all_pub = all, !.tx_pubs = AddAt(@, d.tx_count, Len(all))]

(* The keys that signed, likewise: each is stored once in all_pub. *)
AddSigner(d, key) ==
  LET known == Find(d.all_pub, key)
      all   == IF known = 0 THEN Append(d.all_pub, key) ELSE d.all_pub
  IN IF key \notin HexKeys
     THEN Undefined(d)
     ELSE [d EXCEPT !.all_pub = all,
                    !.tx_pubs = AddAt(@, d.tx_count, IF known = 0 THEN Len(all) ELSE known)]

(* The end of a transaction: the creator is looked up after its commands,  *)
(* which in a first block may have created it.                             *)
EndTx(d, tx) ==
  LET account == TxCreator(d, tx)
      domain  == TxCreatorDomain(d, tx)
  IN IF account = 0 \/ domain = 0
     THEN Undefined(d)
     ELSE [d EXCEPT !.tx_creator = Append(@, account),
                    !.domain_tx_count[domain] = @ + 1]

BeginTx(d, tx) ==
  [d EXCEPT !.tx_count = @ + 1,
            !.tx_hash  = Append(@, TxHash(tx)),
            !.tx_time  = Append(@, tx.time)]

AddTxCreatorFirst(d, tx) ==
  LET signed == FoldLeft(AddSigner, BeginTx(d, tx), tx.signers)
  IN FoldLeft(LAMBDA e, cmd : AddCommand(e, tx, cmd), EndTx(signed, tx), tx.cmds)

AddTx(d, tx) ==
  LET signed   == FoldLeft(AddSigner, BeginTx(d, tx), tx.signers)
      executed == FoldLeft(LAMBDA e, cmd : AddCommand(e, tx, cmd), signed, tx.cmds)
  IN EndTx(executed, tx)

(* addBlock, without the file of the cache: the bytes, the stubs, the      *)
(* block's own entries, the ranges of its commands, its transactions.      *)
AddBlock(d, txs) ==
  LET checked == CheckGenesis(d, txs)
      height  == checked.block_count + 1
      bytes   == Serialize(txs)
      counted == [checked EXCEPT
                    !.block_bytes    = Append(@, bytes),
                    !.block_count    = height,
                    !.block_hash     = Append(@, BlockHash(height, txs)),
                    !.block_tx_count = Append(@, Last(@) + Len(txs)),
                    !.tx_cmds        = @ \o GetTxCmd(bytes)]
  IN FoldLeft(AddTx, counted, txs)
-----------------------------------------------------------------------------
(* The first block comes from outside and is not validated. *)
CommitGenesis ==
  /\ ledger = <<>>
  /\ \E txs \in GenesisBlocks :
       /\ ledger' = <<txs>>
       /\ world' = EffectOfTxs(world, txs)
       /\ db' = AddBlock(db, txs)
  /\ UNCHANGED block

(* The peer executes a transaction of an existing account.  It takes keys  *)
(* that are longer than the explorer's, too.  Nothing is said of what      *)
(* follows when the index is undefined.                                    *)
Execute ==
  /\ ledger # <<>> /\ Len(ledger) < MaxBlocks /\ ~db.undefined
  /\ Len(block) < MaxBlock
  /\ db.tx_count + Len(block) < MaxTxs + Len(ledger[1])
  /\ \E by \in AccountsOf(world), cmd \in Commands, signer \in Keys :
       /\ Valid(world, by, cmd)
       /\ block' = Append(block, Tx(by, db.tx_count + Len(block), <<signer>>, <<cmd>>))
       /\ world' = Effect(world, by, cmd)
  /\ UNCHANGED <<ledger, db>>

(* The block is committed, empty if it has only rejected transactions, and *)
(* reaches addBlock.                                                       *)
Commit ==
  /\ ledger # <<>> /\ Len(ledger) < MaxBlocks /\ ~db.undefined
  /\ ledger' = Append(ledger, block)
  /\ block' = <<>>
  /\ db' = AddBlock(db, block)
  /\ UNCHANGED world

Next == CommitGenesis \/ Execute \/ Commit

Spec == Init /\ [][Next]_vars
-----------------------------------------------------------------------------
(* What the queries of gql read from the tables.                           *)

(* Query.accountById, .roleByName, .domainById, .peerByPublicKey and       *)
(* .transactionByHash: a position, or 0 for null.                          *)
AccountById(id)         == Find(db.account_id, id)
RoleByName(name)        == Find(db.role_name, name)
DomainById(id)          == Find(db.domain_id, id)
PeerByPublicKey(key)    == Find(db.peer_pub, key)
TransactionByHash(hash) == Find(db.tx_hash, hash)

BlockByHeight(height) ==
  IF height <= 0 \/ height > db.block_count THEN 0 ELSE height

(* Query.blockCount and the others, and /metrics. *)
Counts ==
  [blocks |-> db.block_count, transactions |-> db.tx_count,
   accounts |-> db.account_count, peers |-> db.peer_count,
   roles |-> db.role_count, domains |-> db.domain_count]

(* The lists, page by page, go up to the counter. *)
AccountList == 1 .. db.account_count
PeerList    == 1 .. db.peer_count
RoleList    == 1 .. db.role_count
DomainList  == 1 .. db.domain_count

AccountRoles(a) == ToSet(ListAt(db.account_roles, a))

(* What a role or an account shows of its permissions. *)
RoleView(r) == <<db.role_name[r], db.role_perms[r]>>

AccountPermissionsOfOne(a) ==
  LET roles == ListAt(db.account_roles, a)
  IN IF roles = <<>> THEN {} ELSE db.role_perms[Head(roles)]

AccountPermissions(a) == UNION {db.role_perms[r] : r \in AccountRoles(a)}

GrantView(g) == <<db.account_id[g[1]], db.account_id[g[2]], g[3]>>

(* permissionsGranted, by an account or to it. *)
PermissionsGrantedBy(a) == {GrantView(g) : g \in {h \in db.account_grant : h[1] = a}}
PermissionsGrantedTo(a) == {GrantView(g) : g \in {h \in db.account_grant : h[2] = a}}

DomainView(d) == <<db.domain_id[d], db.role_name[db.domain_role[d]]>>

CountPerDomain(d) == <<db.domain_id[d], db.domain_tx_count[d]>>

PeerView(p) == <<db.peer_pub[p], db.peer_address[p]>>

(* txBlock(i), counted from 1: Len::index, by upper_bound. *)
TxBlockLower(i) ==
  Cardinality({k \in 1 .. Len(db.block_tx_count) : db.block_tx_count[k] < i - 1})

TxBlock(i) ==
  Cardinality({k \in 1 .. Len(db.block_tx_count) : db.block_tx_count[k] <= i - 1})

CommandsJson(i) == TxCmdJson(db.block_bytes[TxBlock(i)], db.tx_cmds[i])

(* The time of a transaction is the one that its creator gave it, and not  *)
(* the "Transaction commit time" of gql.gql; it is compared with neither.  *)
TransactionView(i) ==
  [hash      |-> db.tx_hash[i],
   createdBy |-> db.account_id[db.tx_creator[i]],
   height    |-> TxBlock(i),
   signers   |-> {db.all_pub[p] : p \in ToSet(ListAt(db.tx_pubs, i))}]

(* Block.transactions: from the block's offset up to the next one. *)
BlockView(b) ==
  [hash         |-> db.block_hash[b],
   previous     |-> IF b = 1 THEN "-" ELSE db.block_hash[b - 1],
   count        |-> db.block_tx_count[b + 1] - db.block_tx_count[b],
   transactions |-> [k \in 1 .. db.block_tx_count[b + 1] - db.block_tx_count[b] |->
                       TransactionView(db.block_tx_count[b] + k)]]

(* All objects of the lists, without the stubs. *)
ShownAccounts == {a \in AccountList : db.account_id[a] # Genesis}

Shown ==
  [roles    |-> {RoleView(r) : r \in {s \in RoleList : db.role_name[s] # Genesis}},
   domains  |-> {DomainView(d) :
                   d \in {e \in DomainList : db.domain_id[e] # Genesis}},
   accounts |-> {<<db.account_id[a], db.account_quorum[a]>> : a \in ShownAccounts},
   has_role |-> UNION {{<<db.account_id[a], db.role_name[r]>> : r \in AccountRoles(a)} :
                       a \in ShownAccounts},
   granted  |-> UNION {PermissionsGrantedBy(a) : a \in ShownAccounts},
   peers    |-> {PeerView(p) : p \in PeerList}]

(* Block and index agree between blocks only. *)
Settled == block = <<>>

(* Every position stored in a table is one of the table it refers to, and  *)
(* a counter is the length of each table of its objects.                   *)
TypeOK ==
  /\ ledger \in Seq(Seq(Txs))
  /\ db.undefined \in BOOLEAN
  /\ \A a \in AccountList : AccountRoles(a) \subseteq RoleList
  /\ Len(db.account_id) = db.account_count
  /\ Len(db.account_quorum) = db.account_count
  /\ Len(db.account_roles) <= db.account_count
  /\ Len(db.role_name) = db.role_count
  /\ Len(db.role_perms) = db.role_count
  /\ ToSet(db.domain_role) \subseteq RoleList
  /\ Len(db.domain_id) = db.domain_count
  /\ Len(db.domain_role) = db.domain_count
  /\ Len(db.domain_tx_count) = db.domain_count
  /\ Len(db.block_hash) = db.block_count
  /\ Len(db.block_tx_count) = db.block_count + 1
  /\ Last(db.block_tx_count) = db.tx_count
  /\ Len(db.tx_hash) = db.tx_count /\ Len(db.tx_time) = db.tx_count
  /\ Len(db.tx_cmds) = db.tx_count
  /\ Len(db.tx_pubs) <= db.tx_count
  /\ Len(db.tx_creator) = db.tx_count
  /\ ToSet(db.tx_creator) \subseteq AccountList
  /\ \A g \in db.account_grant : {g[1], g[2]} \subseteq AccountList
  /\ \A i \in DOMAIN db.tx_pubs : ToSet(db.tx_pubs[i]) \subseteq DOMAIN db.all_pub
  /\ Len(db.peer_pub) = db.peer_count /\ Len(db.peer_address) = db.peer_count

(* The keys of the ledger are such as the explorer can read. *)
Readable ==
  \A b \in DOMAIN ledger : \A k \in DOMAIN ledger[b] :
    LET tx == ledger[b][k]
    IN /\ ToSet(tx.signers) \subseteq HexKeys
       /\ \A c \in DOMAIN tx.cmds :
            tx.cmds[c].type = "AddPeer" => tx.cmds[c].key \in HexKeys

(* A command of the ledger took something away again. *)
Removed ==
  \E b \in DOMAIN ledger : \E k \in DOMAIN ledger[b] :
    \E c \in DOMAIN ledger[b][k].cmds : Removal(ledger[b][k].cmds[c])

(* Totals, in which the stubs of the first block are counted, too. *)
TotalsRight ==
  LET stub == IF \E i \in DOMAIN ledger[1] : ledger[1][i].by = NoCreator
              THEN 1 ELSE 0
  IN Counts =
       [blocks       |-> Len(ledger),
        transactions |-> FoldLeft(LAMBDA n, txs : n + Len(txs), 0, ledger),
        accounts     |-> Cardinality(world.accounts) + stub,
        peers        |-> Cardinality(world.peers),
        roles        |-> Cardinality(world.roles) + stub,
        domains      |-> Cardinality(world.domains) + stub]

(* Who granted which permissions, and who granted any to whom. *)
GivenBy(grants)    == {<<g[1], g[3]>> : g \in grants}
GivenPairs(grants) == {<<g[1], g[2]>> : g \in grants}

(* The grants of accounts that have granted permissions to one only. *)
OfOneGrantee(grants) ==
  {g \in grants : \A h, i \in world.granted :
                    h[1] = g[1] /\ i[1] = g[1] => h[2] = i[2]}

(* The queries show the peer's world state, as long as no command has taken*)
(* anything away again: its objects and totals, who granted what, and each *)
(* grant, from both sides, of an account that granted to one account only. *)
ShowsWorld ==
  Readable /\ Settled /\ ~Removed =>
    /\ [Shown EXCEPT !.granted = {}] = [world EXCEPT !.granted = {}]
    /\ GivenBy(Shown.granted) = GivenBy(world.granted)
    /\ GivenPairs(Shown.granted) \subseteq GivenPairs(world.granted)
    /\ OfOneGrantee(Shown.granted) = OfOneGrantee(world.granted)
    /\ UNION {PermissionsGrantedTo(a) : a \in ShownAccounts} = Shown.granted
    /\ ledger # <<>> => TotalsRight

(* With such commands the queries still miss nothing that is there, but for*)
(* some of the accounts to which one account has granted permissions.      *)
HidesNothing ==
  Readable /\ Settled =>
    /\ Shown.roles = world.roles
    /\ Shown.domains = world.domains
    /\ Shown.accounts = world.accounts
    /\ world.has_role \subseteq Shown.has_role
    /\ GivenBy(world.granted) \subseteq GivenBy(Shown.granted)
    /\ world.peers \subseteq Shown.peers

(* Account.permissionsGrantedBy and -To are the "Permissions granted by    *)
(* this account" and to it that there are (gql.gql).                       *)
GrantsListed == Readable /\ Settled => world.granted \subseteq Shown.granted

(* No block of a valid ledger makes addBlock dereference an empty optional,*)
(* with or without the stubs of the first block, if its keys are readable. *)
NeverUndefined == Readable => ~db.undefined

(* The name the queries give to the creator of a transaction. *)
CreatorName(tx) == IF tx.by = NoCreator THEN Genesis ELSE tx.by

(* The whole ledger can be read back: each block, found by its height, with*)
(* its hash and the one of the block before, and its transactions in order,*)
(* each with its hash, creator, block and signatories, also behind empty   *)
(* blocks; no other height is found, and a transaction is found by its     *)
(* hash.                                                                   *)
LedgerReadsBack ==
  Readable =>
  /\ \A height \in 0 .. Len(ledger) + 1 :
       BlockByHeight(height) = IF height \in DOMAIN ledger THEN height ELSE 0
  /\ \A b \in DOMAIN ledger :
       BlockView(b) =
         [hash         |-> BlockHash(b, ledger[b]),
          previous     |-> IF b = 1 THEN "-" ELSE BlockHash(b - 1, ledger[b - 1]),
          count        |-> Len(ledger[b]),
          transactions |->
            [k \in DOMAIN ledger[b] |->
               [hash      |-> TxHash(ledger[b][k]),
                createdBy |-> CreatorName(ledger[b][k]),
                height    |-> b,
                signers   |-> ToSet(ledger[b][k].signers)]]]
  /\ \A i \in 1 .. db.tx_count : TransactionByHash(db.tx_hash[i]) = i

(* Transaction.commandsJson is the JSON array of the commands of the       *)
(* transaction, read from the bytes of the block that txBlock finds, at the*)
(* range that getTxCmd remembered.                                         *)
CommandsShown ==
  Readable => \A b \in DOMAIN ledger : \A k \in DOMAIN ledger[b] :
    LET tx == ledger[b][k]
    IN tx.cmds # <<>> =>
         CommandsJson(db.block_tx_count[b] + k) = JsonArray(tx.cmds)

DomainName(tx) == IF tx.by = NoCreator THEN Genesis ELSE DomainOf(tx.by)

(* Query.transactionCountPerDomain counts each transaction once, for the   *)
(* domain of its creator.                                                  *)
DomainCounts ==
  Readable => \A d \in DomainList :
    CountPerDomain(d) =
      <<db.domain_id[d],
        Cardinality({bk \in (DOMAIN ledger) \X (1 .. db.tx_count) :
                       /\ bk[2] \in DOMAIN ledger[bk[1]]
                       /\ DomainName(ledger[bk[1]][bk[2]]) = db.domain_id[d]})>>

(* Account.permissions are those of all roles of the account in the peer's *)
(* world, no matter in which order roles and accounts were created.        *)
PermissionsShown ==
  Readable /\ Settled /\ ~Removed =>
    \A a \in ShownAccounts :
      AccountPermissions(a) =
        UNION {r[2] : r \in {x \in world.roles :
                              <<db.account_id[a], x[1]>> \in world.has_role}}

(* What a list shows is what its name leads to: finding an object by its   *)
(* name finds the only one of that name.                                   *)
NamesUnique ==
  Readable =>
  /\ \A a \in AccountList : AccountById(db.account_id[a]) = a
  /\ \A r \in RoleList : RoleByName(db.role_name[r]) = r
  /\ \A d \in DomainList : DomainById(db.domain_id[d]) = d
  /\ Cardinality(ToSet(db.all_pub)) = Len(db.all_pub)
  /\ ~Removed => \A p \in PeerList : PeerByPublicKey(db.peer_pub[p]) = p

(* Also after such commands the queries show what there is: Account.roles  *)
(* the roles of the account, permissionsGrantedBy and -To what is granted, *)
(* and peerByPublicKey the peer of a key, or null if it does not exist.    *)
ShowsWhatExists ==
  Readable /\ Settled =>
    /\ [Shown EXCEPT !.granted = {}] = [world EXCEPT !.granted = {}]
    /\ OfOneGrantee(Shown.granted) = OfOneGrantee(world.granted)
    /\ \A key \in Keys :
         {PeerView(p) : p \in {PeerByPublicKey(key)} \ {0}}
           = {x \in world.peers : x[1] = key}
=============================================================================
