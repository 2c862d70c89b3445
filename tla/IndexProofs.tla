---------------------------- MODULE IndexProofs ----------------------------
(***************************************************************************)
(* Theorems about Index, for any accounts, roles, domains, keys, commands  *)
(* and first blocks, and ledgers of any length.                            *)
(*                                                                         *)
(* The world state is that of the peer: it is ahead of the index by the    *)
(* transactions of the block that is being put together.  IndexInv says of *)
(* a ledger whose keys can be read (Readable) that there is a world state  *)
(* w0 that the index shows and that these transactions lead on from.  The  *)
(* first block is executed by the peer too (ValidFirst): FirstExecutes     *)
(* finds what it leads through.                                            *)
(*                                                                         *)
(* BlocksIn says of the index that it has the ledger, CommandsIn that it   *)
(* knows where in its bytes the commands of each transaction are.          *)
(* Times says of times what tells two transactions apart: one of a later*)
(* block has a time that no transaction before its block has.              *)
(***************************************************************************)
EXTENDS IndexSteps

-----------------------------------------------------------------------------
(* What the peer executes.                                                 *)

(* Two runs go the same way as far as their sequences are the same. *)
LEMMA SameRun ==
  ASSUME NEW kind, NEW base, NEW n \in Nat, NEW seq, NEW h, FoldRun(kind, base, seq, n, h),
         NEW k \in 0 .. n, NEW part, NEW g, FoldRun(kind, base, part, k, g),
         \A i \in 1 .. k : part[i] = seq[i]
  PROVE  g[k] = h[k]
<1> DEFINE T == {i \in Nat : i <= k => g[i] = h[i]}
<1>1. 0 \in T
  BY DEF FoldRun
<1>2. ASSUME NEW i \in Nat, i \in T PROVE i + 1 \in T
  <2> SUFFICES ASSUME i + 1 <= k PROVE g[i + 1] = h[i + 1]
    OBVIOUS
  <2>1. /\ g[i] = h[i] /\ i + 1 \in 1 .. k /\ i + 1 \in 1 .. n /\ (i + 1) - 1 = i
    BY <1>2
  <2>2. g[i + 1] = FoldStep(kind, g[i], part[i + 1])
    BY <2>1 DEF FoldRun
  <2>3. h[i + 1] = FoldStep(kind, h[i], seq[i + 1])
    BY <2>1 DEF FoldRun
  <2> QED
    BY <2>1, <2>2, <2>3
<1>3. k \in T
  <2> HIDE DEF T
  <2> QED
    BY <1>1, <1>2, SetInduction
<1> QED
  BY <1>3

(* A fold over the beginning of a sequence is a beginning of its fold. *)
LEMMA Beginning ==
  ASSUME NEW S, NEW seq \in Seq(S), NEW k \in 0 .. Len(seq)
  PROVE  /\ SubSeq(seq, 1, k) \in Seq(S) /\ DOMAIN SubSeq(seq, 1, k) = 1 .. k
         /\ \A i \in 1 .. k : SubSeq(seq, 1, k)[i] = seq[i]
<1> DEFINE s == SubSeq(seq, 1, k)
<1>1. k \in Nat /\ Len(seq) \in Nat /\ k <= Len(seq) /\ seq \in [1 .. Len(seq) -> S]
  OBVIOUS
<1>2. s = [i \in 1 .. k |-> seq[i]]
  BY <1>1
<1>3. \A i \in 1 .. k : s[i] = seq[i] /\ seq[i] \in S
  BY <1>1, <1>2
<1>4. s \in Seq(S)
  BY <1>1, <1>2, <1>3
<1> QED
  BY <1>2, <1>3, <1>4

(* A first block that is valid is executed. *)
LEMMA FirstExecutes ==
  ASSUME NEW txs \in Seq(Txs), ValidFirst(txs)
  PROVE  ExecutesAll(EmptyWorld, txs, EffectOfTxs(EmptyWorld, txs))
<1> DEFINE n == Len(txs)
           base == EmptyWorld
<1>1. n \in Nat /\ DOMAIN txs = 1 .. n /\ \A i \in 1 .. n : txs[i] \in Txs
  OBVIOUS
<1>2. PICK ws : FoldRun(<<"world">>, base, txs, n, ws) /\ EffectOfTxs(base, txs) = ws[n]
  BY <1>1, WorldFold
<1> HIDE DEF n, base
<1>3. ASSUME NEW k \in 0 .. n PROVE EffectOfTxs(base, SubSeq(txs, 1, k)) = ws[k]
  <2> DEFINE part == SubSeq(txs, 1, k)
  <2>1. DOMAIN part = 1 .. k /\ (\A i \in 1 .. k : part[i] = txs[i]) /\ k \in Nat
    BY Beginning DEF n
  <2> HIDE DEF part
  <2>2. PICK g : FoldRun(<<"world">>, base, part, k, g) /\ EffectOfTxs(base, part) = g[k]
    BY <2>1, WorldFold
  <2>3. g[k] = ws[k]
    BY <1>1, <1>2, <2>1, <2>2, SameRun
  <2> QED
    BY <2>2, <2>3 DEF part
<1>4. ASSUME NEW k \in 1 .. n
      PROVE  /\ Executes(ws[k - 1], txs[k].by, txs[k].cmds, ws[k])
             /\ txs[k].by \in AccountsOf(ws[k]) \cup {NoCreator}
  <2> DEFINE tx == txs[k]
             before == ws[k - 1]
             m == Len(tx.cmds)
  <2>1. k - 1 \in 0 .. n /\ tx.cmds \in Seq(Commands)
    BY <1>1 DEF Txs
  <2>2. m \in Nat /\ DOMAIN tx.cmds = 1 .. m
    BY <2>1
  <2>3. EffectOfTxs(EmptyWorld, SubSeq(txs, 1, k - 1)) = before
    BY <1>3, <2>1 DEF base
  <2>4. ws[k] = EffectOfAll(before, tx.by, tx.cmds)
    BY <1>2 DEF FoldRun, FoldStep
  <2>5. /\ \A c \in DOMAIN tx.cmds :
             Valid(EffectOfAll(before, tx.by, SubSeq(tx.cmds, 1, c - 1)), tx.by, tx.cmds[c])
        /\ tx.by \in AccountsOf(EffectOfAll(before, tx.by, SubSeq(tx.cmds, 1, m)))
                       \cup {NoCreator}
    BY <1>1, <2>3, Zenon DEF ValidFirst
  <2> DEFINE cmds == tx.cmds
             by == tx.by
  <2>6. cmds \in Seq(Commands) /\ m = Len(cmds)
    BY <2>1
  <2> HIDE DEF before, cmds, by, m
  <2>7. PICK g : FoldRun(EffectsKind(by), before, cmds, m, g)
                   /\ EffectOfAll(before, by, cmds) = g[m]
    BY <2>2, EffectsFold DEF cmds
  <2>8. ASSUME NEW c \in 0 .. m PROVE EffectOfAll(before, by, SubSeq(cmds, 1, c)) = g[c]
    <3> DEFINE part == SubSeq(cmds, 1, c)
    <3>1. DOMAIN part = 1 .. c /\ (\A i \in 1 .. c : part[i] = cmds[i]) /\ c \in Nat
      BY <2>6, Beginning
    <3> HIDE DEF part
    <3>2. PICK f : FoldRun(EffectsKind(by), before, part, c, f)
                     /\ EffectOfAll(before, by, part) = f[c]
      BY <3>1, EffectsFold
    <3>3. f[c] = g[c]
      BY <2>2, <2>7, <3>1, <3>2, SameRun
    <3> QED
      BY <3>2, <3>3 DEF part
  <2>9. \A c \in 1 .. m : /\ Valid(g[c - 1], by, cmds[c])
                          /\ g[c] = Effect(g[c - 1], by, cmds[c])
    <3> TAKE c \in 1 .. m
    <3>1. c - 1 \in 0 .. m
      BY <2>2
    <3>2. EffectOfAll(before, by, SubSeq(cmds, 1, c - 1)) = g[c - 1]
      BY <2>8, <3>1
    <3>3. Valid(g[c - 1], by, cmds[c])
      BY <2>2, <2>5, <3>2 DEF cmds, by
    <3>4. g[c] = Effect(g[c - 1], by, cmds[c])
      BY <2>7 DEF FoldRun, FoldStep, EffectsKind
    <3> QED
      BY <3>3, <3>4
  <2>10. g[0] = before
    BY <2>7 DEF FoldRun
  <2>11. Run(g, before, by, cmds)
    BY <2>6, <2>9, <2>10 DEF Run
  <2>12. ws[k] = g[m]
    BY <2>4, <2>7 DEF cmds, by
  <2>13. by \in AccountsOf(g[m]) \cup {NoCreator}
    <3>1. m \in 0 .. m
      BY <2>2
    <3>2. EffectOfAll(before, by, SubSeq(cmds, 1, m)) = g[m]
      BY <2>8, <3>1
    <3> QED
      BY <2>5, <3>2 DEF cmds, by
  <2> QED
    BY <2>6, <2>11, <2>12, <2>13 DEF Executes, before, cmds, by
<1>5. RunAll(ws, base, txs)
  BY <1>2, <1>4 DEF RunAll, FoldRun, n
<1> QED
  BY <1>2, <1>5 DEF ExecutesAll, n, base
-----------------------------------------------------------------------------
(* The ledger in the index.                                                *)
BlocksIn(d, blocks) ==
  /\ d.block_count = Len(blocks)
  /\ d.block_hash \in Seq(Nat \X Seq(Txs)) /\ Len(d.block_hash) = Len(blocks)
  /\ d.block_tx_count \in Seq(Nat) /\ Len(d.block_tx_count) = Len(blocks) + 1
  /\ d.block_tx_count[1] = 0 /\ d.block_tx_count[Len(blocks) + 1] = d.tx_count
  /\ \A b \in 1 .. Len(blocks) :
       /\ d.block_hash[b] = BlockHash(b, blocks[b])
       /\ d.block_tx_count[b + 1] = d.block_tx_count[b] + Len(blocks[b])
       /\ \A k \in 1 .. Len(blocks[b]) :
            TxShown(d, d.block_tx_count[b] + k, blocks[b][k])

(* The ledger in the index is the ledger with the block added. *)
LEMMA BlocksShow ==
  ASSUME NEW d, NEW e, NEW v, NEW blocks \in Seq(Seq(Txs)), NEW txs \in Seq(Txs),
         NEW how, BlocksIn(d, blocks), TxsIn(d), BlockAdded(d, e, v, txs, how)
  PROVE  BlocksIn(e, Append(blocks, txs))
<1> DEFINE n == Len(blocks)
           all == Append(blocks, txs)
           offsets == d.block_tx_count
           new == e.block_tx_count
           hashes == e.block_hash
<1>1. /\ n \in Nat /\ Len(all) = n + 1 /\ all[n + 1] = txs
      /\ \A b \in 1 .. n : all[b] = blocks[b]
      /\ Len(txs) \in Nat /\ d.tx_count \in Nat
  BY DEF TxsIn, PubsIn
<1>2. /\ offsets \in Seq(Nat) /\ Len(offsets) = n + 1 /\ Last(offsets) = d.tx_count
      /\ offsets[1] = 0 /\ offsets[n + 1] = d.tx_count
  BY DEF BlocksIn, Last
<1>3. /\ e.block_count = n + 1 /\ e.tx_count = d.tx_count + Len(txs)
      /\ hashes = Append(d.block_hash, BlockHash(n + 1, txs))
      /\ new = Append(offsets, d.tx_count + Len(txs))
      /\ MoreTxs(d, e)
      /\ \A k \in 1 .. Len(txs) : TxShown(e, d.tx_count + k, txs[k])
  BY <1>2 DEF BlockAdded, BlocksIn
<1>4. /\ d.block_hash \in Seq(Nat \X Seq(Txs)) /\ Len(d.block_hash) = n
      /\ BlockHash(n + 1, txs) \in Nat \X Seq(Txs)
  BY <1>1 DEF BlocksIn, BlockHash
<1>5. \A b \in 1 .. n : /\ d.block_hash[b] = BlockHash(b, blocks[b])
                        /\ offsets[b + 1] = offsets[b] + Len(blocks[b])
                        /\ \A k \in 1 .. Len(blocks[b]) :
                             TxShown(d, offsets[b] + k, blocks[b][k])
  BY DEF BlocksIn
<1> HIDE DEF all, offsets, new, hashes, n
<1>6. /\ hashes \in Seq(Nat \X Seq(Txs)) /\ Len(hashes) = n + 1
      /\ hashes[n + 1] = BlockHash(n + 1, txs)
      /\ \A b \in 1 .. n : hashes[b] = d.block_hash[b]
  BY <1>1, <1>3, <1>4
<1>7. d.tx_count + Len(txs) \in Nat
  BY <1>1
<1>8. /\ new \in Seq(Nat) /\ Len(new) = n + 2 /\ new[n + 2] = d.tx_count + Len(txs)
      /\ \A b \in 1 .. n + 1 : new[b] = offsets[b]
  BY <1>1, <1>2, <1>3, <1>7
<1>9. ASSUME NEW b \in 1 .. n + 1
      PROVE  /\ hashes[b] = BlockHash(b, all[b])
             /\ new[b + 1] = new[b] + Len(all[b])
             /\ \A k \in 1 .. Len(all[b]) : TxShown(e, new[b] + k, all[b][k])
  <2>1. CASE b \in 1 .. n
    <3>1. b \in 1 .. n + 1 /\ b + 1 \in 1 .. n + 1
      BY <1>1, <2>1
    <3>2. hashes[b] = BlockHash(b, all[b]) /\ new[b + 1] = new[b] + Len(all[b])
      BY <1>1, <1>5, <1>6, <1>8, <2>1, <3>1
    <3>3. ASSUME NEW k \in 1 .. Len(all[b]) PROVE TxShown(e, new[b] + k, all[b][k])
      <4>1. TxShown(d, offsets[b] + k, blocks[b][k])
        BY <1>1, <1>5, <2>1
      <4>2. offsets[b] + k \in 1 .. d.tx_count
        BY <4>1 DEF TxShown
      <4>3. TxShown(e, offsets[b] + k, blocks[b][k])
        BY <1>3, <4>1, <4>2 DEF MoreTxs
      <4> QED
        BY <1>1, <1>8, <2>1, <3>1, <4>3
    <3> QED
      BY <3>2, <3>3
  <2>2. CASE b = n + 1
    <3>1. n + 1 \in 1 .. n + 1 /\ (n + 1) + 1 = n + 2
      BY <1>1
    <3> QED
      BY <1>1, <1>2, <1>3, <1>6, <1>8, <2>2, <3>1
  <2>3. b \in 1 .. n \/ b = n + 1
    BY <1>1
  <2> QED
    BY <2>1, <2>2, <2>3
<1>10. new[1] = 0
  BY <1>1, <1>2, <1>8
<1>11. /\ e.block_count = Len(all) /\ Len(hashes) = Len(all) /\ Len(new) = Len(all) + 1
       /\ new[Len(all) + 1] = e.tx_count
  BY <1>1, <1>3, <1>6, <1>8
<1>12. \A b \in 1 .. Len(all) :
         /\ hashes[b] = BlockHash(b, all[b])
         /\ new[b + 1] = new[b] + Len(all[b])
         /\ \A k \in 1 .. Len(all[b]) : TxShown(e, new[b] + k, all[b][k])
  BY <1>1, <1>9
<1>13. BlocksIn(e, all)
  BY <1>6, <1>8, <1>10, <1>11, <1>12 DEF BlocksIn, new, hashes
<1> QED
  BY <1>13 DEF all

-----------------------------------------------------------------------------
(* What the peer executes after the first block.                           *)

(* A command leads to a world state. *)
LEMMA EffectTyped ==
  ASSUME NEW w \in Worlds, NEW by, NEW cmd \in Commands, Valid(w, by, cmd)
  PROVE  Effect(w, by, cmd) \in Worlds
<1> DEFINE v == Effect(w, by, cmd)
<1>1. /\ RolesOf(w) \subseteq Roles /\ DomainsOf(w) \subseteq Domains
      /\ AccountsOf(w) \subseteq AccountIds
  BY WorldNames
<1>2. /\ w.roles \subseteq Roles \X SUBSET RolePerms
      /\ w.domains \subseteq Domains \X Roles
      /\ w.accounts \subseteq AccountIds \X Nat
      /\ w.has_role \subseteq AccountIds \X Roles
      /\ w.granted \subseteq AccountIds \X AccountIds \X Perms
      /\ w.peers \subseteq Keys \X Addresses
  BY DEF Worlds
<1>3. CASE cmd.type = "CreateAccount"
  <2> DEFINE role == DefaultRole(w, DomainOf(cmd.account))
             accounts == w.accounts \cup {<<cmd.account, 1>>}
             has_role == w.has_role \cup {<<cmd.account, role>>}
  <2>1. cmd.account \in AccountIds /\ DomainOf(cmd.account) \in DomainsOf(w)
    BY <1>3, CommandTypes DEF Valid
  <2>2. \E r \in Roles : <<DomainOf(cmd.account), r>> \in w.domains
    <3>1. PICK p \in w.domains : p[1] = DomainOf(cmd.account)
      BY <2>1 DEF DomainsOf
    <3>2. p = <<DomainOf(cmd.account), p[2]>> /\ p[2] \in Roles
      BY <1>2, <3>1
    <3> QED
      BY <3>2
  <2>3. role \in Roles
    BY <2>2 DEF DefaultRole
  <2> HIDE DEF role
  <2>4. v = [w EXCEPT !.accounts = accounts, !.has_role = has_role]
    BY <1>3 DEF Effect, role
  <2>5. accounts \subseteq AccountIds \X Nat /\ has_role \subseteq AccountIds \X Roles
    BY <1>2, <2>1, <2>3
  <2> HIDE DEF accounts, has_role
  <2> QED
    BY <2>4, <2>5 DEF Worlds
<1>4. CASE cmd.type = "CreateRole"
  <2> DEFINE roles == w.roles \cup {<<cmd.role, cmd.perms>>}
  <2>1. v = [w EXCEPT !.roles = roles] /\ roles \subseteq Roles \X SUBSET RolePerms
    BY <1>2, <1>4, CommandTypes DEF Effect
  <2> HIDE DEF roles
  <2> QED
    BY <2>1 DEF Worlds
<1>5. CASE cmd.type = "CreateDomain"
  <2> DEFINE domains == w.domains \cup {<<cmd.domain, cmd.role>>}
  <2>1. v = [w EXCEPT !.domains = domains] /\ domains \subseteq Domains \X Roles
    BY <1>2, <1>5, CommandTypes DEF Effect
  <2> HIDE DEF domains
  <2> QED
    BY <2>1 DEF Worlds
<1>6. CASE cmd.type = "AppendRole"
  <2> DEFINE has_role == w.has_role \cup {<<cmd.account, cmd.role>>}
  <2>1. v = [w EXCEPT !.has_role = has_role] /\ has_role \subseteq AccountIds \X Roles
    BY <1>2, <1>6, CommandTypes DEF Effect
  <2> HIDE DEF has_role
  <2> QED
    BY <2>1 DEF Worlds
<1>7. CASE cmd.type = "DetachRole"
  <2> DEFINE has_role == w.has_role \ {<<cmd.account, cmd.role>>}
  <2>1. v = [w EXCEPT !.has_role = has_role] /\ has_role \subseteq AccountIds \X Roles
    BY <1>2, <1>7 DEF Effect
  <2> HIDE DEF has_role
  <2> QED
    BY <2>1 DEF Worlds
<1>8. CASE cmd.type = "SetAccountQuorum"
  <2> DEFINE accounts == {p \in w.accounts : p[1] # cmd.account}
                           \cup {<<cmd.account, cmd.quorum>>}
  <2>1. v = [w EXCEPT !.accounts = accounts] /\ accounts \subseteq AccountIds \X Nat
    BY <1>2, <1>8, CommandTypes DEF Effect
  <2> HIDE DEF accounts
  <2> QED
    BY <2>1 DEF Worlds
<1>9. CASE cmd.type = "GrantPermission"
  <2> DEFINE granted == w.granted \cup {<<by, cmd.account, cmd.perm>>}
  <2>1. by \in AccountIds
    BY <1>1, <1>9 DEF Valid
  <2>2. v = [w EXCEPT !.granted = granted]
          /\ granted \subseteq AccountIds \X AccountIds \X Perms
    BY <1>2, <1>9, <2>1, CommandTypes DEF Effect
  <2> HIDE DEF granted
  <2> QED
    BY <2>2 DEF Worlds
<1>10. CASE cmd.type = "RevokePermission"
  <2> DEFINE granted == w.granted \ {<<by, cmd.account, cmd.perm>>}
  <2>1. v = [w EXCEPT !.granted = granted]
          /\ granted \subseteq AccountIds \X AccountIds \X Perms
    BY <1>2, <1>10 DEF Effect
  <2> HIDE DEF granted
  <2> QED
    BY <2>1 DEF Worlds
<1>11. CASE cmd.type = "AddPeer"
  <2> DEFINE peers == w.peers \cup {<<cmd.key, cmd.address>>}
  <2>1. v = [w EXCEPT !.peers = peers] /\ peers \subseteq Keys \X Addresses
    BY <1>2, <1>11, CommandTypes DEF Effect
  <2> HIDE DEF peers
  <2> QED
    BY <2>1 DEF Worlds
<1>12. CASE cmd.type = "RemovePeer"
  <2> DEFINE peers == {p \in w.peers : p[1] # cmd.key}
  <2>1. v = [w EXCEPT !.peers = peers] /\ peers \subseteq Keys \X Addresses
    BY <1>2, <1>12 DEF Effect
  <2> HIDE DEF peers
  <2> QED
    BY <2>1 DEF Worlds
<1> QED
  BY <1>3, <1>4, <1>5, <1>6, <1>7, <1>8, <1>9, <1>10, <1>11, <1>12, CommandTypes

(* One more transaction, of one command. *)
LEMMA ExecutesMore ==
  ASSUME NEW w, NEW txs \in Seq(Txs), NEW v \in Worlds, ExecutesAll(w, txs, v),
         NEW by \in AccountsOf(v), NEW cmd \in Commands, Valid(v, by, cmd),
         NEW time, NEW signers
  PROVE  ExecutesAll(w, Append(txs, Tx(by, time, signers, <<cmd>>)), Effect(v, by, cmd))
<1> DEFINE n == Len(txs)
           tx == Tx(by, time, signers, <<cmd>>)
           all == Append(txs, tx)
           x == Effect(v, by, cmd)
<1>1. PICK ws : RunAll(ws, w, txs) /\ v = ws[n]
  BY DEF ExecutesAll
<1>2. /\ n \in Nat /\ Len(all) = n + 1 /\ all[n + 1] = tx
      /\ \A k \in 1 .. n : all[k] = txs[k]
  OBVIOUS
<1>3. tx.by = by /\ tx.cmds = <<cmd>>
  BY DEF Tx
<1>4. Executes(v, by, <<cmd>>, x)
  <2> DEFINE g == [i \in 0 .. 1 |-> IF i = 0 THEN v ELSE x]
  <2>1. g[0] = v /\ g[1] = x /\ Len(<<cmd>>) = 1 /\ <<cmd>>[1] = cmd
    OBVIOUS
  <2>2. \A c \in 1 .. 1 : c = 1 /\ c - 1 = 0
    OBVIOUS
  <2> HIDE DEF g, x
  <2>3. Run(g, v, by, <<cmd>>)
    BY <2>1, <2>2 DEF Run, x
  <2> QED
    BY <2>1, <2>3 DEF Executes
<1>5. by \in AccountsOf(x)
  BY EffectKeeps
<1> DEFINE us == [i \in 0 .. n + 1 |-> IF i <= n THEN ws[i] ELSE x]
<1>6. us[n + 1] = x /\ \A i \in 0 .. n : us[i] = ws[i]
  BY <1>2
<1>7. us[0] = w
  BY <1>1, <1>2, <1>6 DEF RunAll
<1> HIDE DEF us, x, tx, all
<1>8. ASSUME NEW k \in 1 .. n + 1
      PROVE  /\ Executes(us[k - 1], all[k].by, all[k].cmds, us[k])
             /\ all[k].by \in AccountsOf(us[k]) \cup {NoCreator}
  <2>1. CASE k = n + 1
    <3>1. (n + 1) - 1 = n /\ n \in 0 .. n
      BY <1>2
    <3> QED
      BY <1>1, <1>2, <1>3, <1>4, <1>5, <1>6, <2>1, <3>1
  <2>2. CASE k # n + 1
    <3>1. k \in 1 .. n /\ k - 1 \in 0 .. n /\ k \in 0 .. n
      BY <1>2, <2>2
    <3> QED
      BY <1>1, <1>2, <1>6, <3>1 DEF RunAll
  <2> QED
    BY <2>1, <2>2
<1>9. RunAll(us, w, all)
  BY <1>2, <1>7, <1>8 DEF RunAll
<1> QED
  BY <1>2, <1>6, <1>9 DEF ExecutesAll, all, tx, x

(* The bytes of each block, and where in them the commands of each of its  *)
(* transactions are.                                                       *)
CommandsIn(d, blocks) ==
  /\ d.block_bytes \in Seq(Seq(Cells)) /\ Len(d.block_bytes) = Len(blocks)
  /\ d.tx_cmds \in Seq(Views) /\ Len(d.tx_cmds) = d.tx_count
  /\ \A b \in 1 .. Len(blocks) :
       /\ d.block_bytes[b] = Serialize(blocks[b])
       /\ \A k \in 1 .. Len(blocks[b]) :
            CommandsAt(d.block_bytes[b], d.tx_cmds[d.block_tx_count[b] + k], blocks[b][k])

LEMMA RangesShow ==
  ASSUME NEW d, NEW e, NEW v, NEW blocks \in Seq(Seq(Txs)), NEW txs \in Seq(Txs),
         NEW how, BlocksIn(d, blocks), CommandsIn(d, blocks), TxsIn(d),
         BlockAdded(d, e, v, txs, how)
  PROVE  CommandsIn(e, Append(blocks, txs))
<1> DEFINE n == Len(blocks)
           all == Append(blocks, txs)
           bytes == Serialize(txs)
           more == GetTxCmd(bytes)
           offsets == d.block_tx_count
           new == e.block_tx_count
           old == d.tx_cmds
           cmds == e.tx_cmds
           count == d.tx_count
           m == Len(txs)
           stored == d.block_bytes
           now == e.block_bytes
<1>1. /\ n \in Nat /\ Len(all) = n + 1 /\ all[n + 1] = txs
      /\ \A b \in 1 .. n : all[b] = blocks[b]
      /\ m \in Nat /\ count \in Nat
  BY DEF TxsIn, PubsIn
<1>2. bytes \in Seq(Cells) /\ RangesAt(bytes, more, txs, m)
  BY GetTxCmdIs
<1>3. more \in Seq(Views) /\ Len(more) = m /\ \A k \in 1 .. m : CommandsAt(bytes, more[k], txs[k])
  BY <1>2 DEF RangesAt
<1>4. /\ stored \in Seq(Seq(Cells)) /\ Len(stored) = n
      /\ old \in Seq(Views) /\ Len(old) = count
      /\ \A b \in 1 .. n :
           /\ stored[b] = Serialize(blocks[b])
           /\ \A k \in 1 .. Len(blocks[b]) : CommandsAt(stored[b], old[offsets[b] + k], blocks[b][k])
  BY DEF CommandsIn
<1>5. /\ offsets \in Seq(Nat) /\ Len(offsets) = n + 1 /\ offsets[n + 1] = count
      /\ \A b \in 1 .. n : \A k \in 1 .. Len(blocks[b]) : offsets[b] + k \in 1 .. count
  BY DEF BlocksIn, TxShown
<1>6. /\ now = Append(stored, bytes) /\ cmds = old \o more
      /\ new = Append(offsets, Last(offsets) + m) /\ e.tx_count = count + m
  BY DEF BlockAdded
<1> HIDE DEF n, all, bytes, more, offsets, new, old, cmds, count, m, stored, now
<1>7. /\ now \in Seq(Seq(Cells)) /\ Len(now) = n + 1 /\ now[n + 1] = bytes
      /\ \A b \in 1 .. n : now[b] = stored[b]
  BY <1>1, <1>2, <1>4, <1>6, AppendProperties
<1>8. \A b \in 1 .. n + 1 : new[b] = offsets[b]
  <2> DEFINE total == Last(offsets) + m
  <2>1. total \in Nat
    BY <1>1, <1>5 DEF Last
  <2> HIDE DEF total
  <2>2. new = Append(offsets, total)
    BY <1>6 DEF total
  <2> QED
    BY <1>5, <2>1, <2>2, AppendProperties
<1>9. /\ cmds \in Seq(Views) /\ Len(cmds) = count + m
      /\ \A i \in 1 .. count + m : cmds[i] = IF i <= count THEN old[i] ELSE more[i - count]
  BY <1>3, <1>4, <1>6, ConcatProperties
<1>10. ASSUME NEW b \in 1 .. n + 1
       PROVE  /\ now[b] = Serialize(all[b])
              /\ \A k \in 1 .. Len(all[b]) : CommandsAt(now[b], cmds[new[b] + k], all[b][k])
  <2>1. CASE b \in 1 .. n
    <3>1. new[b] = offsets[b] /\ now[b] = stored[b] /\ all[b] = blocks[b]
      BY <1>1, <1>7, <1>8, <2>1
    <3>2. ASSUME NEW k \in 1 .. Len(blocks[b])
          PROVE  cmds[offsets[b] + k] = old[offsets[b] + k]
      <4>1. offsets[b] + k \in 1 .. count
        BY <1>5, <2>1
      <4>2. offsets[b] + k \in 1 .. count + m /\ offsets[b] + k <= count
        BY <1>1, <4>1
      <4> QED
        BY <1>9, <4>2
    <3> QED
      BY <1>4, <2>1, <3>1, <3>2
  <2>2. CASE b = n + 1
    <3>1. new[b] = count /\ now[b] = bytes /\ all[b] = txs
      BY <1>1, <1>5, <1>7, <1>8, <2>2
    <3>2. ASSUME NEW k \in 1 .. m PROVE cmds[count + k] = more[k]
      <4>1. count + k \in 1 .. count + m /\ ~(count + k <= count) /\ (count + k) - count = k
        BY <1>1
      <4> QED
        BY <1>9, <4>1
    <3> QED
      BY <1>3, <3>1, <3>2 DEF m, bytes
  <2>3. b \in 1 .. n \/ b = n + 1
    BY <1>1
  <2> QED
    BY <2>1, <2>2, <2>3
<1>11. CommandsIn(e, all)
  <2>1. \A b \in 1 .. Len(all) :
          /\ now[b] = Serialize(all[b])
          /\ \A k \in 1 .. Len(all[b]) : CommandsAt(now[b], cmds[new[b] + k], all[b][k])
    BY <1>1, <1>10
  <2>2. /\ now \in Seq(Seq(Cells)) /\ Len(now) = Len(all)
        /\ cmds \in Seq(Views) /\ Len(cmds) = e.tx_count
    BY <1>1, <1>6, <1>7, <1>9
  <2> QED
    BY <2>1, <2>2 DEF CommandsIn, now, cmds, new
<1> QED
  BY <1>11 DEF all
-----------------------------------------------------------------------------
(* Between two blocks the index shows a world state w0, the one after the  *)
(* ledger, which the transactions of the next block lead on from; it has   *)
(* the whole ledger.                                                       *)
Indexed ==
  \E w0 :
    /\ Shows(db, w0, "all") /\ (Removed \/ Shows(db, w0, "exact"))
    /\ Homes(w0) /\ TxsIn(db) /\ BlocksIn(db, ledger) /\ CommandsIn(db, ledger)
    /\ ExecutesAll(w0, block, world)
    /\ world \in Worlds /\ ledger \in Seq(Seq(Txs)) /\ block \in Seq(Txs)
    /\ \A k \in 1 .. Len(block) : block[k].by # NoCreator
    /\ ledger # <<>> => StubIs(db, ledger[1])
    /\ ledger = <<>> => /\ db = EmptyDb /\ block = <<>>
                        /\ world = EmptyWorld /\ w0 = EmptyWorld

(* The inductive invariant: so it is while the keys of the ledger can be   *)
(* read, which they could before when they can after a step.               *)
IndexInv ==
  /\ \E S : ledger \in Seq(S)
  /\ Readable => Indexed

(* No transactions lead nowhere. *)
LEMMA ExecutesNone == \A w : ExecutesAll(w, <<>>, w)
<1> TAKE w
<1> DEFINE ws == [i \in 0 .. 0 |-> w]
<1>1. ws[0] = w /\ Len(<<>>) = 0 /\ \A k \in 1 .. 0 : FALSE
  OBVIOUS
<1> HIDE DEF ws
<1>2. RunAll(ws, w, <<>>)
  BY <1>1 DEF RunAll
<1> QED
  BY <1>1, <1>2 DEF ExecutesAll

(* The empty index shows the empty ledger. *)
LEMMA InvInit == Init => IndexInv
<1> SUFFICES ASSUME Init PROVE IndexInv
  OBVIOUS
<1>1. ledger = <<>> /\ block = <<>> /\ world = EmptyWorld /\ db = EmptyDb
  BY DEF Init
<1>2. /\ Shows(db, EmptyWorld, "all") /\ Shows(db, EmptyWorld, "exact")
      /\ TxsIn(db) /\ Homes(EmptyWorld)
  BY <1>1, EmptyShows
<1>3. ExecutesAll(EmptyWorld, block, world)
  BY <1>1, ExecutesNone
<1>4. BlocksIn(db, ledger) /\ CommandsIn(db, ledger)
  <2>1. BlocksIn(db, ledger)
    BY <1>1 DEF EmptyDb, BlocksIn
  <2>2. Len(ledger) = 0 /\ \A b \in 1 .. Len(ledger) : FALSE
    BY <1>1
  <2>3. /\ db.block_bytes \in Seq(Seq(Cells)) /\ Len(db.block_bytes) = 0
        /\ db.tx_cmds \in Seq(Views) /\ Len(db.tx_cmds) = 0 /\ db.tx_count = 0
    BY <1>1 DEF EmptyDb
  <2>4. CommandsIn(db, ledger)
    BY <2>2, <2>3 DEF CommandsIn
  <2> QED
    BY <2>1, <2>4
<1>5. world \in Worlds
  BY <1>1, <1>2 DEF Shows
<1>6. ledger \in Seq(Seq(Txs)) /\ block \in Seq(Txs) /\ \A k \in 1 .. Len(block) : FALSE
  BY <1>1
<1>7. Indexed
  BY <1>1, <1>2, <1>3, <1>4, <1>5, <1>6 DEF Indexed
<1> QED
  BY <1>6, <1>7 DEF IndexInv

(* A ledger only grows. *)
LEMMA ReadableBefore ==
  ASSUME IndexInv, [Next]_vars, Readable'
  PROVE  Readable
<1>1. PICK S : ledger \in Seq(S)
  BY DEF IndexInv
<1>2. CASE ledger = <<>>
  <2>1. \A b \in DOMAIN ledger : FALSE
    BY <1>2
  <2> QED
    BY <2>1 DEF Readable
<1>3. CASE ledger' = ledger
  BY <1>3 DEF Readable
<1>4. CASE ledger' = Append(ledger, block)
  <2>1. \A b \in DOMAIN ledger : b \in DOMAIN ledger' /\ ledger'[b] = ledger[b]
    BY <1>1, <1>4
  <2> QED
    BY <2>1 DEF Readable
<1> QED
  BY <1>2, <1>3, <1>4 DEF Next, vars, CommitGenesis, Execute, Commit

(* A block of readable keys keeps the index right, and one without such     *)
(* commands keeps everything that is shown exact.                          *)
LEMMA RemovedKept ==
  ASSUME NEW txs, ledger' = Append(ledger, txs), ledger \in Seq(Seq(Txs)),
         txs \in Seq(Txs), Readable'
  PROVE  /\ KeepingAll("all", txs)
         /\ ~Removed' => ~Removed /\ KeepingAll("exact", txs)
<1>1. "all" # "exact"
  OBVIOUS
<1>2. /\ Len(ledger) \in Nat /\ DOMAIN ledger = 1 .. Len(ledger)
      /\ DOMAIN ledger' = 1 .. Len(ledger) + 1 /\ ledger'[Len(ledger) + 1] = txs
      /\ \A b \in DOMAIN ledger : ledger'[b] = ledger[b]
      /\ DOMAIN txs = 1 .. Len(txs)
  OBVIOUS
<1>3. DOMAIN ledger \subseteq DOMAIN ledger' /\ Len(ledger) + 1 \in DOMAIN ledger'
  BY <1>2
<1>4. \A k \in 1 .. Len(txs) :
        /\ ToSet(txs[k].signers) \subseteq HexKeys
        /\ \A c \in DOMAIN txs[k].cmds :
             txs[k].cmds[c].type = "AddPeer" => txs[k].cmds[c].key \in HexKeys
  BY <1>2, <1>3 DEF Readable
<1>5. KeepingAll("all", txs)
  BY <1>1, <1>4 DEF KeepingAll, KeepingTx, Keeping
<1>6. ASSUME ~Removed'
      PROVE  ~Removed /\ KeepingAll("exact", txs)
  <2>1. \A b \in DOMAIN ledger' : \A k \in DOMAIN ledger'[b] :
          \A c \in DOMAIN ledger'[b][k].cmds : ~Removal(ledger'[b][k].cmds[c])
    BY <1>6 DEF Removed
  <2>2. ~Removed
    BY <1>2, <1>3, <2>1 DEF Removed
  <2>3. \A k \in DOMAIN txs : \A c \in DOMAIN txs[k].cmds : ~Removal(txs[k].cmds[c])
    BY <1>2, <1>3, <2>1
  <2> QED
    BY <1>2, <1>4, <2>2, <2>3 DEF KeepingAll, KeepingTx, Keeping
<1> QED
  BY <1>5, <1>6

(* What the peer does leads the world state on; addBlock brings the index   *)
(* up to it.                                                               *)
LEMMA IndexedNext ==
  ASSUME Indexed, Readable', [Next]_vars
  PROVE  Indexed'
<1>1. PICK w0 :
        /\ Shows(db, w0, "all") /\ (Removed \/ Shows(db, w0, "exact"))
        /\ Homes(w0) /\ TxsIn(db) /\ BlocksIn(db, ledger) /\ CommandsIn(db, ledger)
        /\ ExecutesAll(w0, block, world)
        /\ world \in Worlds /\ ledger \in Seq(Seq(Txs)) /\ block \in Seq(Txs)
        /\ \A k \in 1 .. Len(block) : block[k].by # NoCreator
        /\ ledger # <<>> => StubIs(db, ledger[1])
        /\ ledger = <<>> => /\ db = EmptyDb /\ block = <<>>
                            /\ world = EmptyWorld /\ w0 = EmptyWorld
  BY DEF Indexed
<1>2. db.block_count = Len(ledger) /\ db.block_count \in Nat /\ db.tx_count \in Nat
  BY <1>1 DEF BlocksIn, TxsIn, PubsIn
<1>3. CASE CommitGenesis
  <2>1. PICK txs \in GenesisBlocks :
          /\ ledger = <<>> /\ ledger' = <<txs>>
          /\ world' = EffectOfTxs(EmptyWorld, txs)
          /\ db' = AddBlock(db, txs) /\ block' = block
    BY <1>1, <1>3 DEF CommitGenesis
  <2>2. txs \in Seq(Txs) /\ ValidFirst(txs)
    BY ConstantsAssumption
  <2>3. ExecutesAll(EmptyWorld, txs, world')
    BY <2>1, <2>2, FirstExecutes
  <2>4. w0 = EmptyWorld /\ db = EmptyDb /\ db.block_count = 0 /\ ledger' = Append(ledger, txs)
    BY <1>1, <1>2, <2>1
  <2>5. ASSUME NEW how, Shows(db, w0, how), KeepingAll(how, txs)
        PROVE  BlockAdded(db, db', world', txs, how)
    <3>1. BlockAdded(db, AddBlock(db, txs), world', txs, how)
      BY <1>1, <1>2, <2>2, <2>3, <2>4, <2>5, AddBlockShows
    <3> QED
      BY <2>1, <3>1
  <2>6. KeepingAll("all", txs) /\ (~Removed' => ~Removed /\ KeepingAll("exact", txs))
    BY <1>1, <2>2, <2>4, RemovedKept
  <2>7. /\ BlockAdded(db, db', world', txs, "all")
        /\ Removed' \/ BlockAdded(db, db', world', txs, "exact")
    BY <1>1, <2>5, <2>6
  <2>8. BlocksIn(db', ledger') /\ CommandsIn(db', ledger')
    BY <1>1, <2>2, <2>4, <2>7, BlocksShow, RangesShow
  <2>9. /\ Shows(db', world', "all") /\ (Removed' \/ Shows(db', world', "exact"))
         /\ Homes(world') /\ TxsIn(db')
    BY <2>7 DEF BlockAdded
  <2>10. world' \in Worlds
    BY <2>9 DEF Shows
  <2>11. /\ block' = <<>> /\ block' \in Seq(Txs) /\ ledger' \in Seq(Seq(Txs)) /\ ledger' # <<>>
        /\ \A k \in 1 .. Len(block') : FALSE
    BY <1>1, <2>1, <2>2
  <2>12. ExecutesAll(world', block', world')
    BY <2>11, ExecutesNone
  <2>13. StubIs(db', ledger'[1])
    <3>1. StubIs(CheckGenesis(db, txs), txs) /\ ledger'[1] = txs
      BY <2>1, <2>4, StubsAdded
    <3>2. Grown(CheckGenesis(db, txs), db')
      BY <2>7 DEF BlockAdded
    <3> QED
      BY <3>1, <3>2, StubIsKept
  <2> QED
    BY <2>8, <2>9, <2>10, <2>11, <2>12, <2>13 DEF Indexed
<1>4. CASE Execute
  <2>1. PICK by \in AccountsOf(world), cmd \in Commands, signer \in Keys :
          /\ Valid(world, by, cmd)
          /\ block' = Append(block, Tx(by, db.tx_count + Len(block), <<signer>>, <<cmd>>))
          /\ world' = Effect(world, by, cmd)
    BY <1>4 DEF Execute
  <2>2. ledger' = ledger /\ db' = db /\ ledger # <<>>
    BY <1>4 DEF Execute
  <2> DEFINE tx == Tx(by, db.tx_count + Len(block), <<signer>>, <<cmd>>)
  <2>3. by \in AccountIds /\ by # NoCreator
    BY <1>1, WorldNames, ConstantsAssumption
  <2>4. tx \in Txs /\ tx.by = by
    BY <1>1, <1>2, <2>3 DEF Tx, Txs
  <2>5. world' \in Worlds
    BY <1>1, <2>1, EffectTyped
  <2>6. ExecutesAll(w0, block', world')
    BY <1>1, <2>1, ExecutesMore
  <2> HIDE DEF tx
  <2>7. block' \in Seq(Txs) /\ \A k \in 1 .. Len(block') : block'[k].by # NoCreator
    <3>1. block' = Append(block, tx)
      BY <2>1 DEF tx
    <3>2. /\ block' \in Seq(Txs) /\ Len(block') = Len(block) + 1 /\ Len(block) \in Nat
          /\ block'[Len(block) + 1] = tx
          /\ \A k \in 1 .. Len(block) : block'[k] = block[k]
      BY <1>1, <2>4, <3>1
    <3>3. \A k \in 1 .. Len(block') : k \in 1 .. Len(block) \/ k = Len(block) + 1
      BY <3>2
    <3> QED
      BY <1>1, <2>3, <2>4, <3>2, <3>3
  <2> QED
    BY <1>1, <2>2, <2>5, <2>6, <2>7 DEF Indexed, Removed
<1>5. CASE Commit
  <2>1. /\ ledger # <<>> /\ ledger' = Append(ledger, block) /\ block' = <<>>
        /\ db' = AddBlock(db, block) /\ world' = world
    BY <1>5 DEF Commit
  <2>2. db.block_count # 0
    BY <1>1, <1>2, <2>1, EmptySeq
  <2>3. ASSUME NEW how, Shows(db, w0, how), KeepingAll(how, block)
        PROVE  BlockAdded(db, db', world, block, how)
    <3>1. BlockAdded(db, AddBlock(db, block), world, block, how)
      BY <1>1, <1>2, <2>2, <2>3, AddBlockShows
    <3> QED
      BY <2>1, <3>1
  <2>4. KeepingAll("all", block) /\ (~Removed' => ~Removed /\ KeepingAll("exact", block))
    BY <1>1, <2>1, RemovedKept
  <2>5. /\ BlockAdded(db, db', world, block, "all")
        /\ Removed' \/ BlockAdded(db, db', world, block, "exact")
    BY <1>1, <2>3, <2>4
  <2>6. BlocksIn(db', ledger') /\ CommandsIn(db', ledger')
    BY <1>1, <2>1, <2>5, BlocksShow, RangesShow
  <2>7. /\ Shows(db', world', "all") /\ (Removed' \/ Shows(db', world', "exact"))
        /\ Homes(world') /\ TxsIn(db')
    BY <2>1, <2>5 DEF BlockAdded
  <2>8. world' \in Worlds
    BY <1>1, <2>1
  <2>9. /\ block' \in Seq(Txs) /\ ledger' \in Seq(Seq(Txs)) /\ ledger' # <<>>
        /\ \A k \in 1 .. Len(block') : FALSE
    BY <1>1, <2>1
  <2>10. ExecutesAll(world', block', world')
    BY <2>1, ExecutesNone
  <2>11. StubIs(db', ledger'[1])
    <3>1. StubIs(db, ledger[1]) /\ ledger'[1] = ledger[1]
      BY <1>1, <2>1, EmptySeq
    <3>2. CheckGenesis(db, block) = db
      BY <2>2 DEF CheckGenesis
    <3>3. Grown(db, db')
      BY <2>5, <3>2 DEF BlockAdded
    <3> QED
      BY <3>1, <3>3, StubIsKept
  <2> QED
    BY <2>6, <2>7, <2>8, <2>9, <2>10, <2>11 DEF Indexed
<1>6. CASE UNCHANGED vars
  <2>1. ledger' = ledger /\ block' = block /\ world' = world /\ db' = db
    BY <1>6 DEF vars
  <2> QED
    BY <1>1, <2>1 DEF Indexed, Removed
<1> QED
  BY <1>3, <1>4, <1>5, <1>6 DEF Next

(* IndexInv is inductive. *)
LEMMA InvNext == IndexInv /\ [Next]_vars => IndexInv'
<1> SUFFICES ASSUME IndexInv, [Next]_vars PROVE IndexInv'
  OBVIOUS
<1>1. PICK S : ledger \in Seq(S)
  BY DEF IndexInv
<1>2. \E U : ledger' \in Seq(U)
  <2>1. CASE \E txs : ledger' = <<txs>>
    <3>1. PICK txs : ledger' = <<txs>>
      BY <2>1
    <3>2. ledger' \in Seq({txs})
      BY <3>1
    <3> QED
      BY <3>2
  <2>2. CASE ledger' = Append(ledger, block)
    <3>1. ledger \in Seq(S \cup {block})
      BY <1>1
    <3>2. ledger' \in Seq(S \cup {block})
      BY <2>2, <3>1
    <3> QED
      BY <3>2
  <2>3. CASE ledger' = ledger
    BY <1>1, <2>3
  <2> QED
    BY <2>1, <2>2, <2>3 DEF Next, vars, CommitGenesis, Execute, Commit
<1>3. ASSUME Readable' PROVE Indexed'
  <2>1. Readable
    BY <1>3, ReadableBefore
  <2>2. Indexed
    BY <2>1 DEF IndexInv
  <2> QED
    BY <1>3, <2>2, IndexedNext
<1> QED
  BY <1>2, <1>3 DEF IndexInv

(* Whatever blocks are committed and indexed, in whatever order the peer and *)
(* the explorer proceed, the index shows the ledger that it holds.          *)
THEOREM IndexInvAlways == Spec => []IndexInv
<1> QED
  BY InvInit, InvNext, PTL DEF Spec

(* NeverUndefined: no lookup of AddBlock that it dereferences is empty,      *)
(* whatever valid blocks arrive, if unhex can read their keys.               *)
THEOREM NeverUndefinedAlways == Spec => []NeverUndefined
<1>1. IndexInv => NeverUndefined
  BY DEF IndexInv, Indexed, Shows, NeverUndefined
<1> QED
  BY <1>1, IndexInvAlways, PTL

(* Between two blocks the index shows the world state. *)
LEMMA ShowsSettled ==
  ASSUME Indexed, Settled
  PROVE  Shows(db, world, "all") /\ (Removed \/ Shows(db, world, "exact"))
<1>1. PICK w0 : /\ Shows(db, w0, "all") /\ (Removed \/ Shows(db, w0, "exact"))
                /\ ExecutesAll(w0, block, world)
  BY DEF Indexed
<1>2. PICK ws : RunAll(ws, w0, block) /\ world = ws[Len(block)]
  BY <1>1 DEF ExecutesAll
<1>3. Len(block) = 0
  BY DEF Settled
<1> QED
  BY <1>1, <1>2, <1>3 DEF RunAll

(* Between two blocks the queries show all that there is. *)
LEMMA ShowsCovers ==
  ASSUME Indexed, Settled
  PROVE  /\ Shown.roles = world.roles
         /\ Shown.domains = world.domains
         /\ Shown.accounts = world.accounts
         /\ world.has_role \subseteq Shown.has_role
         /\ GivenBy(world.granted) \subseteq GivenBy(Shown.granted)
         /\ world.peers \subseteq Shown.peers
<1>1. Shows(db, world, "all")
  BY ShowsSettled
<1>2. /\ world.roles \subseteq Roles \X SUBSET RolePerms
      /\ world.domains \subseteq Domains \X Roles
      /\ world.accounts \subseteq AccountIds \X Nat
      /\ world.has_role \subseteq AccountIds \X Roles
      /\ world.granted \subseteq AccountIds \X AccountIds \X Perms
      /\ world.peers \subseteq Keys \X Addresses
  BY <1>1 DEF Shows, Worlds
<1>3. Genesis \notin Roles /\ Genesis \notin Domains /\ Genesis \notin AccountIds
  BY ConstantsAssumption
<1>4. /\ Shown.roles = {RoleView(r) : r \in {s \in RoleList : db.role_name[s] # Genesis}}
      /\ Shown.domains = {DomainView(i) : i \in {j \in DomainList : db.domain_id[j] # Genesis}}
      /\ Shown.accounts = {<<db.account_id[a], db.account_quorum[a]>> : a \in ShownAccounts}
      /\ Shown.has_role =
           UNION {{<<db.account_id[a], db.role_name[r]>> : r \in AccountRoles(a)} :
                  a \in ShownAccounts}
      /\ Shown.granted = UNION {PermissionsGrantedBy(a) : a \in ShownAccounts}
      /\ Shown.peers = {PeerView(p) : p \in PeerList}
  BY DEF Shown
<1>5. Shown.roles = world.roles
  <2>1. ASSUME NEW r \in RoleList, db.role_name[r] # Genesis
        PROVE  RoleView(r) \in world.roles
    BY <1>1, <2>1 DEF Shows, RolesIn, RoleList, RoleView
  <2>2. ASSUME NEW p \in world.roles
        PROVE  \E r \in {s \in RoleList : db.role_name[s] # Genesis} : RoleView(r) = p
    <3>1. p[1] \in Roles /\ p = <<p[1], p[2]>>
      BY <1>2
    <3>2. PICK r \in 1 .. db.role_count : db.role_name[r] = p[1] /\ db.role_perms[r] = p[2]
      BY <1>1 DEF Shows, RolesIn
    <3>3. r \in {s \in RoleList : db.role_name[s] # Genesis} /\ RoleView(r) = p
      BY <1>3, <3>1, <3>2 DEF RoleList, RoleView
    <3> QED
      BY <3>3
  <2> QED
    BY <1>4, <2>1, <2>2
<1>6. Shown.domains = world.domains
  <2>1. ASSUME NEW i \in DomainList, db.domain_id[i] # Genesis
        PROVE  DomainView(i) \in world.domains
    BY <1>1, <2>1 DEF Shows, DomainsIn, DomainList, DomainView
  <2>2. ASSUME NEW p \in world.domains
        PROVE  \E i \in {j \in DomainList : db.domain_id[j] # Genesis} : DomainView(i) = p
    <3>1. p[1] \in Domains /\ p = <<p[1], p[2]>>
      BY <1>2
    <3>2. PICK i \in 1 .. db.domain_count :
            db.domain_id[i] = p[1] /\ db.role_name[db.domain_role[i]] = p[2]
      BY <1>1 DEF Shows, DomainsIn
    <3>3. i \in {j \in DomainList : db.domain_id[j] # Genesis} /\ DomainView(i) = p
      BY <1>3, <3>1, <3>2 DEF DomainList, DomainView
    <3> QED
      BY <3>3
  <2> QED
    BY <1>4, <2>1, <2>2
<1>7. Shown.accounts = world.accounts
  <2>1. ASSUME NEW a \in ShownAccounts
        PROVE  <<db.account_id[a], db.account_quorum[a]>> \in world.accounts
    BY <1>1, <2>1 DEF Shows, AccountsIn, ShownAccounts, AccountList
  <2>2. ASSUME NEW p \in world.accounts
        PROVE  \E a \in ShownAccounts : <<db.account_id[a], db.account_quorum[a]>> = p
    <3>1. p[1] \in AccountIds /\ p = <<p[1], p[2]>>
      BY <1>2
    <3>2. PICK a \in 1 .. db.account_count :
            db.account_id[a] = p[1] /\ db.account_quorum[a] = p[2]
      BY <1>1 DEF Shows, AccountsIn
    <3>3. a \in ShownAccounts /\ <<db.account_id[a], db.account_quorum[a]>> = p
      BY <1>3, <3>1, <3>2 DEF ShownAccounts, AccountList
    <3> QED
      BY <3>3
  <2> QED
    BY <1>4, <2>1, <2>2
<1>8. world.has_role \subseteq Shown.has_role
  <2> SUFFICES ASSUME NEW p \in world.has_role PROVE p \in Shown.has_role
    OBVIOUS
  <2>1. p[1] \in AccountIds /\ p = <<p[1], p[2]>>
    BY <1>2
  <2> DEFINE lists == db.account_roles
  <2>2. /\ lists \in Seq(Seq(Nat)) /\ Len(lists) <= db.account_count
        /\ Len(lists) \in Nat /\ db.account_count \in Nat
    BY <1>1 DEF Shows, HasRolesIn, AccountsIn
  <2>3. PICK a \in 1 .. Len(lists) :
          /\ db.account_id[a] = p[1]
          /\ \E k \in DOMAIN lists[a] : db.role_name[lists[a][k]] = p[2]
    BY <1>1, Zenon DEF Shows, HasRolesIn
  <2>4. PICK k \in DOMAIN lists[a] : db.role_name[lists[a][k]] = p[2]
    BY <2>3
  <2>5. a \in ShownAccounts
    BY <1>3, <2>1, <2>2, <2>3 DEF ShownAccounts, AccountList
  <2>6. lists[a][k] \in AccountRoles(a)
    <3>1. a <= Len(lists)
      BY <2>2
    <3> HIDE DEF lists
    <3>2. AccountRoles(a) = ToSet(lists[a])
      BY <3>1 DEF AccountRoles, ListAt, lists
    <3> QED
      BY <3>2 DEF ToSet
  <2>7. p \in {<<db.account_id[a], db.role_name[r]>> : r \in AccountRoles(a)}
    BY <2>1, <2>3, <2>4, <2>6
  <2> QED
    BY <1>4, <2>5, <2>7
<1>9. GivenBy(world.granted) \subseteq GivenBy(Shown.granted)
  <2> SUFFICES ASSUME NEW p \in world.granted
               PROVE  <<p[1], p[3]>> \in GivenBy(Shown.granted)
    BY DEF GivenBy
  <2>1. PICK g \in db.account_grant : db.account_id[g[1]] = p[1] /\ g[3] = p[3]
    BY <1>1 DEF Shows, GrantedIn
  <2>2. g[1] \in ShownAccounts
    BY <1>1, <2>1 DEF Shows, GrantedIn, ShownAccounts, AccountList
  <2>3. GrantView(g) \in Shown.granted
    BY <1>4, <2>2 DEF PermissionsGrantedBy
  <2>4. GrantView(g)[1] = p[1] /\ GrantView(g)[3] = p[3]
    BY <2>1 DEF GrantView
  <2> QED
    BY <2>3, <2>4 DEF GivenBy
<1>10. world.peers \subseteq Shown.peers
  <2> SUFFICES ASSUME NEW p \in world.peers PROVE p \in Shown.peers
    OBVIOUS
  <2>1. p = <<p[1], p[2]>>
    BY <1>2
  <2>2. PICK i \in 1 .. db.peer_count : db.peer_pub[i] = p[1] /\ db.peer_address[i] = p[2]
    BY <1>1 DEF Shows, PeersIn
  <2>3. i \in PeerList /\ PeerView(i) = p
    BY <2>1, <2>2 DEF PeerList, PeerView
  <2> QED
    BY <1>4, <2>3
<1> QED
  BY <1>5, <1>6, <1>7, <1>8, <1>9, <1>10

(* HidesNothing: when the explorer has caught up, each account, domain, role, *)
(* peer and role of an account of the world state is shown, and of each       *)
(* account the permissions that it has granted.                               *)
THEOREM HidesNothingAlways == Spec => []HidesNothing
<1>1. IndexInv => HidesNothing
  BY ShowsCovers DEF IndexInv, HidesNothing
<1> QED
  BY <1>1, IndexInvAlways, PTL

(* PermissionsShown: the permissions of an account are those of its roles in *)
(* the world state, whatever the order in which roles were appended, until a *)
(* command takes something away again.                                       *)
THEOREM PermissionsShownAlways == Spec => []PermissionsShown
<1>1. ASSUME Indexed, Settled, ~Removed, NEW a \in ShownAccounts
      PROVE  AccountPermissions(a) =
               UNION {r[2] : r \in {x \in world.roles :
                                     <<db.account_id[a], x[1]>> \in world.has_role}}
  <2> DEFINE held == {x \in world.roles : <<db.account_id[a], x[1]>> \in world.has_role}
             lists == db.account_roles
  <2>1. Shows(db, world, "exact")
    BY <1>1, ShowsSettled
  <2>2. RolesIn(db, world) /\ AccountsIn(db, world) /\ HasRolesIn(db, world, "exact")
    BY <2>1 DEF Shows
  <2>3. world.has_role \subseteq AccountIds \X Roles /\ Genesis \notin Roles
    BY <2>1, ConstantsAssumption DEF Shows, Worlds
  <2>4. /\ db.role_count \in Nat /\ db.account_count \in Nat /\ Len(lists) \in Nat
        /\ Len(lists) <= db.account_count
        /\ DOMAIN db.role_name = 1 .. db.role_count
        /\ DOMAIN db.account_id = 1 .. db.account_count
        /\ Injective(db.role_name) /\ Injective(db.account_id)
    BY <2>2 DEF RolesIn, AccountsIn, HasRolesIn
  <2>5. a \in 1 .. db.account_count
    BY DEF ShownAccounts, AccountList
  <2>6. \A r \in AccountRoles(a) :
          /\ a \in 1 .. Len(lists) /\ \E k \in DOMAIN lists[a] : r = lists[a][k]
    <3>1. CASE a <= Len(lists)
      <4>1. AccountRoles(a) = ToSet(lists[a])
        BY <3>1 DEF AccountRoles, ListAt
      <4> HIDE DEF lists
      <4> QED
        BY <2>4, <2>5, <3>1, <4>1 DEF ToSet
    <3>2. CASE ~(a <= Len(lists))
      <4>1. AccountRoles(a) = ToSet(<<>>)
        BY <3>2 DEF AccountRoles, ListAt
      <4> QED
        BY <4>1 DEF ToSet
    <3> QED
      BY <3>1, <3>2
  <2>7. \A k : a \in 1 .. Len(lists) /\ k \in DOMAIN lists[a] => lists[a][k] \in AccountRoles(a)
    <3>1. ASSUME a \in 1 .. Len(lists), NEW k \in DOMAIN lists[a]
          PROVE  lists[a][k] \in AccountRoles(a)
      <4>1. AccountRoles(a) = ToSet(lists[a])
        BY <2>4, <3>1 DEF AccountRoles, ListAt
      <4> HIDE DEF lists
      <4> QED
        BY <3>1, <4>1 DEF ToSet
    <3> QED
      BY <3>1
  <2> HIDE DEF lists
  <2>8. ASSUME NEW r \in AccountRoles(a)
        PROVE  \E x \in held : x[2] = db.role_perms[r]
    <3>1. PICK k \in DOMAIN lists[a] : a \in 1 .. Len(lists) /\ r = lists[a][k]
      BY <2>6
    <3>2. r \in 1 .. db.role_count
      BY <2>2, <3>1 DEF HasRolesIn, lists
    <3>3. <<db.account_id[a], db.role_name[r]>> \in world.has_role
      BY <2>2, <3>1 DEF HasRolesIn, lists
    <3>4. db.role_name[r] # Genesis
      BY <2>3, <3>3
    <3> DEFINE x == <<db.role_name[r], db.role_perms[r]>>
    <3>5. x \in world.roles
      BY <2>2, <3>2, <3>4 DEF RolesIn
    <3>6. x[1] = db.role_name[r] /\ x[2] = db.role_perms[r]
      OBVIOUS
    <3> HIDE DEF x
    <3>7. x \in held
      BY <3>3, <3>5, <3>6
    <3> QED
      BY <3>6, <3>7
  <2>9. ASSUME NEW x \in held
        PROVE  \E r \in AccountRoles(a) : x[2] = db.role_perms[r]
    <3> DEFINE p == <<db.account_id[a], x[1]>>
    <3>1. x \in world.roles /\ p \in world.has_role
      OBVIOUS
    <3>2. p[1] = db.account_id[a] /\ p[2] = x[1]
      OBVIOUS
    <3> HIDE DEF p
    <3>3. PICK b \in 1 .. Len(lists) :
            /\ db.account_id[b] = p[1]
            /\ \E k \in DOMAIN lists[b] : db.role_name[lists[b][k]] = p[2]
      BY <2>2, <3>1, Zenon DEF HasRolesIn, lists
    <3>4. b = a
      BY <2>4, <2>5, <3>2, <3>3 DEF Injective
    <3>5. PICK k \in DOMAIN lists[a] : db.role_name[lists[a][k]] = x[1]
      BY <3>2, <3>3, <3>4
    <3> DEFINE r == lists[a][k]
    <3>6. r \in 1 .. db.role_count /\ r \in AccountRoles(a)
      BY <2>2, <2>7, <3>3, <3>4, <3>5 DEF HasRolesIn, lists
    <3>7. PICK s \in 1 .. db.role_count :
            db.role_name[s] = x[1] /\ db.role_perms[s] = x[2]
      BY <2>2, <3>1 DEF RolesIn
    <3>8. s = r
      BY <2>4, <3>5, <3>6, <3>7 DEF Injective
    <3> QED
      BY <3>6, <3>7, <3>8
  <2>10. AccountPermissions(a) = UNION {db.role_perms[r] : r \in AccountRoles(a)}
    BY DEF AccountPermissions
  <2> HIDE DEF held
  <2>11. UNION {db.role_perms[r] : r \in AccountRoles(a)} = UNION {x[2] : x \in held}
    BY <2>8, <2>9
  <2> QED
    BY <2>10, <2>11 DEF held
<1>2. IndexInv => PermissionsShown
  BY <1>1 DEF IndexInv, PermissionsShown
<1> QED
  BY <1>2, IndexInvAlways, PTL

(* A sequence of different values has as many values as positions. *)
LEMMA DifferentValues ==
  ASSUME NEW S, NEW seq \in Seq(S), Injective(seq)
  PROVE  IsFiniteSet(ToSet(seq)) /\ Cardinality(ToSet(seq)) = Len(seq)
<1> DEFINE n == Len(seq)
<1>1. n \in Nat /\ DOMAIN seq = 1 .. n /\ seq \in [1 .. n -> ToSet(seq)]
  BY DEF ToSet
<1>2. \A x \in ToSet(seq) : \E i \in 1 .. n : seq[i] = x
  BY <1>1 DEF ToSet
<1> HIDE DEF n
<1>3. \A i, j \in 1 .. n : seq[i] = seq[j] => i = j
  BY <1>1 DEF Injective
<1>4. seq \in Bijection(1 .. n, ToSet(seq))
  BY <1>1, <1>2, <1>3, Fun_IsBij
<1>5. ExistsBijection(1 .. n, ToSet(seq))
  BY <1>4 DEF ExistsBijection
<1>6. IsFiniteSet(ToSet(seq)) /\ Cardinality(ToSet(seq)) = n
  BY <1>1, <1>5, FS_NatBijection, FS_CountingElements
<1> QED
  BY <1>6 DEF n

(* NamesUnique: what a list shows is what its name leads to, so that no two  *)
(* entries have one name, and no key is stored twice in all_pub.             *)
THEOREM NamesUniqueAlways == Spec => []NamesUnique
<1>1. ASSUME Indexed
      PROVE  /\ \A a \in AccountList : AccountById(db.account_id[a]) = a
             /\ \A r \in RoleList : RoleByName(db.role_name[r]) = r
             /\ \A d \in DomainList : DomainById(db.domain_id[d]) = d
             /\ Cardinality(ToSet(db.all_pub)) = Len(db.all_pub)
             /\ ~Removed => \A p \in PeerList : PeerByPublicKey(db.peer_pub[p]) = p
  <2>1. PICK w : /\ RolesIn(db, w) /\ DomainsIn(db, w) /\ AccountsIn(db, w)
                 /\ TxsIn(db) /\ (Removed \/ PeersIn(db, w, "exact"))
    BY <1>1 DEF Indexed, Shows
  <2>2. \A a \in AccountList : AccountById(db.account_id[a]) = a
    BY <2>1, FindOnly DEF AccountsIn, AccountList, AccountById
  <2>3. \A r \in RoleList : RoleByName(db.role_name[r]) = r
    BY <2>1, FindOnly DEF RolesIn, RoleList, RoleByName
  <2>4. \A d \in DomainList : DomainById(db.domain_id[d]) = d
    BY <2>1, FindOnly DEF DomainsIn, DomainList, DomainById
  <2>5. Cardinality(ToSet(db.all_pub)) = Len(db.all_pub)
    BY <2>1, DifferentValues DEF TxsIn, PubsIn
  <2>6. ~Removed => \A p \in PeerList : PeerByPublicKey(db.peer_pub[p]) = p
    BY <2>1, FindOnly DEF PeersIn, PeerList, PeerByPublicKey
  <2> QED
    BY <2>2, <2>3, <2>4, <2>5, <2>6
<1>2. IndexInv => NamesUnique
  BY <1>1 DEF IndexInv, NamesUnique
<1> QED
  BY <1>2, IndexInvAlways, PTL

-----------------------------------------------------------------------------
(* The totals.                                                             *)

(* What is shown once at each of some positions is as many. *)
LEMMA ShownOnce ==
  ASSUME NEW n \in Nat, NEW I \in SUBSET (1 .. n), NEW S, NEW view \in [I -> S],
         \A i, j \in I : view[i] = view[j] => i = j,
         \A p \in S : \E i \in I : view[i] = p
  PROVE  IsFiniteSet(I) /\ IsFiniteSet(S) /\ Cardinality(S) = Cardinality(I)
<1>1. IsFiniteSet(1 .. n)
  BY FS_Interval
<1>2. IsFiniteSet(I)
  BY <1>1, FS_Subset
<1>3. view \in Bijection(I, S)
  BY Fun_IsBij
<1>4. ExistsBijection(I, S)
  BY <1>3 DEF ExistsBijection
<1> QED
  BY <1>2, <1>4, FS_Bijection

(* The entries that are no stub. *)
Named(names, n) == {i \in 1 .. n : names[i] # Genesis}

(* A table with a stub has one more entry than shown. *)
LEMMA ShownEntries ==
  ASSUME NEW n \in Nat, NEW names, DOMAIN names = 1 .. n, Injective(names), NEW stub,
         stub = 1 => 1 \in 1 .. n /\ names[1] = Genesis,
         stub # 1 => stub = 0 /\ \A i \in 1 .. n : names[i] # Genesis
  PROVE  Cardinality(Named(names, n)) + stub = n
<1>1. IsFiniteSet(1 .. n) /\ Cardinality(1 .. n) = n
  BY FS_Interval
<1>2. CASE stub = 1
  <2>1. Named(names, n) = (1 .. n) \ {1} /\ 1 \in 1 .. n
    BY <1>2 DEF Injective, Named
  <2>2. Cardinality((1 .. n) \ {1}) = IF 1 \in 1 .. n THEN Cardinality(1 .. n) - 1
                                                      ELSE Cardinality(1 .. n)
    BY <1>1, FS_RemoveElement
  <2>3. Cardinality(Named(names, n)) = n - 1
    BY <1>1, <2>1, <2>2
  <2> QED
    BY <1>2, <2>3
<1>3. CASE stub # 1
  <2>1. Named(names, n) = 1 .. n /\ stub = 0
    BY <1>3 DEF Named
  <2>2. Cardinality(Named(names, n)) = n
    BY <1>1, <2>1
  <2> QED
    BY <2>1, <2>2
<1> QED
  BY <1>2, <1>3

(* A table shows a set of pairs, each once; there may be a stub. *)
Table(names, values, n, S) ==
  /\ n \in Nat /\ DOMAIN names = 1 .. n
  /\ \A i, j \in 1 .. n : names[i] = names[j] => i = j
  /\ \A i \in 1 .. n : names[i] # Genesis => <<names[i], values[i]>> \in S
  /\ \A p \in S : /\ p[1] # Genesis /\ p = <<p[1], p[2]>>
                   /\ \E i \in 1 .. n : names[i] = p[1] /\ values[i] = p[2]

Stubbed(names, n, stub) ==
  /\ stub = 1 => 1 \in 1 .. n /\ names[1] = Genesis
  /\ stub # 1 => stub = 0 /\ \A i \in 1 .. n : names[i] # Genesis

(* It has as many entries as the set, and the stub. *)
LEMMA TableSize ==
  ASSUME NEW n, NEW names, NEW values, NEW S, NEW stub,
         Table(names, values, n, S), Stubbed(names, n, stub)
  PROVE  Cardinality(S) + stub = n
<1> DEFINE I == Named(names, n)
           view == [i \in I |-> <<names[i], values[i]>>]
<1>1. view \in [I -> S] /\ n \in Nat
  BY DEF Named, Table
<1>2. \A i, j \in I : view[i] = view[j] => i = j
  BY DEF Named, Table
<1>3. ASSUME NEW p \in S PROVE \E i \in I : view[i] = p
  <2>1. PICK i \in 1 .. n : names[i] = p[1] /\ values[i] = p[2]
    BY DEF Table
  <2>2. i \in I /\ view[i] = <<p[1], p[2]>>
    BY <2>1 DEF Named, Table
  <2> QED
    BY <2>2 DEF Table
<1>4. Cardinality(I) + stub = n
  BY ShownEntries DEF Table, Stubbed, Injective
<1>5. I \in SUBSET (1 .. n)
  BY DEF Named
<1> HIDE DEF I, view
<1>6. Cardinality(S) = Cardinality(I)
  BY <1>1, <1>2, <1>3, <1>5, ShownOnce
<1> QED
  BY <1>4, <1>6

(* The offset after a block counts the transactions up to it. *)
LEMMA TxsCounted ==
  ASSUME NEW d, NEW blocks \in Seq(Seq(Txs)), BlocksIn(d, blocks)
  PROVE  CountTxs(0, blocks) = d.tx_count
<1> DEFINE n == Len(blocks)
           offsets == d.block_tx_count
<1>1. n \in Nat /\ DOMAIN blocks = 1 .. n
  OBVIOUS
<1>2. PICK h : FoldRun(<<"lengths">>, 0, blocks, n, h) /\ CountTxs(0, blocks) = h[n]
  BY <1>1, LengthsFold
<1>3. /\ offsets[1] = 0 /\ offsets[n + 1] = d.tx_count
      /\ \A b \in 1 .. n : offsets[b + 1] = offsets[b] + Len(blocks[b])
  BY DEF BlocksIn
<1> HIDE DEF n, offsets
<1> DEFINE T == {i \in Nat : i <= n => h[i] = offsets[i + 1]}
<1>4. 0 \in T
  BY <1>2, <1>3 DEF FoldRun
<1>5. ASSUME NEW i \in Nat, i \in T PROVE i + 1 \in T
  <2> SUFFICES ASSUME i + 1 <= n PROVE h[i + 1] = offsets[(i + 1) + 1]
    OBVIOUS
  <2>1. h[i] = offsets[i + 1] /\ i + 1 \in 1 .. n /\ (i + 1) - 1 = i
    BY <1>1, <1>5
  <2>2. h[i + 1] = h[i] + Len(blocks[i + 1])
    BY <1>2, <2>1 DEF FoldRun, FoldStep
  <2> QED
    BY <1>3, <2>1, <2>2
<1>6. n \in T
  <2> HIDE DEF T
  <2> QED
    BY <1>1, <1>4, <1>5, SetInduction
<1> QED
  BY <1>1, <1>2, <1>3, <1>6

(* Between two blocks the queries show no more than there is, if nothing was *)
(* taken away again, and both accounts of each grant.                        *)
LEMMA ShowsExactly ==
  ASSUME Indexed, Settled, ~Removed
  PROVE  /\ [Shown EXCEPT !.granted = {}] = [world EXCEPT !.granted = {}]
         /\ GivenBy(Shown.granted) = GivenBy(world.granted)
         /\ GivenPairs(Shown.granted) \subseteq GivenPairs(world.granted)
         /\ OfOneGrantee(Shown.granted) = OfOneGrantee(world.granted)
         /\ UNION {PermissionsGrantedTo(a) : a \in ShownAccounts} = Shown.granted
<1>1. Shows(db, world, "exact")
  BY ShowsSettled
<1>2. /\ world \in Worlds /\ HasRolesIn(db, world, "exact") /\ GrantedIn(db, world, "exact")
      /\ PeersIn(db, world, "exact")
      /\ world.has_role \subseteq AccountIds \X Roles
      /\ world.granted \subseteq AccountIds \X AccountIds \X Perms
  BY <1>1 DEF Shows, Worlds
<1>3. Genesis \notin Roles /\ Genesis \notin Domains /\ Genesis \notin AccountIds
  BY ConstantsAssumption
<1>4. /\ Shown.has_role =
           UNION {{<<db.account_id[a], db.role_name[r]>> : r \in AccountRoles(a)} :
                  a \in ShownAccounts}
      /\ Shown.granted = UNION {PermissionsGrantedBy(a) : a \in ShownAccounts}
      /\ Shown.peers = {PeerView(p) : p \in PeerList}
  BY DEF Shown
<1>5. Shown.has_role \subseteq world.has_role
  <2>1. ASSUME NEW a \in ShownAccounts, NEW r \in AccountRoles(a)
        PROVE  <<db.account_id[a], db.role_name[r]>> \in world.has_role
    <3> DEFINE lists == db.account_roles
    <3>1. Len(lists) \in Nat /\ a \in Nat /\ a >= 1
      BY <1>1, <1>2 DEF HasRolesIn, ShownAccounts, AccountList, Shows, AccountsIn
    <3>2. CASE a <= Len(lists)
      <4>1. AccountRoles(a) = ToSet(lists[a])
        BY <3>2 DEF AccountRoles, ListAt
      <4>2. PICK k \in DOMAIN lists[a] : r = lists[a][k]
        BY <4>1 DEF ToSet
      <4>3. a \in 1 .. Len(lists)
        BY <3>1, <3>2
      <4> QED
        BY <1>2, <4>2, <4>3 DEF HasRolesIn
    <3>3. CASE ~(a <= Len(lists))
      <4>1. AccountRoles(a) = ToSet(<<>>)
        BY <3>3 DEF AccountRoles, ListAt
      <4> QED
        BY <4>1 DEF ToSet
    <3> QED
      BY <3>2, <3>3
  <2> QED
    BY <1>4, <2>1
<1>6. \A g \in db.account_grant :
        /\ g[1] \in ShownAccounts /\ g[2] \in ShownAccounts
        /\ GrantView(g) = <<db.account_id[g[1]], db.account_id[g[2]], g[3]>>
        /\ \E p \in world.granted : p[1] = db.account_id[g[1]] /\ p[3] = g[3]
        /\ \E p \in world.granted : p[1] = db.account_id[g[1]] /\ p[2] = db.account_id[g[2]]
  BY <1>2 DEF GrantedIn, GrantView, AccountList, ShownAccounts
<1>7. Shown.granted = {GrantView(g) : g \in db.account_grant}
  BY <1>4, <1>6 DEF PermissionsGrantedBy
<1>8. UNION {PermissionsGrantedTo(a) : a \in ShownAccounts} = Shown.granted
  BY <1>6, <1>7 DEF PermissionsGrantedTo
<1>9. \A x \in Shown.granted :
        /\ x = <<x[1], x[2], x[3]>>
        /\ \E p \in world.granted : p[1] = x[1] /\ p[3] = x[3]
        /\ \E p \in world.granted : p[1] = x[1] /\ p[2] = x[2]
  <2> TAKE x \in Shown.granted
  <2>1. PICK g \in db.account_grant : x = GrantView(g)
    BY <1>7
  <2>2. /\ x = <<db.account_id[g[1]], db.account_id[g[2]], g[3]>>
        /\ x[1] = db.account_id[g[1]] /\ x[2] = db.account_id[g[2]] /\ x[3] = g[3]
    BY <1>6, <2>1
  <2> QED
    BY <1>6, <2>2
<1>10. /\ GivenBy(Shown.granted) \subseteq GivenBy(world.granted)
       /\ GivenPairs(Shown.granted) \subseteq GivenPairs(world.granted)
  BY <1>9 DEF GivenBy, GivenPairs
<1>11. GivenBy(world.granted) \subseteq GivenBy(Shown.granted)
  BY ShowsCovers
<1>12. OfOneGrantee(Shown.granted) \subseteq OfOneGrantee(world.granted)
  <2> SUFFICES ASSUME NEW x \in Shown.granted,
                      \A h, i \in world.granted : h[1] = x[1] /\ i[1] = x[1] => h[2] = i[2]
               PROVE  x \in world.granted
    BY DEF OfOneGrantee
  <2>1. PICK p \in world.granted : p[1] = x[1] /\ p[3] = x[3]
    BY <1>9
  <2>2. PICK q \in world.granted : q[1] = x[1] /\ q[2] = x[2]
    BY <1>9
  <2>3. p[2] = x[2]
    BY <2>1, <2>2
  <2>4. p = <<p[1], p[2], p[3]>> /\ x = <<x[1], x[2], x[3]>>
    BY <1>2, <1>9
  <2> QED
    BY <2>1, <2>3, <2>4
<1>13. OfOneGrantee(world.granted) \subseteq OfOneGrantee(Shown.granted)
  <2> SUFFICES ASSUME NEW p \in world.granted,
                      \A h, i \in world.granted : h[1] = p[1] /\ i[1] = p[1] => h[2] = i[2]
               PROVE  p \in Shown.granted
    BY DEF OfOneGrantee
  <2>1. PICK x \in Shown.granted : x[1] = p[1] /\ x[3] = p[3]
    <3> DEFINE given == <<p[1], p[3]>>
    <3>1. given \in GivenBy(Shown.granted)
      BY <1>11 DEF GivenBy
    <3>2. given[1] = p[1] /\ given[2] = p[3]
      OBVIOUS
    <3> HIDE DEF given
    <3>3. PICK x \in Shown.granted : given = <<x[1], x[3]>>
      BY <3>1 DEF GivenBy
    <3> QED
      BY <3>2, <3>3
  <2>2. PICK q \in world.granted : q[1] = x[1] /\ q[2] = x[2]
    BY <1>9
  <2>3. p[2] = x[2]
    BY <2>1, <2>2
  <2>4. p = <<p[1], p[2], p[3]>> /\ x = <<x[1], x[2], x[3]>>
    BY <1>2, <1>9
  <2> QED
    BY <2>1, <2>3, <2>4
<1>14. Shown.peers \subseteq world.peers
  BY <1>2, <1>4 DEF PeersIn, PeerView, PeerList
<1>15. /\ Shown.roles = world.roles /\ Shown.domains = world.domains
       /\ Shown.accounts = world.accounts /\ Shown.has_role = world.has_role
       /\ Shown.peers = world.peers
  BY <1>5, <1>14, ShowsCovers
<1>16. world = [roles |-> world.roles, domains |-> world.domains,
                accounts |-> world.accounts, has_role |-> world.has_role,
                granted |-> world.granted, peers |-> world.peers]
  BY <1>2 DEF Worlds
<1>17. Shown = [roles |-> Shown.roles, domains |-> Shown.domains,
                accounts |-> Shown.accounts, has_role |-> Shown.has_role,
                granted |-> Shown.granted, peers |-> Shown.peers]
  BY DEF Shown
<1>18. [Shown EXCEPT !.granted = {}] = [world EXCEPT !.granted = {}]
  BY <1>15, <1>16, <1>17
<1> QED
  BY <1>8, <1>10, <1>11, <1>12, <1>13, <1>18

(* The counters are the sizes of what is there, and of the stubs. *)
LEMMA TotalsShown ==
  ASSUME Indexed, Settled, ~Removed, ledger # <<>>
  PROVE  TotalsRight
<1> DEFINE stub == IF NeedsStub(ledger[1]) THEN 1 ELSE 0
<1>1. /\ Shows(db, world, "exact") /\ BlocksIn(db, ledger) /\ StubIs(db, ledger[1])
      /\ ledger \in Seq(Seq(Txs))
  BY ShowsSettled DEF Indexed
<1>2. /\ RolesIn(db, world) /\ DomainsIn(db, world) /\ AccountsIn(db, world)
      /\ PeersIn(db, world, "exact")
      /\ world.roles \subseteq Roles \X SUBSET RolePerms
      /\ world.domains \subseteq Domains \X Roles
      /\ world.accounts \subseteq AccountIds \X Nat
      /\ world.peers \subseteq Keys \X Addresses
  BY <1>1 DEF Shows, Worlds
<1>3. Genesis \notin Roles /\ Genesis \notin Domains /\ Genesis \notin AccountIds
  BY ConstantsAssumption
<1>4. db.block_count = Len(ledger)
  BY <1>1 DEF BlocksIn
<1>5. db.tx_count = CountTxs(0, ledger)
  BY <1>1, TxsCounted
<1>6. stub = 1 \/ stub = 0
  OBVIOUS
<1>7. stub = 1 => HasStub(db)
  BY <1>1 DEF StubIs
<1>8. stub # 1 => NoStub(db)
  BY <1>1 DEF StubIs
<1> HIDE DEF stub
<1>9. Cardinality(world.roles) + stub = db.role_count
  <2>1. Table(db.role_name, db.role_perms, db.role_count, world.roles)
    BY <1>2, <1>3 DEF RolesIn, Table, Injective
  <2>2. Stubbed(db.role_name, db.role_count, stub)
    BY <1>6, <1>7, <1>8 DEF HasStub, NoStub, Stubbed
  <2> QED
    BY <2>1, <2>2, TableSize
<1>10. Cardinality(world.domains) + stub = db.domain_count
  <2> DEFINE roles == [i \in 1 .. db.domain_count |-> db.role_name[db.domain_role[i]]]
  <2>1. /\ db.domain_count \in Nat /\ DOMAIN db.domain_id = 1 .. db.domain_count
        /\ \A i, j \in 1 .. db.domain_count : db.domain_id[i] = db.domain_id[j] => i = j
    BY <1>2 DEF DomainsIn, Injective
  <2>2. \A i \in 1 .. db.domain_count :
          db.domain_id[i] # Genesis => <<db.domain_id[i], roles[i]>> \in world.domains
    BY <1>2 DEF DomainsIn, Injective
  <2>3. ASSUME NEW p \in world.domains
        PROVE  /\ p[1] # Genesis /\ p = <<p[1], p[2]>>
               /\ \E i \in 1 .. db.domain_count : db.domain_id[i] = p[1] /\ roles[i] = p[2]
    <3>1. p[1] \in Domains /\ p = <<p[1], p[2]>>
      BY <1>2
    <3>2. PICK i \in 1 .. db.domain_count :
            db.domain_id[i] = p[1] /\ db.role_name[db.domain_role[i]] = p[2]
      BY <1>2 DEF DomainsIn
    <3>3. roles[i] = p[2]
      BY <3>2
    <3> QED
      BY <1>3, <3>1, <3>2, <3>3
  <2>4. Table(db.domain_id, roles, db.domain_count, world.domains)
    <3> HIDE DEF roles
    <3> QED
      BY <2>1, <2>2, <2>3 DEF Table
  <2>5. Stubbed(db.domain_id, db.domain_count, stub)
    BY <1>6, <1>7, <1>8 DEF HasStub, NoStub, Stubbed
  <2> HIDE DEF roles
  <2> QED
    BY <2>4, <2>5, TableSize
<1>11. Cardinality(world.accounts) + stub = db.account_count
  <2>1. Table(db.account_id, db.account_quorum, db.account_count, world.accounts)
    BY <1>2, <1>3 DEF AccountsIn, Table, Injective
  <2>2. Stubbed(db.account_id, db.account_count, stub)
    BY <1>6, <1>7, <1>8 DEF HasStub, NoStub, Stubbed
  <2> QED
    BY <2>1, <2>2, TableSize
<1>12. Cardinality(world.peers) = db.peer_count
  <2> DEFINE n == db.peer_count
             I == 1 .. n
             view == [p \in I |-> <<db.peer_pub[p], db.peer_address[p]>>]
  <2>1. n \in Nat /\ I \in SUBSET (1 .. n)
    BY <1>2 DEF PeersIn
  <2>2. view \in [I -> world.peers]
    BY <1>2 DEF PeersIn
  <2>3. \A i, j \in I : view[i] = view[j] => i = j
    <3>1. DOMAIN db.peer_pub = I /\ \A i, j \in I : db.peer_pub[i] = db.peer_pub[j] => i = j
      BY <1>2 DEF PeersIn, Injective
    <3> HIDE DEF I
    <3> QED
      BY <3>1
  <2>4. ASSUME NEW x \in world.peers PROVE \E i \in I : view[i] = x
    <3>1. x = <<x[1], x[2]>>
      BY <1>2
    <3>2. PICK p \in 1 .. n : db.peer_pub[p] = x[1] /\ db.peer_address[p] = x[2]
      BY <1>2 DEF PeersIn
    <3> QED
      BY <3>1, <3>2
  <2>5. Cardinality(I) = n
    BY <2>1, FS_Interval
  <2> HIDE DEF I, view, n
  <2>6. Cardinality(world.peers) = Cardinality(I)
    BY <2>1, <2>2, <2>3, <2>4, ShownOnce
  <2> QED
    BY <2>5, <2>6 DEF n
<1>13. Counts = [blocks |-> db.block_count, transactions |-> db.tx_count,
                 accounts |-> db.account_count, peers |-> db.peer_count,
                 roles |-> db.role_count, domains |-> db.domain_count]
  BY DEF Counts
<1>14. stub = IF \E i \in DOMAIN ledger[1] : ledger[1][i].by = NoCreator THEN 1 ELSE 0
  BY DEF stub, NeedsStub
<1> QED
  BY <1>4, <1>5, <1>9, <1>10, <1>11, <1>12, <1>13, <1>14, Zenon
  DEF TotalsRight, CountTxs

(* ShowsWorld: as long as no command has taken anything away again, the      *)
(* queries show the world state, no more and no less, and its sizes, but for *)
(* the accounts, beyond one, that one account has granted permissions to.    *)
THEOREM ShowsWorldAlways == Spec => []ShowsWorld
<1>1. IndexInv => ShowsWorld
  BY ShowsExactly, TotalsShown DEF IndexInv, ShowsWorld
<1> QED
  BY <1>1, IndexInvAlways, PTL

-----------------------------------------------------------------------------
(* The places of the transactions.                                         *)

(* The offset of a block counts the transactions before it. *)
Offsets(offsets, blocks, total) ==
  /\ Len(blocks) \in Nat /\ \A b \in 1 .. Len(blocks) : Len(blocks[b]) \in Nat
  /\ \A b \in 1 .. Len(blocks) + 1 : offsets[b] \in Nat
  /\ \A b \in 1 .. Len(blocks) : offsets[b + 1] = offsets[b] + Len(blocks[b])
  /\ offsets[1] = 0 /\ offsets[Len(blocks) + 1] = total

LEMMA OffsetsAre ==
  ASSUME NEW d, NEW blocks \in Seq(Seq(Txs)), BlocksIn(d, blocks)
  PROVE  Offsets(d.block_tx_count, blocks, d.tx_count)
<1>1. /\ Len(blocks) \in Nat
      /\ \A b \in 1 .. Len(blocks) : Len(blocks[b]) \in Nat
  <2>1. \A b \in 1 .. Len(blocks) : blocks[b] \in Seq(Txs)
    OBVIOUS
  <2> QED
    BY <2>1
<1>2. \A b \in 1 .. Len(blocks) + 1 : d.block_tx_count[b] \in Nat
  <2>1. d.block_tx_count \in Seq(Nat) /\ Len(d.block_tx_count) = Len(blocks) + 1
    BY DEF BlocksIn
  <2> QED
    BY <2>1
<1> QED
  BY <1>1, <1>2 DEF Offsets, BlocksIn

(* The offsets of the blocks do not go down. *)
LEMMA OffsetsGrow ==
  ASSUME NEW d, NEW blocks \in Seq(Seq(Txs)), BlocksIn(d, blocks)
  PROVE  \A b, c \in 1 .. Len(blocks) + 1 :
           b <= c => d.block_tx_count[b] <= d.block_tx_count[c]
<1> DEFINE n == Len(blocks)
           offsets == d.block_tx_count
           T == {i \in Nat : \A b \in 1 .. n + 1 : b + i <= n + 1 => offsets[b] <= offsets[b + i]}
<1>1. /\ n \in Nat /\ \A b \in 1 .. n : Len(blocks[b]) \in Nat
      /\ \A b \in 1 .. n + 1 : offsets[b] \in Nat
      /\ \A b \in 1 .. n : offsets[b + 1] = offsets[b] + Len(blocks[b])
  BY OffsetsAre DEF Offsets
<1> HIDE DEF n, offsets
<1>2. 0 \in T
  BY <1>1
<1>3. ASSUME NEW i \in Nat, i \in T PROVE i + 1 \in T
  <2> SUFFICES ASSUME NEW b \in 1 .. n + 1, b + (i + 1) <= n + 1
               PROVE  offsets[b] <= offsets[b + (i + 1)]
    OBVIOUS
  <2>1. /\ b + i \in 1 .. n /\ b + i <= n + 1 /\ (b + i) + 1 = b + (i + 1)
        /\ b + i \in 1 .. n + 1 /\ b + (i + 1) \in 1 .. n + 1
    BY <1>1
  <2>2. offsets[b] <= offsets[b + i]
    BY <1>3, <2>1
  <2>3. offsets[b + (i + 1)] = offsets[b + i] + Len(blocks[b + i])
    BY <1>1, <2>1
  <2>4. /\ offsets[b] \in Nat /\ offsets[b + i] \in Nat /\ Len(blocks[b + i]) \in Nat
    BY <1>1, <2>1
  <2> QED
    BY <2>2, <2>3, <2>4
<1>4. \A i \in Nat : i \in T
  <2> HIDE DEF T
  <2> QED
    BY <1>2, <1>3, SetInduction
<1>5. ASSUME NEW b \in 1 .. n + 1, NEW c \in 1 .. n + 1, b <= c
      PROVE  offsets[b] <= offsets[c]
  <2>1. c - b \in Nat /\ b + (c - b) = c /\ c <= n + 1
    BY <1>1, <1>5
  <2> QED
    BY <1>4, <2>1
<1> QED
  BY <1>5 DEF n, offsets

(* Each transaction of the index is one of a block. *)
LEMMA TxPlaced ==
  ASSUME NEW d, NEW blocks \in Seq(Seq(Txs)), BlocksIn(d, blocks),
         NEW i \in 1 .. d.tx_count
  PROVE  \E b \in 1 .. Len(blocks) : \E k \in 1 .. Len(blocks[b]) :
           i = d.block_tx_count[b] + k
<1> DEFINE n == Len(blocks)
           offsets == d.block_tx_count
           Placed(j, m) == \E b \in 1 .. m : \E k \in 1 .. Len(blocks[b]) : j = offsets[b] + k
           T == {m \in Nat : m <= n => \A j \in 1 .. offsets[m + 1] : Placed(j, m)}
<1>1. /\ n \in Nat /\ \A b \in 1 .. n : Len(blocks[b]) \in Nat
      /\ \A b \in 1 .. n + 1 : offsets[b] \in Nat
      /\ \A b \in 1 .. n : offsets[b + 1] = offsets[b] + Len(blocks[b])
      /\ offsets[1] = 0 /\ offsets[n + 1] = d.tx_count
  BY OffsetsAre DEF Offsets
<1> HIDE DEF n, offsets
<1>2. 0 \in T
  BY <1>1
<1>3. ASSUME NEW m \in Nat, m \in T PROVE m + 1 \in T
  <2> SUFFICES ASSUME m + 1 <= n, NEW j \in 1 .. offsets[(m + 1) + 1]
               PROVE  Placed(j, m + 1)
    OBVIOUS
  <2>1. m + 1 \in 1 .. n /\ m + 1 \in 1 .. n + 1 /\ m + 1 \in 1 .. m + 1
    BY <1>1
  <2>2. /\ offsets[(m + 1) + 1] = offsets[m + 1] + Len(blocks[m + 1])
        /\ offsets[m + 1] \in Nat /\ Len(blocks[m + 1]) \in Nat
    BY <1>1, <2>1
  <2>3. CASE j <= offsets[m + 1]
    <3>1. j \in 1 .. offsets[m + 1]
      BY <2>2, <2>3
    <3>2. PICK b \in 1 .. m : \E k \in 1 .. Len(blocks[b]) : j = offsets[b] + k
      BY <1>1, <1>3, <3>1
    <3>3. b \in 1 .. m + 1
      OBVIOUS
    <3> QED
      BY <3>2, <3>3
  <2>4. CASE ~(j <= offsets[m + 1])
    <3>1. /\ j - offsets[m + 1] \in 1 .. Len(blocks[m + 1])
          /\ j = offsets[m + 1] + (j - offsets[m + 1])
      BY <2>2, <2>4
    <3> QED
      BY <2>1, <3>1
  <2> QED
    BY <2>3, <2>4
<1>4. n \in T
  <2> HIDE DEF T
  <2> QED
    BY <1>1, <1>2, <1>3, SetInduction
<1>5. Placed(i, n)
  BY <1>1, <1>4
<1> QED
  BY <1>5 DEF n, offsets

(* And only one. *)
At(d, blocks, b, k, i) ==
  /\ b \in 1 .. Len(blocks) /\ k \in 1 .. Len(blocks[b])
  /\ i = d.block_tx_count[b] + k

LEMMA OnePlace ==
  ASSUME NEW d, NEW blocks \in Seq(Seq(Txs)), BlocksIn(d, blocks),
         NEW b, NEW k, NEW c, NEW l, NEW i,
         At(d, blocks, b, k, i), At(d, blocks, c, l, i)
  PROVE  b = c /\ k = l
<1> DEFINE n == Len(blocks)
           offsets == d.block_tx_count
<1>1. /\ n \in Nat /\ \A x \in 1 .. n : Len(blocks[x]) \in Nat
      /\ \A x \in 1 .. n + 1 : offsets[x] \in Nat
      /\ \A x \in 1 .. n : offsets[x + 1] = offsets[x] + Len(blocks[x])
  BY OffsetsAre DEF Offsets
<1>2. \A x, y \in 1 .. n + 1 : x <= y => offsets[x] <= offsets[y]
  BY OffsetsGrow
<1>3. /\ b \in 1 .. n /\ c \in 1 .. n /\ k \in 1 .. Len(blocks[b]) /\ l \in 1 .. Len(blocks[c])
      /\ offsets[b] + k = offsets[c] + l
  BY DEF At
<1> HIDE DEF n, offsets
<1>4. ASSUME NEW x \in 1 .. n, NEW y \in 1 .. n, x < y
      PROVE  offsets[x] + Len(blocks[x]) <= offsets[y]
  <2>1. x + 1 \in 1 .. n + 1 /\ y \in 1 .. n + 1 /\ x + 1 <= y
    BY <1>1, <1>4
  <2> QED
    BY <1>1, <1>2, <2>1
<1>5. /\ offsets[b] \in Nat /\ offsets[c] \in Nat
      /\ Len(blocks[b]) \in Nat /\ Len(blocks[c]) \in Nat
      /\ b \in Nat /\ c \in Nat
  BY <1>1, <1>3
<1>6. ~(b < c)
  BY <1>3, <1>4, <1>5
<1>7. ~(c < b)
  BY <1>3, <1>4, <1>5
<1>8. b = c
  BY <1>5, <1>6, <1>7
<1> QED
  BY <1>3, <1>5, <1>8

(* DomainCounts: transactionCountPerDomain counts each transaction once, for *)
(* the domain of its creator, whenever that account and domain were created. *)
THEOREM DomainCountsAlways == Spec => []DomainCounts
<1>1. ASSUME Indexed, NEW h \in DomainList
      PROVE  LET name == db.domain_id[h]
             IN  db.domain_tx_count[h] =
                   Cardinality({bk \in (DOMAIN ledger) \X (1 .. db.tx_count) :
                                  /\ bk[2] \in DOMAIN ledger[bk[1]]
                                  /\ DomainName(ledger[bk[1]][bk[2]]) = name})
  <2> DEFINE name == db.domain_id[h]
             offsets == db.block_tx_count
             I == OwnedBy(db, name)
             S == {bk \in (DOMAIN ledger) \X (1 .. db.tx_count) :
                     /\ bk[2] \in DOMAIN ledger[bk[1]]
                     /\ DomainName(ledger[bk[1]][bk[2]]) = name}
             place == [bk \in S |-> offsets[bk[1]] + bk[2]]
  <2>1. /\ CountsIn(db) /\ TxsIn(db) /\ BlocksIn(db, ledger)
        /\ ledger \in Seq(Seq(Txs)) /\ h \in 1 .. db.domain_count
    BY <1>1 DEF Indexed, Shows, DomainList
  <2>2. db.domain_tx_count[h] = Cardinality(I)
    BY <2>1 DEF CountsIn
  <2>3. /\ DOMAIN ledger = 1 .. Len(ledger) /\ Len(ledger) \in Nat
        /\ \A b \in 1 .. Len(ledger) :
             /\ ledger[b] \in Seq(Txs) /\ DOMAIN ledger[b] = 1 .. Len(ledger[b])
             /\ Len(ledger[b]) \in Nat
             /\ \A k \in 1 .. Len(ledger[b]) : ledger[b][k] \in Txs
    BY <2>1
  <2>4. /\ db.tx_count \in Nat /\ Len(db.tx_creator) = db.tx_count
        /\ \A b \in 1 .. Len(ledger) : offsets[b] \in Nat
    <3>1. Offsets(offsets, ledger, db.tx_count)
      BY <2>1, OffsetsAre
    <3>2. \A b \in 1 .. Len(ledger) : b \in 1 .. Len(ledger) + 1
      BY <2>3
    <3> HIDE DEF offsets
    <3> QED
      BY <2>1, <3>1, <3>2 DEF TxsIn, PubsIn, Offsets
  <2>5. \A b \in 1 .. Len(ledger) : \A k \in 1 .. Len(ledger[b]) :
          TxShown(db, offsets[b] + k, ledger[b][k])
    BY <2>1 DEF BlocksIn
  <2>6. ASSUME NEW tx \in Txs PROVE HomeName(CreatorName(tx)) = DomainName(tx)
    <3>1. tx.by \in AccountIds \/ tx.by = NoCreator
      BY DEF Txs
    <3> QED
      BY <3>1, ConstantsAssumption DEF ConstantsAssumption, HomeName, CreatorName, DomainName
  <2> HIDE DEF name, offsets
  <2>7. ASSUME NEW b \in 1 .. Len(ledger), NEW k \in 1 .. Len(ledger[b])
        PROVE  /\ offsets[b] + k \in 1 .. db.tx_count
               /\ offsets[b] + k \in I <=> DomainName(ledger[b][k]) = name
    <3>1. /\ offsets[b] + k \in 1 .. db.tx_count
          /\ db.account_id[db.tx_creator[offsets[b] + k]] = CreatorName(ledger[b][k])
      BY <2>5 DEF TxShown
    <3>2. HomeName(CreatorName(ledger[b][k])) = DomainName(ledger[b][k])
      BY <2>3, <2>6
    <3> QED
      BY <2>4, <3>1, <3>2 DEF OwnedBy
  <2>8. ASSUME NEW b \in 1 .. Len(ledger), NEW k \in 1 .. Len(ledger[b])
        PROVE  k \in 1 .. db.tx_count
    <3>1. offsets[b] + k \in 1 .. db.tx_count
      BY <2>7
    <3>2. offsets[b] \in Nat /\ Len(ledger[b]) \in Nat /\ db.tx_count \in Nat
      BY <2>3, <2>4
    <3> QED
      BY <3>1, <3>2
  <2>9. ASSUME NEW bk \in S
        PROVE  /\ bk[1] \in 1 .. Len(ledger) /\ bk[2] \in 1 .. Len(ledger[bk[1]])
               /\ DomainName(ledger[bk[1]][bk[2]]) = name /\ bk = <<bk[1], bk[2]>>
    BY <2>3
  <2>10. place \in [S -> I]
    <3>1. ASSUME NEW bk \in S PROVE place[bk] \in I
      BY <2>7, <2>9
    <3> HIDE DEF S, I
    <3> QED
      BY <3>1
  <2>11. ASSUME NEW x \in S, NEW y \in S, place[x] = place[y] PROVE x = y
    <3>1. offsets[x[1]] + x[2] = offsets[y[1]] + y[2]
      BY <2>11
    <3>2. x[1] = y[1] /\ x[2] = y[2]
      <4>1. /\ x[1] \in 1 .. Len(ledger) /\ x[2] \in 1 .. Len(ledger[x[1]])
            /\ y[1] \in 1 .. Len(ledger) /\ y[2] \in 1 .. Len(ledger[y[1]])
        BY <2>9
      <4>2. /\ ledger \in Seq(Seq(Txs)) /\ BlocksIn(db, ledger)
            /\ db.block_tx_count[x[1]] + x[2] = db.block_tx_count[y[1]] + y[2]
        BY <2>1, <3>1 DEF offsets
      <4> DEFINE b == x[1]
                 k == x[2]
                 c == y[1]
                 l == y[2]
      <4> HIDE DEF S, b, k, c, l
      <4>3. At(db, ledger, b, k, place[x]) /\ At(db, ledger, c, l, place[x])
        BY <2>11, <4>1, <4>2 DEF b, k, c, l, At, S, offsets
      <4>4. b = c /\ k = l
        BY <4>2, <4>3, OnePlace
      <4> QED
        BY <4>4 DEF b, k, c, l
    <3>3. x = <<x[1], x[2]>> /\ y = <<y[1], y[2]>>
      BY <2>9
    <3> QED
      BY <3>2, <3>3
  <2>12. ASSUME NEW i \in I PROVE \E bk \in S : place[bk] = i
    <3>1. i \in 1 .. db.tx_count
      BY <2>4 DEF OwnedBy
    <3>2. PICK b \in 1 .. Len(ledger) : \E k \in 1 .. Len(ledger[b]) :
            i = db.block_tx_count[b] + k
      BY <2>1, <3>1, TxPlaced
    <3>3. PICK k \in 1 .. Len(ledger[b]) : i = offsets[b] + k
      BY <3>2 DEF offsets
    <3>4. DomainName(ledger[b][k]) = name /\ k \in 1 .. db.tx_count
      BY <2>7, <2>8, <3>3
    <3> DEFINE bk == <<b, k>>
    <3>5. bk \in S
      BY <2>3, <3>4
    <3>6. place[bk] = i
      BY <3>3, <3>5
    <3> QED
      BY <3>5, <3>6
  <2>13. IsFiniteSet(I)
    <3>1. I \subseteq 1 .. db.tx_count
      BY <2>4 DEF OwnedBy
    <3>2. IsFiniteSet(1 .. db.tx_count)
      BY <2>4, FS_Interval
    <3> QED
      BY <3>1, <3>2, FS_Subset
  <2> HIDE DEF S, I, place
  <2>14. place \in Bijection(S, I)
    BY <2>10, <2>11, <2>12, Fun_IsBij
  <2>15. ExistsBijection(S, I)
    BY <2>14 DEF ExistsBijection
  <2>16. Cardinality(S) = Cardinality(I)
    BY <2>13, <2>15, Fun_ExistsBijSymmetric, FS_Bijection
  <2> QED
    BY <2>2, <2>16 DEF S, name
<1>2. IndexInv => DomainCounts
  BY <1>1, Zenon DEF IndexInv, DomainCounts, CountPerDomain
<1> QED
  BY <1>2, IndexInvAlways, PTL

-----------------------------------------------------------------------------
(* Reading the ledger back.                                                *)

(* The offsets of a ledger stay when a block is added. *)
LEMMA SameOffsets ==
  ASSUME NEW blocks \in Seq(Seq(Txs)), NEW txs \in Seq(Txs), NEW old, NEW new, NEW t, NEW u,
         Offsets(old, blocks, t), Offsets(new, Append(blocks, txs), u)
  PROVE  \A b \in 1 .. Len(blocks) + 1 : new[b] = old[b]
<1> DEFINE n == Len(blocks)
           T == {i \in Nat : i <= n => new[i + 1] = old[i + 1]}
<1>1. /\ n \in Nat /\ Len(Append(blocks, txs)) = n + 1
      /\ \A b \in 1 .. n : Append(blocks, txs)[b] = blocks[b]
  OBVIOUS
<1>2. old[1] = 0 /\ new[1] = 0
  BY DEF Offsets
<1>3. ASSUME NEW b \in 1 .. n
      PROVE  old[b + 1] = old[b] + Len(blocks[b]) /\ new[b + 1] = new[b] + Len(blocks[b])
  <2>1. b \in 1 .. n + 1
    BY <1>1
  <2> QED
    BY <1>1, <2>1 DEF Offsets
<1> HIDE DEF n
<1>4. 0 \in T
  BY <1>2
<1>5. ASSUME NEW i \in Nat, i \in T PROVE i + 1 \in T
  <2> SUFFICES ASSUME i + 1 <= n PROVE new[(i + 1) + 1] = old[(i + 1) + 1]
    OBVIOUS
  <2>1. i + 1 \in 1 .. n /\ new[i + 1] = old[i + 1]
    BY <1>1, <1>5
  <2> QED
    BY <1>3, <2>1
<1>6. \A i \in Nat : i \in T
  <2> HIDE DEF T
  <2> QED
    BY <1>4, <1>5, SetInduction
<1>7. ASSUME NEW b \in 1 .. n + 1 PROVE new[b] = old[b]
  <2>1. b - 1 \in Nat /\ b - 1 <= n /\ (b - 1) + 1 = b
    BY <1>1
  <2> QED
    BY <1>6, <2>1
<1> QED
  BY <1>7 DEF n

(* The time of a transaction is the number of those before it, but for the *)
(* first block.                                                            *)
Times ==
  /\ ledger # <<>> => ledger[1] \in GenesisBlocks
  /\ \A b \in 2 .. Len(ledger) : \A k \in 1 .. Len(ledger[b]) :
       ledger[b][k].time = db.block_tx_count[b] + k - 1
  /\ \A k \in 1 .. Len(block) : block[k].time = db.tx_count + k - 1

LEMMA TimesNext ==
  ASSUME Indexed, Times, Readable', [Next]_vars
  PROVE  Times'
<1>1. /\ ledger \in Seq(Seq(Txs)) /\ block \in Seq(Txs) /\ db.tx_count \in Nat
      /\ Offsets(db.block_tx_count, ledger, db.tx_count)
      /\ ledger = <<>> => block = <<>>
  BY OffsetsAre DEF Indexed, TxsIn, PubsIn
<1>2. Indexed'
  BY IndexedNext
<1>3. ledger' \in Seq(Seq(Txs)) /\ BlocksIn(db', ledger')
  BY <1>2 DEF Indexed
<1>4. Offsets(db'.block_tx_count, ledger', db'.tx_count)
  BY <1>3, OffsetsAre
<1>5. CASE CommitGenesis
  <2>1. PICK txs \in GenesisBlocks : ledger = <<>> /\ ledger' = <<txs>> /\ block' = block
    BY <1>5 DEF CommitGenesis
  <2>2. /\ Len(ledger') = 1 /\ ledger'[1] = txs
        /\ Len(block') = 0 /\ \A k \in 1 .. 0 : FALSE
    BY <1>1, <2>1
  <2>3. \A b \in 2 .. Len(ledger') : FALSE
    BY <2>2
  <2> QED
    BY <2>2, <2>3 DEF Times
<1>6. CASE Execute
  <2>1. PICK by, cmd, signer :
          block' = Append(block, Tx(by, db.tx_count + Len(block), <<signer>>, <<cmd>>))
    BY <1>6 DEF Execute
  <2>2. ledger' = ledger /\ db' = db
    BY <1>6 DEF Execute
  <2> DEFINE tx == Tx(by, db.tx_count + Len(block), <<signer>>, <<cmd>>)
  <2>3. tx.time = db.tx_count + Len(block)
    BY DEF Tx
  <2>4. block' = Append(block, tx)
    BY <2>1
  <2> HIDE DEF tx
  <2>5. /\ Len(block) \in Nat /\ Len(block') = Len(block) + 1
        /\ block'[Len(block) + 1] = tx
        /\ \A k \in 1 .. Len(block) : block'[k] = block[k]
    BY <1>1, <2>4
  <2>6. \A k \in 1 .. Len(block') : k \in 1 .. Len(block) \/ k = Len(block) + 1
    BY <2>5
  <2>7. db.tx_count + Len(block) = db.tx_count + (Len(block) + 1) - 1
    BY <1>1, <2>5
  <2>8. \A k \in 1 .. Len(block') : block'[k].time = db'.tx_count + k - 1
    BY <2>2, <2>3, <2>5, <2>6, <2>7 DEF Times
  <2> QED
    BY <2>2, <2>8 DEF Times
<1>7. CASE Commit
  <2>1. ledger # <<>> /\ ledger' = Append(ledger, block) /\ block' = <<>>
    BY <1>7 DEF Commit
  <2>2. \A b \in 1 .. Len(ledger) + 1 : db'.block_tx_count[b] = db.block_tx_count[b]
    BY <1>1, <1>4, <2>1, SameOffsets
  <2>3. /\ Len(ledger) \in Nat /\ Len(ledger) >= 1 /\ Len(ledger') = Len(ledger) + 1
        /\ ledger'[Len(ledger) + 1] = block
        /\ \A b \in 1 .. Len(ledger) : ledger'[b] = ledger[b]
    BY <1>1, <2>1, EmptySeq
  <2>4. db.block_tx_count[Len(ledger) + 1] = db.tx_count
    BY <1>1 DEF Offsets
  <2>5. ASSUME NEW b \in 2 .. Len(ledger'), NEW k \in 1 .. Len(ledger'[b])
        PROVE  ledger'[b][k].time = db'.block_tx_count[b] + k - 1
    <3>1. CASE b = Len(ledger) + 1
      <4>1. ledger'[b] = block /\ db'.block_tx_count[b] = db.tx_count
        BY <2>2, <2>3, <2>4, <3>1
      <4> QED
        BY <4>1 DEF Times
    <3>2. CASE b # Len(ledger) + 1
      <4>1. b \in 2 .. Len(ledger) /\ b \in 1 .. Len(ledger) + 1 /\ b \in 1 .. Len(ledger)
        BY <2>3, <3>2
      <4>2. ledger'[b] = ledger[b] /\ db'.block_tx_count[b] = db.block_tx_count[b]
        BY <2>2, <2>3, <4>1
      <4> QED
        BY <4>1, <4>2 DEF Times
    <3> QED
      BY <3>1, <3>2
  <2>6. ledger'[1] \in GenesisBlocks
    BY <2>1, <2>3 DEF Times
  <2>7. \A k \in 1 .. Len(block') : FALSE
    BY <2>1
  <2> QED
    BY <2>5, <2>6, <2>7 DEF Times
<1>8. CASE UNCHANGED vars
  BY <1>8 DEF vars, Times
<1> QED
  BY <1>5, <1>6, <1>7, <1>8 DEF Next

(* So it is while the keys of the ledger can be read. *)
TimesInv == Readable => Times

LEMMA TimesInvAlways == Spec => []TimesInv
<1>1. Init => Times
  <2> SUFFICES ASSUME Init PROVE Times
    OBVIOUS
  <2>1. ledger = <<>> /\ block = <<>>
    BY DEF Init
  <2>2. Len(<<>>) = 0 /\ \A k \in 1 .. 0 : FALSE
    OBVIOUS
  <2>3. \A b \in 2 .. 0 : FALSE
    OBVIOUS
  <2> QED
    BY <2>1, <2>2, <2>3 DEF Times
<1>2. Init => TimesInv
  BY <1>1 DEF TimesInv
<1>3. IndexInv /\ TimesInv /\ [Next]_vars => TimesInv'
  <2> SUFFICES ASSUME IndexInv, TimesInv, [Next]_vars, Readable' PROVE Times'
    BY DEF TimesInv
  <2>1. Readable
    BY ReadableBefore
  <2>2. Indexed /\ Times
    BY <2>1 DEF IndexInv, TimesInv
  <2> QED
    BY <2>2, TimesNext
<1> QED
  BY <1>2, <1>3, IndexInvAlways, PTL DEF Spec

(* A hash is found at one position: no transaction is in the ledger twice. *)
LEMMA HashesDiffer ==
  ASSUME Indexed, Times
  PROVE  Injective(db.tx_hash) /\ db.tx_hash \in Seq(TxHashes) /\ Len(db.tx_hash) = db.tx_count
<1> DEFINE offsets == db.block_tx_count
           n == Len(ledger)
<1>1. /\ ledger \in Seq(Seq(Txs)) /\ BlocksIn(db, ledger) /\ TxsIn(db)
      /\ Offsets(offsets, ledger, db.tx_count) /\ db.tx_count \in Nat
      /\ db.tx_hash \in Seq(TxHashes) /\ Len(db.tx_hash) = db.tx_count
  BY OffsetsAre DEF Indexed, TxsIn, PubsIn
<1>2. /\ n \in Nat /\ \A b \in 1 .. n : Len(ledger[b]) \in Nat
      /\ \A b \in 1 .. n : offsets[b] \in Nat
      /\ offsets[1] = 0
      /\ n >= 1 => offsets[2] = Len(ledger[1])
  BY <1>1 DEF Offsets
<1>3. \A b \in 1 .. n : DOMAIN ledger[b] = 1 .. Len(ledger[b])
  BY <1>1
<1>4. n >= 1 => \A b \in 2 .. n : Len(ledger[1]) <= offsets[b]
  <2> SUFFICES ASSUME n >= 1, NEW b \in 2 .. n PROVE Len(ledger[1]) <= offsets[b]
    OBVIOUS
  <2>1. 2 \in 1 .. n + 1 /\ b \in 1 .. n + 1 /\ 2 <= b
    BY <1>2
  <2>2. \A x, y \in 1 .. n + 1 : x <= y => offsets[x] <= offsets[y]
    BY <1>1, OffsetsGrow
  <2>3. offsets[2] <= offsets[b]
    BY <2>1, <2>2
  <2> QED
    BY <1>2, <2>3
(* In the first block a time is smaller than in the others. *)
<1>5. ASSUME NEW i \in 1 .. db.tx_count
      PROVE  \/ /\ n >= 1 /\ i \in 1 .. Len(ledger[1])
                /\ db.tx_hash[i] = TxHash(ledger[1][i])
                /\ db.tx_hash[i].time < Len(ledger[1])
             \/ /\ n >= 1 /\ db.tx_hash[i].time = i - 1
                /\ Len(ledger[1]) <= i - 1
  <2>1. PICK b \in 1 .. n : \E k \in 1 .. Len(ledger[b]) : i = offsets[b] + k
    BY <1>1, TxPlaced
  <2>2. PICK k \in 1 .. Len(ledger[b]) : i = offsets[b] + k
    BY <2>1
  <2>3. TxShown(db, i, ledger[b][k])
    BY <1>1, <2>2 DEF BlocksIn
  <2>4. db.tx_hash[i] = TxHash(ledger[b][k]) /\ db.tx_hash[i].time = ledger[b][k].time
    BY <2>3 DEF TxShown, TxHash
  <2>5. n >= 1 /\ offsets[b] \in Nat /\ Len(ledger[b]) \in Nat /\ k \in Nat /\ k >= 1 /\ b \in Nat
    BY <1>2
  <2> HIDE DEF offsets, n
  <2>6. CASE b = 1
    <3>1. i = k
      BY <1>2, <2>2, <2>5, <2>6
    <3>2. ledger # <<>>
      BY <2>5 DEF n
    <3>3. ledger[1] \in GenesisBlocks
      BY <3>2 DEF Times
    <3>4. k \in DOMAIN ledger[1]
      BY <1>3, <2>5, <2>6
    <3>5. ledger[1][k].time < Len(ledger[1])
      BY <3>3, <3>4, GenesisAssumption
    <3> QED
      BY <2>4, <2>5, <2>6, <3>1, <3>5
  <2>7. CASE b # 1
    <3>1. b \in 2 .. n
      BY <2>5, <2>7
    <3>2. ledger[b][k].time = offsets[b] + k - 1
      BY <3>1 DEF Times, n, offsets
    <3>3. Len(ledger[1]) <= offsets[b] /\ Len(ledger[1]) \in Nat
      BY <1>2, <1>4, <2>5, <3>1
    <3> QED
      BY <2>2, <2>4, <2>5, <3>2, <3>3
  <2> QED
    BY <2>6, <2>7
<1>6. ASSUME NEW i \in 1 .. db.tx_count, NEW j \in 1 .. db.tx_count,
             db.tx_hash[i] = db.tx_hash[j]
      PROVE  i = j
  <2>1. /\ n >= 1 /\ Len(ledger[1]) \in Nat
        /\ db.tx_hash[i].time = db.tx_hash[j].time
    BY <1>2, <1>5, <1>6
  <2>2. CASE db.tx_hash[i].time < Len(ledger[1])
    <3>1. /\ i \in 1 .. Len(ledger[1]) /\ db.tx_hash[i] = TxHash(ledger[1][i])
      BY <1>5, <2>1, <2>2
    <3>2. /\ j \in 1 .. Len(ledger[1]) /\ db.tx_hash[j] = TxHash(ledger[1][j])
      BY <1>5, <2>1, <2>2
    <3>3. ledger # <<>>
      BY <2>1
    <3>4. ledger[1] \in GenesisBlocks
      BY <3>3 DEF Times
    <3>5. DOMAIN ledger[1] = 1 .. Len(ledger[1])
      BY <1>2, <1>3, <2>1
    <3> QED
      BY <1>6, <3>1, <3>2, <3>4, <3>5, GenesisAssumption
  <2>3. CASE ~(db.tx_hash[i].time < Len(ledger[1]))
    <3>1. db.tx_hash[i].time = i - 1
      BY <1>5, <2>3
    <3>2. db.tx_hash[j].time = j - 1
      BY <1>5, <2>1, <2>3
    <3>3. i - 1 = j - 1
      BY <2>1, <3>1, <3>2
    <3>4. i \in Int /\ j \in Int
      BY <1>1
    <3> QED
      BY <3>3, <3>4
  <2> QED
    BY <2>2, <2>3
<1>7. DOMAIN db.tx_hash = 1 .. db.tx_count
  BY <1>1
<1> QED
  BY <1>1, <1>6, <1>7 DEF Injective

(* txBlock finds the block of a transaction, also behind empty blocks: the *)
(* offsets that are not beyond the transaction are those up to its block.  *)
LEMMA TxBlockIs ==
  ASSUME Indexed, NEW b \in 1 .. Len(ledger), NEW k \in 1 .. Len(ledger[b])
  PROVE  TxBlock(db.block_tx_count[b] + k) = b
<1> DEFINE offsets == db.block_tx_count
           n == Len(ledger)
           i == offsets[b] + k
           Upto == {c \in 1 .. Len(offsets) : offsets[c] <= i - 1}
<1>1. /\ ledger \in Seq(Seq(Txs)) /\ BlocksIn(db, ledger)
      /\ Offsets(offsets, ledger, db.tx_count) /\ Len(offsets) = n + 1
  BY OffsetsAre DEF Indexed, BlocksIn
<1>2. \A x, y \in 1 .. n + 1 : x <= y => offsets[x] <= offsets[y]
  BY <1>1, OffsetsGrow
<1>3. /\ n \in Nat /\ b \in 1 .. n /\ k \in 1 .. Len(ledger[b]) /\ Len(ledger[b]) \in Nat
      /\ \A c \in 1 .. n + 1 : offsets[c] \in Nat
      /\ offsets[b + 1] = offsets[b] + Len(ledger[b])
  BY <1>1 DEF Offsets
<1>4. b \in 1 .. n + 1 /\ b + 1 \in 1 .. n + 1 /\ b \in Nat
  BY <1>3
<1>5. TxBlock(i) = Cardinality(Upto)
  BY DEF TxBlock
<1> HIDE DEF offsets, n
<1>6. ASSUME NEW c \in 1 .. n + 1
      PROVE  offsets[c] <= i - 1 <=> c <= b
  <2>1. offsets[c] \in Nat /\ offsets[b] \in Nat /\ c \in Nat
    BY <1>3, <1>4
  <2>2. CASE c <= b
    <3>1. offsets[c] <= offsets[b]
      BY <1>2, <1>4, <2>2
    <3> QED
      BY <1>3, <2>1, <2>2, <3>1
  <2>3. CASE ~(c <= b)
    <3>1. b + 1 <= c
      BY <1>4, <2>1, <2>3
    <3>2. offsets[b + 1] <= offsets[c]
      BY <1>2, <1>4, <3>1
    <3> QED
      BY <1>3, <2>1, <2>3, <3>2
  <2> QED
    BY <2>2, <2>3
<1>7. Upto = 1 .. b
  <2>1. Upto = {c \in 1 .. n + 1 : c <= b}
    BY <1>1, <1>6
  <2>2. {c \in 1 .. n + 1 : c <= b} = 1 .. b
    BY <1>3, <1>4
  <2> QED
    BY <2>1, <2>2
<1>8. Cardinality(1 .. b) = b
  BY <1>3, <1>4, FS_Interval
<1> QED
  BY <1>5, <1>7, <1>8 DEF offsets

(* LedgerReadsBack: the queries give the whole ledger back, each block by its *)
(* height and each transaction by its hash, however long it is.               *)
THEOREM LedgerReadsBackAlways == Spec => []LedgerReadsBack
<1>1. ASSUME Indexed, NEW height \in 0 .. Len(ledger) + 1
      PROVE  BlockByHeight(height) = IF height \in DOMAIN ledger THEN height ELSE 0
  <2>1. /\ db.block_count = Len(ledger) /\ Len(ledger) \in Nat
        /\ DOMAIN ledger = 1 .. Len(ledger)
    BY <1>1 DEF Indexed, BlocksIn
  <2> QED
    BY <2>1 DEF BlockByHeight
<1>2. ASSUME Indexed, NEW b \in DOMAIN ledger
      PROVE  BlockView(b) =
               [hash         |-> BlockHash(b, ledger[b]),
                previous     |-> IF b = 1 THEN "-" ELSE BlockHash(b - 1, ledger[b - 1]),
                count        |-> Len(ledger[b]),
                transactions |->
                  [k \in DOMAIN ledger[b] |->
                     [hash      |-> TxHash(ledger[b][k]),
                      createdBy |-> CreatorName(ledger[b][k]),
                      height    |-> b,
                      signers   |-> ToSet(ledger[b][k].signers)]]]
  <2> DEFINE offsets == db.block_tx_count
             m == Len(ledger[b])
             Entry(k) == [hash      |-> TxHash(ledger[b][k]),
                         createdBy |-> CreatorName(ledger[b][k]),
                         height    |-> b,
                         signers   |-> ToSet(ledger[b][k].signers)]
  <2>1. /\ ledger \in Seq(Seq(Txs)) /\ BlocksIn(db, ledger)
        /\ Offsets(offsets, ledger, db.tx_count)
    BY <1>2, OffsetsAre DEF Indexed
  <2>2. b \in 1 .. Len(ledger) /\ Len(ledger) \in Nat /\ m \in Nat /\ DOMAIN ledger[b] = 1 .. m
    BY <2>1
  <2>3. offsets[b] \in Nat /\ offsets[b + 1] = offsets[b] + m
    BY <2>1, <2>2 DEF Offsets
  <2>4. offsets[b + 1] - offsets[b] = m
    BY <2>2, <2>3
  <2>5. /\ db.block_hash[b] = BlockHash(b, ledger[b])
        /\ b # 1 => db.block_hash[b - 1] = BlockHash(b - 1, ledger[b - 1])
    <3>1. \A c \in 1 .. Len(ledger) : db.block_hash[c] = BlockHash(c, ledger[c])
      BY <2>1 DEF BlocksIn
    <3>2. b # 1 => b - 1 \in 1 .. Len(ledger)
      BY <2>2
    <3> QED
      BY <2>2, <3>1, <3>2
  <2>6. ASSUME NEW k \in 1 .. m PROVE TransactionView(offsets[b] + k) = Entry(k)
    <3>1. TxShown(db, offsets[b] + k, ledger[b][k])
      BY <2>1, <2>2 DEF BlocksIn
    <3>2. TxBlock(offsets[b] + k) = b
      BY <1>2, <2>2, TxBlockIs
    <3> HIDE DEF offsets
    <3>3. {db.all_pub[p] : p \in ToSet(ListAt(db.tx_pubs, offsets[b] + k))}
            = ToSet(ledger[b][k].signers)
      BY <3>1 DEF TxShown, SignersOf
    <3> QED
      BY <3>1, <3>2, <3>3 DEF TxShown, TransactionView
  <2> HIDE DEF Entry, m
  <2>7. [k \in 1 .. m |-> TransactionView(offsets[b] + k)] = [k \in 1 .. m |-> Entry(k)]
    BY <2>6
  <2>8. BlockView(b) = [hash         |-> db.block_hash[b],
                        previous     |-> IF b = 1 THEN "-" ELSE db.block_hash[b - 1],
                        count        |-> m,
                        transactions |-> [k \in 1 .. m |-> TransactionView(offsets[b] + k)]]
    BY <2>4 DEF BlockView
  <2> QED
    BY <2>2, <2>5, <2>7, <2>8 DEF Entry, m
<1>3. ASSUME Indexed, Times, NEW i \in 1 .. db.tx_count
      PROVE  TransactionByHash(db.tx_hash[i]) = i
  BY <1>3, HashesDiffer, FindOnly DEF TransactionByHash
<1>4. ASSUME Indexed, Times
      PROVE  /\ \A height \in 0 .. Len(ledger) + 1 :
                  BlockByHeight(height) = IF height \in DOMAIN ledger THEN height ELSE 0
             /\ \A i \in 1 .. db.tx_count : TransactionByHash(db.tx_hash[i]) = i
  BY <1>1, <1>3, <1>4
<1>5. IndexInv /\ TimesInv => LedgerReadsBack
  BY <1>2, <1>4, Zenon DEF IndexInv, TimesInv, LedgerReadsBack
<1> QED
  BY <1>5, IndexInvAlways, TimesInvAlways, PTL

(* CommandsShown: Transaction.commandsJson is the JSON array of the commands  *)
(* of that transaction, of any transaction of any block, however many blocks *)
(* are before it: txBlock finds its block, getTxCmd found its commands in    *)
(* the bytes of that block, and txCmdJson reads all of them and no more.     *)
THEOREM CommandsShownAlways == Spec => []CommandsShown
<1>1. ASSUME Indexed, NEW b \in DOMAIN ledger, NEW k \in DOMAIN ledger[b],
             ledger[b][k].cmds # <<>>
      PROVE  CommandsJson(db.block_tx_count[b] + k) = JsonArray(ledger[b][k].cmds)
  <2> DEFINE i == db.block_tx_count[b] + k
             tx == ledger[b][k]
             bytes == db.block_bytes[b]
             range == db.tx_cmds[i]
  <2>1. ledger \in Seq(Seq(Txs)) /\ CommandsIn(db, ledger)
    BY <1>1 DEF Indexed
  <2>2. b \in 1 .. Len(ledger) /\ k \in 1 .. Len(ledger[b]) /\ tx \in Txs
    BY <2>1
  <2>3. bytes \in Seq(Cells) /\ CommandsAt(bytes, range, tx)
    BY <2>1, <2>2 DEF CommandsIn
  <2>4. TxBlock(i) = b
    BY <1>1, <2>2, TxBlockIs
  <2>5. CommandsJson(i) = TxCmdJson(bytes, range)
    BY <2>4 DEF CommandsJson
  <2>6. tx.cmds # <<>>
    BY <1>1
  <2> HIDE DEF i, tx, bytes, range
  <2>7. TxCmdJson(bytes, range) = JsonArray(tx.cmds)
    BY <2>2, <2>3, <2>6, TxCmdJsonIs
  <2> QED
    BY <2>5, <2>7 DEF i, tx
<1>2. IndexInv => CommandsShown
  BY <1>1 DEF IndexInv, CommandsShown
<1> QED
  BY <1>2, IndexInvAlways, PTL

(* TypeOK: every counter of the index is the length of its tables, and every *)
(* position stored in one is a position of the table it refers to.           *)
THEOREM TypeCorrect == Spec => [](Readable => TypeOK)
<1>1. ASSUME Indexed PROVE TypeOK
  <2>1. PICK w : Shows(db, w, "all")
    BY <1>1 DEF Indexed
  <2>2. /\ RolesIn(db, w) /\ DomainsIn(db, w) /\ AccountsIn(db, w) /\ CountsIn(db)
        /\ HasRolesIn(db, w, "all") /\ GrantedIn(db, w, "all") /\ PeersIn(db, w, "all")
        /\ db.undefined = FALSE
    BY <2>1 DEF Shows
  <2>3. /\ TxsIn(db) /\ BlocksIn(db, ledger) /\ CommandsIn(db, ledger)
        /\ ledger \in Seq(Seq(Txs))
    BY <1>1 DEF Indexed
  <2>4. \A a \in AccountList : AccountRoles(a) \subseteq RoleList
    <3> SUFFICES ASSUME NEW a \in AccountList, NEW r \in AccountRoles(a) PROVE r \in RoleList
      OBVIOUS
    <3> DEFINE lists == db.account_roles
    <3>1. /\ lists \in Seq(Seq(Nat))
          /\ \A j \in 1 .. Len(lists) : \A k \in DOMAIN lists[j] :
               lists[j][k] \in 1 .. db.role_count
      BY <2>2 DEF HasRolesIn
    <3>2. a \in Nat /\ a >= 1
      BY <2>2 DEF AccountList, AccountsIn
    <3>3. r \in ToSet(ListAt(lists, a))
      BY DEF AccountRoles
    <3> HIDE DEF lists
    <3>4. CASE a <= Len(lists)
      <4>1. a \in 1 .. Len(lists) /\ ListAt(lists, a) = lists[a]
        BY <3>1, <3>2, <3>4 DEF ListAt
      <4>2. \E k \in DOMAIN lists[a] : lists[a][k] = r
        BY <3>3, <4>1 DEF ToSet
      <4> QED
        BY <3>1, <4>1, <4>2 DEF RoleList
    <3>5. CASE ~(a <= Len(lists))
      <4>1. ListAt(lists, a) = <<>>
        BY <3>5 DEF ListAt
      <4> QED
        BY <3>3, <4>1 DEF ToSet
    <3> QED
      BY <3>4, <3>5
  <2>5. /\ Len(db.account_id) = db.account_count
        /\ Len(db.account_quorum) = db.account_count
        /\ Len(db.account_roles) <= db.account_count
        /\ Len(db.role_name) = db.role_count
        /\ Len(db.role_perms) = db.role_count
    BY <2>2 DEF AccountsIn, HasRolesIn, RolesIn
  <2>6. /\ ToSet(db.domain_role) \subseteq RoleList
        /\ Len(db.domain_id) = db.domain_count
        /\ Len(db.domain_role) = db.domain_count
        /\ Len(db.domain_tx_count) = db.domain_count
    <3>1. /\ db.domain_role \in Seq(Nat) /\ Len(db.domain_role) = db.domain_count
          /\ \A i \in 1 .. db.domain_count : db.domain_role[i] \in 1 .. db.role_count
          /\ Len(db.domain_id) = db.domain_count /\ Len(db.domain_tx_count) = db.domain_count
      BY <2>2 DEF DomainsIn, CountsIn
    <3>2. DOMAIN db.domain_role = 1 .. db.domain_count
      BY <3>1
    <3> QED
      BY <3>1, <3>2 DEF ToSet, RoleList
  <2>7. /\ Len(db.block_hash) = db.block_count
        /\ Len(db.block_tx_count) = db.block_count + 1
        /\ Last(db.block_tx_count) = db.tx_count
    BY <2>3 DEF BlocksIn, Last
  <2>8. /\ Len(db.tx_hash) = db.tx_count /\ Len(db.tx_time) = db.tx_count
        /\ Len(db.tx_cmds) = db.tx_count
        /\ Len(db.tx_pubs) <= db.tx_count
        /\ Len(db.tx_creator) = db.tx_count
    BY <2>3 DEF TxsIn, PubsIn, CommandsIn
  <2>9. ToSet(db.tx_creator) \subseteq AccountList
    <3>1. /\ db.tx_creator \in Seq(Nat) /\ Len(db.tx_creator) = db.tx_count
          /\ \A i \in 1 .. db.tx_count : db.tx_creator[i] \in 1 .. db.account_count
      BY <2>3 DEF TxsIn
    <3>2. DOMAIN db.tx_creator = 1 .. db.tx_count
      BY <3>1
    <3> QED
      BY <3>1, <3>2 DEF ToSet, AccountList
  <2>10. \A g \in db.account_grant : {g[1], g[2]} \subseteq AccountList
    BY <2>2 DEF GrantedIn, AccountList
  <2>11. \A i \in DOMAIN db.tx_pubs : ToSet(db.tx_pubs[i]) \subseteq DOMAIN db.all_pub
    <3>1. /\ db.all_pub \in Seq(Keys) /\ db.tx_pubs \in Seq(Seq(Nat))
          /\ \A i \in 1 .. Len(db.tx_pubs) : \A k \in DOMAIN db.tx_pubs[i] :
               db.tx_pubs[i][k] \in 1 .. Len(db.all_pub)
      BY <2>3 DEF TxsIn, PubsIn
    <3>2. DOMAIN db.tx_pubs = 1 .. Len(db.tx_pubs) /\ DOMAIN db.all_pub = 1 .. Len(db.all_pub)
      BY <3>1
    <3> QED
      BY <3>1, <3>2 DEF ToSet
  <2>12. Len(db.peer_pub) = db.peer_count /\ Len(db.peer_address) = db.peer_count
    BY <2>2 DEF PeersIn
  <2> QED
    BY <2>2, <2>3, <2>4, <2>5, <2>6, <2>7, <2>8, <2>9, <2>10, <2>11, <2>12, Zenon DEF TypeOK
<1>2. IndexInv => (Readable => TypeOK)
  BY <1>1 DEF IndexInv
<1> QED
  BY <1>2, IndexInvAlways, PTL
=============================================================================
