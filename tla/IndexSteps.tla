----------------------------- MODULE IndexSteps -----------------------------
(***************************************************************************)
(* What AddCommand, AddSigner, AddTx and AddBlock do to an index that      *)
(* shows a world state: it then shows the one that the command, the        *)
(* transaction or the block leads to, for any block that the peer can      *)
(* execute.                                                                *)
(*                                                                         *)
(* Shows relates the index to a world state, one conjunct for each table;  *)
(* a table refers to others by positions, so that what a step leaves alone *)
(* matters as much as what it adds.                                        *)
(***************************************************************************)
EXTENDS FieldsProofs

-----------------------------------------------------------------------------
(* The fields of the index.                                                *)
DbFields ==
  {"block_bytes", "block_count", "block_hash", "block_tx_count", "tx_count", "tx_hash",
   "tx_time", "tx_creator", "tx_pubs", "tx_cmds", "account_count", "account_id",
   "account_quorum", "account_roles", "account_grant", "peer_count", "peer_address",
   "peer_pub", "role_count", "role_name", "role_perms", "domain_count", "domain_id",
   "domain_role", "domain_tx_count", "all_pub", "undefined"}

(* World states. *)
Worlds ==
  [roles    : SUBSET (Roles \X SUBSET RolePerms),
   domains  : SUBSET (Domains \X Roles),
   accounts : SUBSET (AccountIds \X Nat),
   has_role : SUBSET (AccountIds \X Roles),
   granted  : SUBSET (AccountIds \X AccountIds \X Perms),
   peers    : SUBSET (Keys \X Addresses)]

Injective(table) == \A i, j \in DOMAIN table : table[i] = table[j] => i = j

(* Each part of the index shows that part of a world state, and refers only*)
(* to what is there: "all" of the part, and when nothing was taken away    *)
(* again the "exact" part, that is, nothing else.                          *)
RolesIn(d, w) ==
  /\ d.role_count \in Nat
  /\ d.role_name \in Seq(Roles \cup {Genesis}) /\ Len(d.role_name) = d.role_count
  /\ d.role_perms \in Seq(SUBSET RolePerms) /\ Len(d.role_perms) = d.role_count
  /\ Injective(d.role_name)
  /\ \A r \in 1 .. d.role_count :
       d.role_name[r] # Genesis => <<d.role_name[r], d.role_perms[r]>> \in w.roles
  /\ \A p \in w.roles : \E r \in 1 .. d.role_count :
       d.role_name[r] = p[1] /\ d.role_perms[r] = p[2]

DomainsIn(d, w) ==
  /\ d.domain_count \in Nat
  /\ d.domain_id \in Seq(Domains \cup {Genesis}) /\ Len(d.domain_id) = d.domain_count
  /\ d.domain_role \in Seq(Nat) /\ Len(d.domain_role) = d.domain_count
  /\ \A i \in 1 .. d.domain_count : d.domain_role[i] \in 1 .. d.role_count
  /\ Injective(d.domain_id)
  /\ \A i \in 1 .. d.domain_count :
       d.domain_id[i] # Genesis =>
         <<d.domain_id[i], d.role_name[d.domain_role[i]]>> \in w.domains
  /\ \A p \in w.domains : \E i \in 1 .. d.domain_count :
       d.domain_id[i] = p[1] /\ d.role_name[d.domain_role[i]] = p[2]

AccountsIn(d, w) ==
  /\ d.account_count \in Nat
  /\ d.account_id \in Seq(AccountIds \cup {Genesis})
  /\ Len(d.account_id) = d.account_count
  /\ d.account_quorum \in Seq(Nat) /\ Len(d.account_quorum) = d.account_count
  /\ Injective(d.account_id)
  /\ \A a \in 1 .. d.account_count :
       d.account_id[a] # Genesis => <<d.account_id[a], d.account_quorum[a]>> \in w.accounts
  /\ \A p \in w.accounts : \E a \in 1 .. d.account_count :
       d.account_id[a] = p[1] /\ d.account_quorum[a] = p[2]

HasRolesIn(d, w, how) ==
  /\ d.account_roles \in Seq(Seq(Nat)) /\ Len(d.account_roles) <= d.account_count
  /\ \A a \in 1 .. Len(d.account_roles) : \A k \in DOMAIN d.account_roles[a] :
       d.account_roles[a][k] \in 1 .. d.role_count
  /\ \A p \in w.has_role : \E a \in 1 .. Len(d.account_roles) :
       d.account_id[a] = p[1] /\ \E k \in DOMAIN d.account_roles[a] :
                                   d.role_name[d.account_roles[a][k]] = p[2]
  /\ how = "exact" => \A a \in 1 .. Len(d.account_roles) : \A k \in DOMAIN d.account_roles[a] :
       <<d.account_id[a], d.role_name[d.account_roles[a][k]]>> \in w.has_role

(* The permissions that accounts have granted, and when nothing was taken  *)
(* away again, each with one of the accounts that it was granted to.       *)
GrantedIn(d, w, how) ==
  /\ \A g \in d.account_grant : /\ g[1] \in 1 .. d.account_count
                                /\ g[2] \in 1 .. d.account_count
                                /\ d.account_id[g[1]] # Genesis
                                /\ d.account_id[g[2]] # Genesis
  /\ \A p \in w.granted : \E g \in d.account_grant :
       d.account_id[g[1]] = p[1] /\ g[3] = p[3]
  /\ how = "exact" => \A g \in d.account_grant :
       /\ \E p \in w.granted : p[1] = d.account_id[g[1]] /\ p[3] = g[3]
       /\ \E p \in w.granted : p[1] = d.account_id[g[1]] /\ p[2] = d.account_id[g[2]]

PeersIn(d, w, how) ==
  /\ d.peer_count \in Nat
  /\ d.peer_pub \in Seq(Keys) /\ Len(d.peer_pub) = d.peer_count
  /\ d.peer_address \in Seq(Addresses) /\ Len(d.peer_address) = d.peer_count
  /\ \A x \in w.peers : \E p \in 1 .. d.peer_count :
       d.peer_pub[p] = x[1] /\ d.peer_address[p] = x[2]
  /\ how = "exact" => /\ Injective(d.peer_pub)
              /\ \A p \in 1 .. d.peer_count :
                   <<d.peer_pub[p], d.peer_address[p]>> \in w.peers

(* The transactions of the accounts of a domain, the stub's own included.  *)
HomeName(id) == IF id = Genesis THEN Genesis ELSE DomainOf(id)

OwnedBy(d, name) ==
  {i \in 1 .. Len(d.tx_creator) : HomeName(d.account_id[d.tx_creator[i]]) = name}

CountsIn(d) ==
  /\ d.domain_tx_count \in Seq(Nat) /\ Len(d.domain_tx_count) = d.domain_count
  /\ d.tx_creator \in Seq(Nat)
  /\ \A i \in 1 .. Len(d.tx_creator) :
       /\ d.tx_creator[i] \in 1 .. d.account_count
       /\ \E h \in 1 .. d.domain_count :
            d.domain_id[h] = HomeName(d.account_id[d.tx_creator[i]])
  /\ \A h \in 1 .. d.domain_count :
       d.domain_tx_count[h] = Cardinality(OwnedBy(d, d.domain_id[h]))

Shows(d, w, how) ==
  /\ DOMAIN d = DbFields /\ w \in Worlds
  /\ d.undefined = FALSE /\ CountsIn(d)
  /\ RolesIn(d, w) /\ DomainsIn(d, w) /\ AccountsIn(d, w)
  /\ HasRolesIn(d, w, how) /\ GrantedIn(d, w, how) /\ PeersIn(d, w, how)

(* The other parts of the index. *)
RolePart(d)    == <<d.role_count, d.role_name, d.role_perms>>
DomainPart(d)  == <<d.domain_count, d.domain_id, d.domain_role>>
AccountPart(d) == <<d.account_count, d.account_id, d.account_quorum>>
PeerPart(d)    == <<d.peer_count, d.peer_address, d.peer_pub>>
TxPart(d)      == <<d.tx_count, d.tx_hash, d.tx_time, d.tx_creator, d.tx_pubs, d.all_pub>>
BlockPart(d)   == <<d.block_bytes, d.block_count, d.block_hash, d.block_tx_count, d.tx_cmds>>
-----------------------------------------------------------------------------
(* Lemmas about lookups and lists.                                         *)

(* Find gives a position of the value, if it has one. *)
LEMMA FindIs ==
  ASSUME NEW S, NEW table \in Seq(S), NEW value
  PROVE  /\ Find(table, value) \in 0 .. Len(table)
         /\ Find(table, value) # 0 => table[Find(table, value)] = value
         /\ Find(table, value) = 0 => \A i \in 1 .. Len(table) : table[i] # value
<1> DEFINE I == {i \in 1 .. Len(table) : table[i] = value}
<1>1. Find(table, value) = IF I # {} THEN Min(I) ELSE 0
  BY DEF Find, SelectInSeq
<1>2. Len(table) \in Nat
  OBVIOUS
<1>3. CASE I # {}
  <2>1. I \subseteq Nat
    BY <1>2
  <2>2. \E x \in I : \A y \in I : x <= y
    BY <1>3, <2>1, LeastNumber
  <2>3. Min(I) \in I
    BY <2>2, Zenon DEF Min
  <2> HIDE DEF Min
  <2> QED
    BY <1>1, <1>2, <1>3, <2>3
<1>4. CASE I = {}
  BY <1>1, <1>2, <1>4
<1> QED
  BY <1>3, <1>4

(* In a table of different values it is the position of the value. *)
LEMMA FindOnly ==
  ASSUME NEW S, NEW table \in Seq(S), Injective(table), NEW i \in 1 .. Len(table)
  PROVE  Find(table, table[i]) = i
<1>1. Find(table, table[i]) # 0 /\ Find(table, table[i]) \in 0 .. Len(table)
  BY FindIs
<1>2. table[Find(table, table[i])] = table[i]
  BY <1>1, FindIs
<1>3. DOMAIN table = 1 .. Len(table) /\ Find(table, table[i]) \in 1 .. Len(table)
  BY <1>1
<1> QED
  BY <1>2, <1>3 DEF Injective

(* A new value at the end keeps the values of a table different. *)
LEMMA AppendNew ==
  ASSUME NEW S, NEW table \in Seq(S), NEW value \in S
  PROVE  /\ Append(table, value) \in Seq(S)
         /\ Len(Append(table, value)) = Len(table) + 1
         /\ \A i \in 1 .. Len(table) : Append(table, value)[i] = table[i]
         /\ Append(table, value)[Len(table) + 1] = value
         /\ Injective(table) /\ (\A i \in 1 .. Len(table) : table[i] # value) =>
              Injective(Append(table, value))
<1> DEFINE s == Append(table, value)
<1>1. /\ s \in Seq(S) /\ Len(s) = Len(table) + 1 /\ Len(table) \in Nat
      /\ \A i \in 1 .. Len(table) : s[i] = table[i]
      /\ s[Len(table) + 1] = value
  OBVIOUS
<1>2. DOMAIN s = 1 .. Len(table) + 1 /\ DOMAIN table = 1 .. Len(table)
  BY <1>1
<1> HIDE DEF s
<1>3. ASSUME Injective(table), \A i \in 1 .. Len(table) : table[i] # value
      PROVE  Injective(s)
  <2>1. ASSUME NEW i \in DOMAIN s, NEW j \in DOMAIN s, s[i] = s[j] PROVE i = j
    <3>1. \A k \in DOMAIN s : k \in 1 .. Len(table) \/ k = Len(table) + 1
      BY <1>1, <1>2
    <3>2. CASE i \in 1 .. Len(table) /\ j \in 1 .. Len(table)
      BY <1>1, <1>2, <1>3, <2>1, <3>2 DEF Injective
    <3>3. CASE i = Len(table) + 1 /\ j \in 1 .. Len(table)
      BY <1>1, <1>3, <2>1, <3>3
    <3>4. CASE j = Len(table) + 1 /\ i \in 1 .. Len(table)
      BY <1>1, <1>3, <2>1, <3>4
    <3> QED
      BY <3>1, <3>2, <3>3, <3>4
  <2> QED
    BY <2>1 DEF Injective
<1> QED
  BY <1>1, <1>3 DEF s

(* A value before those of one list; lists up to there are made. *)
WithAdded(all, lists, i, value) ==
  /\ Len(all) = IF i > Len(lists) THEN i ELSE Len(lists)
  /\ \A j \in 1 .. Len(all) :
       all[j] = IF j = i THEN <<value>> \o ListAt(lists, i) ELSE ListAt(lists, j)

(* Adding to a list of a table of lists. *)
LEMMA AddAtIs ==
  ASSUME NEW S, NEW lists \in Seq(Seq(S)), NEW i \in Nat \ {0}, NEW value \in S
  PROVE  /\ AddAt(lists, i, value) \in Seq(Seq(S))
         /\ WithAdded(AddAt(lists, i, value), lists, i, value)
<1> DEFINE n == IF i > Len(lists) THEN i ELSE Len(lists)
<1>1. n \in Nat /\ Len(lists) \in Nat
  OBVIOUS
<1>2. \A j \in 1 .. n : ListAt(lists, j) \in Seq(S)
  BY DEF ListAt
<1>3. ListAt(lists, i) \in Seq(S)
  BY DEF ListAt
<1>4. <<value>> \o ListAt(lists, i) \in Seq(S)
  BY <1>3
<1>5. AddAt(lists, i, value) =
        [j \in 1 .. n |-> IF j = i THEN <<value>> \o ListAt(lists, i) ELSE ListAt(lists, j)]
  BY DEF AddAt
<1> HIDE DEF n
<1> QED
  BY <1>1, <1>2, <1>4, <1>5 DEF n, WithAdded

-----------------------------------------------------------------------------
(* Steps that leave a part of the index alone, or only extend the tables   *)
(* that it refers to; only the stubs of a first block have their name.     *)
RolesGrown(d, e) ==
  /\ d.role_count \in Nat /\ e.role_count \in Nat /\ d.role_count <= e.role_count
  /\ \A r \in 1 .. d.role_count : e.role_name[r] = d.role_name[r]
  /\ \A r \in 1 .. e.role_count : r > d.role_count => e.role_name[r] # Genesis

AccountsGrown(d, e) ==
  /\ d.account_count \in Nat /\ e.account_count \in Nat
  /\ d.account_count <= e.account_count
  /\ \A a \in 1 .. d.account_count : e.account_id[a] = d.account_id[a]
  /\ \A a \in 1 .. e.account_count : a > d.account_count => e.account_id[a] # Genesis

DomainsGrown(d, e) ==
  /\ d.domain_count \in Nat /\ e.domain_count \in Nat
  /\ d.domain_count <= e.domain_count
  /\ \A i \in 1 .. d.domain_count : e.domain_id[i] = d.domain_id[i]
  /\ \A i \in 1 .. e.domain_count : i > d.domain_count => e.domain_id[i] # Genesis

Grown(d, e) == RolesGrown(d, e) /\ DomainsGrown(d, e) /\ AccountsGrown(d, e)

(* Roles that are not touched. *)
LEMMA RolesStay ==
  ASSUME NEW d, NEW w, NEW e, NEW v, RolesIn(d, w), RolePart(e) = RolePart(d),
         v.roles = w.roles
  PROVE  RolesIn(e, v) /\ RolesGrown(d, e)
<1>1. /\ e.role_count = d.role_count /\ e.role_name = d.role_name
      /\ e.role_perms = d.role_perms
  BY DEF RolePart
<1>2. RolesIn(e, v)
  BY <1>1 DEF RolesIn, Injective
<1>3. RolesGrown(d, e)
  BY <1>1 DEF RolesGrown, RolesIn
<1> QED
  BY <1>2, <1>3

(* Domains that are not touched, though roles may be new. *)
LEMMA DomainsStay ==
  ASSUME NEW d, NEW w, NEW e, NEW v, DomainsIn(d, w), RolesGrown(d, e),
         DomainPart(e) = DomainPart(d), v.domains = w.domains
  PROVE  DomainsIn(e, v) /\ DomainsGrown(d, e)
<1>1. /\ e.domain_count = d.domain_count /\ e.domain_id = d.domain_id
      /\ e.domain_role = d.domain_role
  BY DEF DomainPart
<1>2. \A i \in 1 .. d.domain_count :
        /\ d.domain_role[i] \in 1 .. d.role_count
        /\ d.domain_role[i] \in 1 .. e.role_count
        /\ e.role_name[d.domain_role[i]] = d.role_name[d.domain_role[i]]
  BY DEF DomainsIn, RolesGrown
<1>3. DomainsIn(e, v)
  <2>1. /\ e.domain_count \in Nat
        /\ e.domain_id \in Seq(Domains \cup {Genesis}) /\ Len(e.domain_id) = e.domain_count
        /\ e.domain_role \in Seq(Nat) /\ Len(e.domain_role) = e.domain_count
        /\ \A i \in 1 .. e.domain_count : e.domain_role[i] \in 1 .. e.role_count
    BY <1>1, <1>2 DEF DomainsIn
  <2>2. Injective(e.domain_id)
    BY <1>1, Zenon DEF DomainsIn
  <2>3. \A i \in 1 .. e.domain_count :
          e.domain_id[i] # Genesis =>
            <<e.domain_id[i], e.role_name[e.domain_role[i]]>> \in v.domains
    BY <1>1, <1>2 DEF DomainsIn
  <2>4. \A p \in v.domains : \E i \in 1 .. e.domain_count :
          e.domain_id[i] = p[1] /\ e.role_name[e.domain_role[i]] = p[2]
    <3> TAKE p \in v.domains
    <3>1. PICK i \in 1 .. d.domain_count :
            d.domain_id[i] = p[1] /\ d.role_name[d.domain_role[i]] = p[2]
      BY DEF DomainsIn
    <3> QED
      BY <1>1, <1>2, <3>1
  <2> QED
    BY <2>1, <2>2, <2>3, <2>4 DEF DomainsIn, Injective
<1>4. DomainsGrown(d, e)
  BY <1>1 DEF DomainsGrown, DomainsIn
<1> QED
  BY <1>3, <1>4

(* Accounts that are not touched. *)
LEMMA AccountsStay ==
  ASSUME NEW d, NEW w, NEW e, NEW v, AccountsIn(d, w), AccountPart(e) = AccountPart(d),
         v.accounts = w.accounts
  PROVE  AccountsIn(e, v) /\ AccountsGrown(d, e)
<1>1. /\ e.account_count = d.account_count /\ e.account_id = d.account_id
      /\ e.account_quorum = d.account_quorum
  BY DEF AccountPart
<1>2. AccountsIn(e, v)
  BY <1>1 DEF AccountsIn, Injective
<1>3. AccountsGrown(d, e)
  BY <1>1 DEF AccountsGrown, AccountsIn
<1> QED
  BY <1>2, <1>3

(* Roles of accounts that are not touched or were only taken away. *)
LEMMA HasRolesStay ==
  ASSUME NEW d, NEW w, NEW how, NEW e, NEW v, HasRolesIn(d, w, how), RolesGrown(d, e),
         AccountsGrown(d, e), e.account_roles = d.account_roles,
         v.has_role \subseteq w.has_role, how = "exact" => v.has_role = w.has_role
  PROVE  HasRolesIn(e, v, how)
<1>1. d.account_roles \in Seq(Seq(Nat)) /\ Len(d.account_roles) \in Nat
        /\ Len(d.account_roles) <= d.account_count
  BY DEF HasRolesIn
<1>2. \A a \in 1 .. Len(d.account_roles) : \A k \in DOMAIN d.account_roles[a] :
        /\ d.account_roles[a][k] \in 1 .. d.role_count
        /\ d.account_roles[a][k] \in 1 .. e.role_count
        /\ e.role_name[d.account_roles[a][k]] = d.role_name[d.account_roles[a][k]]
  <2>1. \A r \in 1 .. d.role_count : r \in 1 .. e.role_count /\ e.role_name[r] = d.role_name[r]
    BY DEF RolesGrown
  <2>2. \A a \in 1 .. Len(d.account_roles) : \A k \in DOMAIN d.account_roles[a] :
          d.account_roles[a][k] \in 1 .. d.role_count
    BY DEF HasRolesIn
  <2> QED
    BY <2>1, <2>2
<1>3. \A a \in 1 .. Len(d.account_roles) : e.account_id[a] = d.account_id[a]
  BY <1>1 DEF AccountsGrown
<1>4. Len(e.account_roles) <= e.account_count
  BY <1>1 DEF AccountsGrown
<1>5. ASSUME NEW p \in v.has_role
      PROVE  \E a \in 1 .. Len(e.account_roles) :
               e.account_id[a] = p[1] /\ \E k \in DOMAIN e.account_roles[a] :
                                           e.role_name[e.account_roles[a][k]] = p[2]
  <2>1. PICK a \in 1 .. Len(d.account_roles) :
          d.account_id[a] = p[1] /\ \E k \in DOMAIN d.account_roles[a] :
                                      d.role_name[d.account_roles[a][k]] = p[2]
    BY DEF HasRolesIn
  <2>2. PICK k \in DOMAIN d.account_roles[a] : d.role_name[d.account_roles[a][k]] = p[2]
    BY <2>1
  <2> QED
    BY <1>2, <1>3, <2>1, <2>2
<1>6. ASSUME how = "exact", NEW a \in 1 .. Len(d.account_roles), NEW k \in DOMAIN d.account_roles[a]
      PROVE  <<e.account_id[a], e.role_name[d.account_roles[a][k]]>> \in v.has_role
  BY <1>2, <1>3, <1>6 DEF HasRolesIn
<1> QED
  BY <1>1, <1>2, <1>4, <1>5, <1>6 DEF HasRolesIn

(* Grants that are not touched or were only taken away. *)
LEMMA GrantedStay ==
  ASSUME NEW d, NEW w, NEW how, NEW e, NEW v, GrantedIn(d, w, how), AccountsGrown(d, e),
         e.account_grant = d.account_grant, v.granted \subseteq w.granted,
         how = "exact" => v.granted = w.granted
  PROVE  GrantedIn(e, v, how)
<1>1. \A g \in d.account_grant : /\ g[1] \in 1 .. d.account_count
                                 /\ g[2] \in 1 .. d.account_count
                                 /\ d.account_id[g[1]] # Genesis
                                 /\ d.account_id[g[2]] # Genesis
  BY DEF GrantedIn
<1>2. \A g \in d.account_grant : /\ g[1] \in 1 .. e.account_count
                                 /\ g[2] \in 1 .. e.account_count
                                 /\ e.account_id[g[1]] = d.account_id[g[1]]
                                 /\ e.account_id[g[2]] = d.account_id[g[2]]
  BY <1>1 DEF AccountsGrown
<1>3. ASSUME NEW p \in v.granted
      PROVE  \E g \in e.account_grant : e.account_id[g[1]] = p[1] /\ g[3] = p[3]
  <2>1. PICK g \in d.account_grant : d.account_id[g[1]] = p[1] /\ g[3] = p[3]
    BY DEF GrantedIn
  <2> QED
    BY <1>2, <2>1
<1>4. ASSUME how = "exact", NEW g \in d.account_grant
      PROVE  /\ \E p \in v.granted : p[1] = e.account_id[g[1]] /\ p[3] = g[3]
             /\ \E p \in v.granted : p[1] = e.account_id[g[1]] /\ p[2] = e.account_id[g[2]]
  BY <1>2, <1>4 DEF GrantedIn
<1> QED
  BY <1>1, <1>2, <1>3, <1>4 DEF GrantedIn

(* Peers that are not touched or were only taken away. *)
LEMMA PeersStay ==
  ASSUME NEW d, NEW w, NEW how, NEW e, NEW v, PeersIn(d, w, how), PeerPart(e) = PeerPart(d),
         v.peers \subseteq w.peers, how = "exact" => v.peers = w.peers
  PROVE  PeersIn(e, v, how)
<1>1. /\ e.peer_count = d.peer_count /\ e.peer_pub = d.peer_pub
      /\ e.peer_address = d.peer_address
  BY DEF PeerPart
<1> QED
  BY <1>1 DEF PeersIn, Injective

(* Counts of a step that adds no transaction and no domain. *)
LEMMA CountsStay ==
  ASSUME NEW d, NEW e, CountsIn(d), AccountsGrown(d, e), DomainPart(e) = DomainPart(d),
         e.tx_creator = d.tx_creator, e.domain_tx_count = d.domain_tx_count
  PROVE  CountsIn(e)
<1>1. e.domain_count = d.domain_count /\ e.domain_id = d.domain_id
  BY DEF DomainPart
<1>2. \A i \in 1 .. Len(d.tx_creator) :
        /\ e.tx_creator[i] \in 1 .. e.account_count
        /\ e.account_id[e.tx_creator[i]] = d.account_id[d.tx_creator[i]]
  BY DEF CountsIn, AccountsGrown
<1>3. \A name : OwnedBy(e, name) = OwnedBy(d, name)
  BY <1>2 DEF OwnedBy
<1>4. \A h \in 1 .. e.domain_count :
        e.domain_tx_count[h] = Cardinality(OwnedBy(e, e.domain_id[h]))
  BY <1>1, <1>3 DEF CountsIn
<1>5. \A i \in 1 .. Len(e.tx_creator) : \E h \in 1 .. e.domain_count :
        e.domain_id[h] = HomeName(e.account_id[e.tx_creator[i]])
  BY <1>1, <1>2 DEF CountsIn
<1> QED
  BY <1>1, <1>2, <1>4, <1>5 DEF CountsIn

(* What is looked up by a name that the world state has is found. *)
LEMMA Lookups ==
  ASSUME NEW d, NEW w, NEW how, Shows(d, w, how)
  PROVE  /\ \A name \in RolesOf(w) :
              /\ Find(d.role_name, name) \in 1 .. d.role_count
              /\ d.role_name[Find(d.role_name, name)] = name
         /\ \A id \in DomainsOf(w) :
              /\ Find(d.domain_id, id) \in 1 .. d.domain_count
              /\ d.domain_id[Find(d.domain_id, id)] = id
         /\ \A id \in AccountsOf(w) :
              /\ Find(d.account_id, id) \in 1 .. d.account_count
              /\ d.account_id[Find(d.account_id, id)] = id
<1>1. ASSUME NEW name \in RolesOf(w)
      PROVE  /\ Find(d.role_name, name) \in 1 .. d.role_count
             /\ d.role_name[Find(d.role_name, name)] = name
  <2>1. PICK p \in w.roles : name = p[1]
    BY DEF RolesOf
  <2>2. PICK r \in 1 .. d.role_count : d.role_name[r] = p[1]
    BY DEF Shows, RolesIn
  <2>3. d.role_name \in Seq(Roles \cup {Genesis}) /\ Len(d.role_name) = d.role_count
    BY DEF Shows, RolesIn
  <2> QED
    BY <2>1, <2>2, <2>3, FindIs
<1>2. ASSUME NEW id \in DomainsOf(w)
      PROVE  /\ Find(d.domain_id, id) \in 1 .. d.domain_count
             /\ d.domain_id[Find(d.domain_id, id)] = id
  <2>1. PICK p \in w.domains : id = p[1]
    BY DEF DomainsOf
  <2>2. PICK i \in 1 .. d.domain_count : d.domain_id[i] = p[1]
    BY DEF Shows, DomainsIn
  <2>3. d.domain_id \in Seq(Domains \cup {Genesis}) /\ Len(d.domain_id) = d.domain_count
    BY DEF Shows, DomainsIn
  <2> QED
    BY <2>1, <2>2, <2>3, FindIs
<1>3. ASSUME NEW id \in AccountsOf(w)
      PROVE  /\ Find(d.account_id, id) \in 1 .. d.account_count
             /\ d.account_id[Find(d.account_id, id)] = id
  <2>1. PICK p \in w.accounts : id = p[1]
    BY DEF AccountsOf
  <2>2. PICK a \in 1 .. d.account_count : d.account_id[a] = p[1]
    BY DEF Shows, AccountsIn
  <2>3. d.account_id \in Seq(AccountIds \cup {Genesis}) /\ Len(d.account_id) = d.account_count
    BY DEF Shows, AccountsIn
  <2> QED
    BY <2>1, <2>2, <2>3, FindIs
<1> QED
  BY <1>1, <1>2, <1>3

(* A name that the world state has not is in no table. *)
LEMMA NewNames ==
  ASSUME NEW d, NEW w, NEW how, Shows(d, w, how)
  PROVE  /\ \A name \in Roles : name \notin RolesOf(w) =>
              \A r \in 1 .. d.role_count : d.role_name[r] # name
         /\ \A id \in Domains : id \notin DomainsOf(w) =>
              \A i \in 1 .. d.domain_count : d.domain_id[i] # id
         /\ \A id \in AccountIds : id \notin AccountsOf(w) =>
              \A a \in 1 .. d.account_count : d.account_id[a] # id
<1>1. Genesis \notin Roles /\ Genesis \notin Domains /\ Genesis \notin AccountIds
  BY ConstantsAssumption DEF ConstantsAssumption
<1>2. ASSUME NEW name \in Roles, NEW r \in 1 .. d.role_count, d.role_name[r] = name
      PROVE  name \in RolesOf(w)
  <2>1. <<d.role_name[r], d.role_perms[r]>> \in w.roles
    BY <1>1, <1>2 DEF Shows, RolesIn
  <2> QED
    BY <1>2, <2>1 DEF RolesOf
<1>3. ASSUME NEW id \in Domains, NEW i \in 1 .. d.domain_count, d.domain_id[i] = id
      PROVE  id \in DomainsOf(w)
  <2>1. <<d.domain_id[i], d.role_name[d.domain_role[i]]>> \in w.domains
    BY <1>1, <1>3 DEF Shows, DomainsIn
  <2> QED
    BY <1>3, <2>1 DEF DomainsOf
<1>4. ASSUME NEW id \in AccountIds, NEW a \in 1 .. d.account_count, d.account_id[a] = id
      PROVE  id \in AccountsOf(w)
  <2>1. <<d.account_id[a], d.account_quorum[a]>> \in w.accounts
    BY <1>1, <1>4 DEF Shows, AccountsIn
  <2> QED
    BY <1>4, <2>1 DEF AccountsOf
<1> QED
  BY <1>2, <1>3, <1>4

-----------------------------------------------------------------------------
(* Commands.                                                               *)

(* The fields that a command has. *)
LEMMA CommandTypes ==
  ASSUME NEW cmd \in Commands
  PROVE  /\ cmd.type \in {"CreateRole", "CreateDomain", "CreateAccount", "AppendRole",
                          "DetachRole", "SetAccountQuorum", "GrantPermission",
                          "RevokePermission", "AddPeer", "RemovePeer"}
         /\ cmd.type = "CreateRole" => cmd.role \in Roles /\ cmd.perms \in SUBSET RolePerms
         /\ cmd.type = "CreateDomain" => cmd.domain \in Domains /\ cmd.role \in Roles
         /\ cmd.type = "CreateAccount" => cmd.account \in AccountIds
         /\ cmd.type = "AppendRole" => cmd.account \in AccountIds /\ cmd.role \in Roles
         /\ cmd.type = "SetAccountQuorum" => cmd.account \in AccountIds /\ cmd.quorum \in Nat
         /\ cmd.type = "GrantPermission" => cmd.account \in AccountIds /\ cmd.perm \in Perms
         /\ cmd.type = "AddPeer" => cmd.key \in Keys /\ cmd.address \in Addresses
BY DEF Commands

(* What a command keeps of the index. *)
Kept(d, e) == Grown(d, e) /\ TxPart(e) = TxPart(d) /\ BlockPart(e) = BlockPart(d)

(* The names of a world state are names. *)
LEMMA WorldNames ==
  ASSUME NEW w \in Worlds
  PROVE  /\ RolesOf(w) \subseteq Roles /\ DomainsOf(w) \subseteq Domains
         /\ AccountsOf(w) \subseteq AccountIds
BY DEF Worlds, RolesOf, DomainsOf, AccountsOf

(* CreateRole adds a role. *)
LEMMA CreateRoleShows ==
  ASSUME NEW d, NEW w, NEW how, NEW tx, NEW by, NEW cmd \in Commands, Shows(d, w, how),
         cmd.type = "CreateRole", Valid(w, by, cmd)
  PROVE  LET e == AddCommand(d, tx, cmd)
         IN Shows(e, Effect(w, by, cmd), how) /\ Kept(d, e)
<1> DEFINE e == AddCommand(d, tx, cmd)
           v == Effect(w, by, cmd)
<1>1. cmd.role \in Roles /\ cmd.perms \in SUBSET RolePerms /\ cmd.role \notin RolesOf(w)
  BY CommandTypes DEF Valid
<1>2. DOMAIN d = DbFields /\ w \in Worlds
  BY DEF Shows
<1>3. e = CreateRole(d, cmd)
  BY DEF AddCommand
<1>4. /\ DOMAIN e = DbFields
      /\ e.role_count = d.role_count + 1
      /\ e.role_name = Append(d.role_name, cmd.role)
      /\ e.role_perms = Append(d.role_perms, cmd.perms)
      /\ e.undefined = d.undefined /\ e.domain_tx_count = d.domain_tx_count
      /\ e.account_roles = d.account_roles /\ e.account_grant = d.account_grant
  BY <1>2, <1>3 DEF CreateRole, DbFields
<1>5. /\ DomainPart(e) = DomainPart(d) /\ AccountPart(e) = AccountPart(d)
      /\ PeerPart(e) = PeerPart(d)
  BY <1>2, <1>3 DEF CreateRole, DbFields, DomainPart, AccountPart, PeerPart
<1>6. TxPart(e) = TxPart(d) /\ BlockPart(e) = BlockPart(d)
  BY <1>2, <1>3 DEF CreateRole, DbFields, TxPart, BlockPart
<1>7. /\ v \in Worlds /\ v.roles = w.roles \cup {<<cmd.role, cmd.perms>>}
      /\ v.domains = w.domains /\ v.accounts = w.accounts /\ v.has_role = w.has_role
      /\ v.granted = w.granted /\ v.peers = w.peers
  BY <1>1, <1>2 DEF Effect, Worlds
<1>8. /\ d.role_count \in Nat
      /\ d.role_name \in Seq(Roles \cup {Genesis}) /\ Len(d.role_name) = d.role_count
      /\ d.role_perms \in Seq(SUBSET RolePerms) /\ Len(d.role_perms) = d.role_count
      /\ Injective(d.role_name)
      /\ cmd.role \in Roles \cup {Genesis}
      /\ \A r \in 1 .. d.role_count : d.role_name[r] # cmd.role
  BY <1>1, NewNames DEF Shows, RolesIn
<1> HIDE DEF e, v
<1>9. /\ e.role_name \in Seq(Roles \cup {Genesis}) /\ Len(e.role_name) = d.role_count + 1
      /\ Injective(e.role_name)
      /\ \A r \in 1 .. d.role_count : e.role_name[r] = d.role_name[r]
      /\ e.role_name[d.role_count + 1] = cmd.role
  <2> DEFINE s == Append(d.role_name, cmd.role)
  <2>1. /\ s \in Seq(Roles \cup {Genesis}) /\ Len(s) = Len(d.role_name) + 1
        /\ \A r \in 1 .. Len(d.role_name) : s[r] = d.role_name[r]
        /\ s[Len(d.role_name) + 1] = cmd.role
        /\ Injective(s)
    BY <1>8, AppendNew
  <2> QED
    BY <1>4, <1>8, <2>1, Zenon
<1>10. /\ e.role_perms \in Seq(SUBSET RolePerms) /\ Len(e.role_perms) = d.role_count + 1
       /\ \A r \in 1 .. d.role_count : e.role_perms[r] = d.role_perms[r]
       /\ e.role_perms[d.role_count + 1] = cmd.perms
  BY <1>1, <1>4, <1>8, AppendNew
<1>11. RolesIn(e, v)
  <2>1. ASSUME NEW r \in 1 .. e.role_count, e.role_name[r] # Genesis
        PROVE  <<e.role_name[r], e.role_perms[r]>> \in v.roles
    <3>1. CASE r \in 1 .. d.role_count
      BY <1>7, <1>9, <1>10, <2>1, <3>1 DEF Shows, RolesIn
    <3>2. CASE r = d.role_count + 1
      BY <1>7, <1>9, <1>10, <3>2
    <3>3. r \in 1 .. d.role_count \/ r = d.role_count + 1
      BY <1>4, <1>8
    <3> QED
      BY <3>1, <3>2, <3>3
  <2>2. ASSUME NEW p \in v.roles
        PROVE  \E r \in 1 .. e.role_count : e.role_name[r] = p[1] /\ e.role_perms[r] = p[2]
    <3>1. CASE p \in w.roles
      <4>1. PICK r \in 1 .. d.role_count : d.role_name[r] = p[1] /\ d.role_perms[r] = p[2]
        BY <3>1 DEF Shows, RolesIn
      <4>2. r \in 1 .. e.role_count
        BY <1>4, <1>8
      <4> QED
        BY <1>9, <1>10, <4>1, <4>2
    <3>2. CASE p = <<cmd.role, cmd.perms>>
      <4>1. d.role_count + 1 \in 1 .. e.role_count
        BY <1>4, <1>8
      <4> QED
        BY <1>9, <1>10, <3>2, <4>1
    <3> QED
      BY <1>7, <3>1, <3>2
  <2>3. e.role_count \in Nat
    BY <1>4, <1>8
  <2> QED
    BY <1>4, <1>9, <1>10, <2>1, <2>2, <2>3 DEF RolesIn
<1>12. RolesGrown(d, e)
  <2>1. cmd.role # Genesis
    BY <1>1, ConstantsAssumption
  <2>2. \A r \in 1 .. d.role_count + 1 : r > d.role_count => r = d.role_count + 1
    BY <1>8
  <2> QED
    BY <1>4, <1>8, <1>9, <2>1, <2>2 DEF RolesGrown
<1>13. DomainsIn(e, v) /\ DomainsGrown(d, e)
  BY <1>5, <1>7, <1>12, DomainsStay DEF Shows
<1>14. AccountsIn(e, v) /\ AccountsGrown(d, e)
  BY <1>5, <1>7, AccountsStay DEF Shows
<1>15. HasRolesIn(e, v, how)
  BY <1>4, <1>7, <1>12, <1>14, HasRolesStay DEF Shows
<1>16. GrantedIn(e, v, how) /\ PeersIn(e, v, how)
  BY <1>4, <1>5, <1>7, <1>14, GrantedStay, PeersStay DEF Shows
<1>17. CountsIn(e)
  BY <1>4, <1>5, <1>6, <1>14, CountsStay DEF Shows, TxPart
<1>18. Shows(e, v, how)
  BY <1>4, <1>7, <1>11, <1>13, <1>14, <1>15, <1>16, <1>17 DEF Shows
<1>19. Kept(d, e)
  BY <1>6, <1>12, <1>13, <1>14 DEF Kept, Grown
<1> QED
  BY <1>18, <1>19 DEF e, v

(* An account gets one more role, as CreateAccount and AppendRole do. *)
LEMMA RoleAdded ==
  ASSUME NEW d, NEW w, NEW how, NEW e, NEW v, HasRolesIn(d, w, how), RolesGrown(d, e),
         AccountsGrown(d, e), NEW i \in Nat \ {0}, NEW role \in Nat,
         i <= e.account_count, role \in 1 .. d.role_count,
         e.account_roles = AddAt(d.account_roles, i, role),
         v.has_role = w.has_role \cup {<<e.account_id[i], d.role_name[role]>>}
  PROVE  HasRolesIn(e, v, how)
<1> DEFINE lists == d.account_roles
           all == e.account_roles
<1>1. /\ lists \in Seq(Seq(Nat)) /\ Len(lists) \in Nat /\ Len(lists) <= d.account_count
      /\ \A a \in 1 .. Len(lists) : lists[a] \in Seq(Nat)
  BY DEF HasRolesIn
<1>2. /\ all \in Seq(Seq(Nat))
      /\ Len(all) = IF i > Len(lists) THEN i ELSE Len(lists)
      /\ \A a \in 1 .. Len(all) :
           all[a] = IF a = i THEN <<role>> \o ListAt(lists, i) ELSE ListAt(lists, a)
  <2>1. all = AddAt(lists, i, role)
    OBVIOUS
  <2> HIDE DEF lists, all
  <2>2. lists \in Seq(Seq(Nat)) /\ i \in Nat \ {0} /\ role \in Nat
    BY <1>1
  <2>3. all \in Seq(Seq(Nat)) /\ WithAdded(all, lists, i, role)
    BY <2>1, <2>2, AddAtIs
  <2> QED
    BY <2>3 DEF WithAdded
<1>3. /\ d.account_count <= e.account_count /\ e.account_count \in Nat
      /\ d.account_count \in Nat
      /\ d.role_count \in Nat /\ e.role_count \in Nat /\ d.role_count <= e.role_count
      /\ \A a \in 1 .. d.account_count : e.account_id[a] = d.account_id[a]
      /\ \A r \in 1 .. d.role_count :
           r \in 1 .. e.role_count /\ e.role_name[r] = d.role_name[r]
  BY DEF AccountsGrown, RolesGrown
<1>4. /\ Len(all) <= e.account_count /\ i \in 1 .. Len(all)
      /\ \A a \in 1 .. Len(lists) : /\ a \in 1 .. Len(all)
                                    /\ e.account_id[a] = d.account_id[a]
  <2> HIDE DEF lists, all
  <2> QED
    BY <1>1, <1>2, <1>3
<1>5. \A a \in 1 .. Len(lists) : \A k \in DOMAIN lists[a] :
        /\ lists[a][k] \in 1 .. e.role_count
        /\ e.role_name[lists[a][k]] = d.role_name[lists[a][k]]
  BY <1>3 DEF HasRolesIn
(* Whatever was in a list is in it one place further on, or at its place. *)
<1>6. \A a \in 1 .. Len(all) : /\ ListAt(lists, a) \in Seq(Nat)
                               /\ a \notin 1 .. Len(lists) => ListAt(lists, a) = <<>>
                               /\ a \in 1 .. Len(lists) => ListAt(lists, a) = lists[a]
  <2> TAKE a \in 1 .. Len(all)
  <2>1. a \in Nat /\ a >= 1
    BY <1>2
  <2> HIDE DEF lists, all
  <2>2. CASE a <= Len(lists)
    BY <1>1, <2>1, <2>2 DEF ListAt
  <2>3. CASE ~(a <= Len(lists))
    BY <1>1, <2>1, <2>3 DEF ListAt
  <2> QED
    BY <2>2, <2>3
<1>7. ASSUME NEW a \in 1 .. Len(all), NEW k \in DOMAIN all[a]
      PROVE  \/ a = i /\ all[a][k] = role
             \/ a \in 1 .. Len(lists) /\ \E l \in DOMAIN lists[a] : lists[a][l] = all[a][k]
  <2> DEFINE list == ListAt(lists, a)
  <2>1. list \in Seq(Nat)
    BY <1>6
  <2>2. all[a] = IF a = i THEN <<role>> \o list ELSE list
    BY <1>2
  <2>3. ASSUME NEW l \in DOMAIN list
        PROVE  a \in 1 .. Len(lists) /\ l \in DOMAIN lists[a] /\ lists[a][l] = list[l]
    BY <1>6, <2>3
  <2> HIDE DEF list, lists, all
  <2>4. CASE a = i
    <3>1. all[a] = <<role>> \o list
      BY <2>2, <2>4
    <3>2. k \in 1 .. Len(list) + 1 /\ Len(list) \in Nat
      BY <2>1, <3>1
    <3>3. CASE k = 1
      BY <2>1, <2>4, <3>1, <3>3
    <3>4. CASE k # 1
      <4>1. k - 1 \in 1 .. Len(list) /\ DOMAIN list = 1 .. Len(list)
        BY <2>1, <3>2, <3>4
      <4>2. all[a][k] = list[k - 1]
        BY <2>1, <3>1, <3>2, <3>4, <4>1
      <4> QED
        BY <2>3, <4>1, <4>2
    <3> QED
      BY <3>3, <3>4
  <2>5. CASE a # i
    BY <2>2, <2>3, <2>5
  <2> QED
    BY <2>4, <2>5
<1>8. ASSUME NEW a \in 1 .. Len(lists), NEW k \in DOMAIN lists[a]
      PROVE  \E l \in DOMAIN all[a] : all[a][l] = lists[a][k]
  <2> DEFINE list == lists[a]
  <2>1. list \in Seq(Nat) /\ a \in 1 .. Len(all) /\ ListAt(lists, a) = list
    BY <1>1, <1>4, <1>6
  <2>2. all[a] = IF a = i THEN <<role>> \o list ELSE list
    BY <1>2, <2>1
  <2>3. k \in DOMAIN list
    OBVIOUS
  <2> HIDE DEF list, lists, all
  <2>4. CASE a = i
    <3>1. all[a] = <<role>> \o list
      BY <2>2, <2>4
    <3>2. Len(list) \in Nat /\ k \in 1 .. Len(list)
      BY <2>1, <2>3
    <3>3. k + 1 \in DOMAIN all[a]
      BY <2>1, <3>1, <3>2
    <3>4. all[a][k + 1] = list[k]
      <4>1. /\ Len(<<role>>) = 1 /\ <<role>> \in Seq({role}) /\ k + 1 \in 2 .. Len(list) + 1
            /\ (k + 1) - 1 = k
        BY <3>2
      <4> QED
        BY <2>1, <3>1, <3>2, <4>1
    <3> QED
      BY <3>3, <3>4 DEF list
  <2>5. CASE a # i
    BY <2>2, <2>3, <2>5 DEF list
  <2> QED
    BY <2>4, <2>5
<1>9. 1 \in DOMAIN all[i] /\ all[i][1] = role
  <2>1. all[i] = <<role>> \o ListAt(lists, i) /\ ListAt(lists, i) \in Seq(Nat)
    BY <1>2, <1>4, <1>6
  <2> DEFINE list == ListAt(lists, i)
  <2> HIDE DEF list, lists, all
  <2>2. all[i] = <<role>> \o list /\ list \in Seq(Nat)
    BY <2>1 DEF list
  <2> QED
    BY <2>2
<1>10. ASSUME NEW p \in v.has_role
       PROVE  \E a \in 1 .. Len(all) :
                e.account_id[a] = p[1] /\ \E k \in DOMAIN all[a] :
                                            e.role_name[all[a][k]] = p[2]
  <2>1. CASE p \in w.has_role
    <3>1. PICK a \in 1 .. Len(lists) :
            d.account_id[a] = p[1] /\ \E k \in DOMAIN lists[a] :
                                        d.role_name[lists[a][k]] = p[2]
      BY <2>1 DEF HasRolesIn
    <3>2. PICK k \in DOMAIN lists[a] : d.role_name[lists[a][k]] = p[2]
      BY <3>1
    <3>3. PICK l \in DOMAIN all[a] : all[a][l] = lists[a][k]
      BY <1>8
    <3>4. e.role_name[all[a][l]] = p[2]
      BY <1>5, <3>2, <3>3
    <3> QED
      BY <1>4, <3>1, <3>4
  <2>2. CASE p = <<e.account_id[i], d.role_name[role]>>
    <3>1. e.role_name[all[i][1]] = d.role_name[role]
      BY <1>3, <1>9
    <3> QED
      BY <1>4, <1>9, <2>2, <3>1
  <2> QED
    BY <2>1, <2>2
<1>11. ASSUME NEW a \in 1 .. Len(all), NEW k \in DOMAIN all[a]
       PROVE  /\ all[a][k] \in 1 .. e.role_count
              /\ how = "exact" => <<e.account_id[a], e.role_name[all[a][k]]>> \in v.has_role
  <2>1. CASE a = i /\ all[a][k] = role
    BY <1>3, <2>1
  <2>2. CASE a \in 1 .. Len(lists) /\ \E l \in DOMAIN lists[a] : lists[a][l] = all[a][k]
    <3>1. PICK l \in DOMAIN lists[a] : lists[a][l] = all[a][k]
      BY <2>2
    <3>2. how = "exact" => <<d.account_id[a], d.role_name[lists[a][l]]>> \in w.has_role
      BY <2>2 DEF HasRolesIn
    <3>3. /\ all[a][k] \in 1 .. e.role_count
          /\ e.role_name[all[a][k]] = d.role_name[lists[a][l]]
          /\ e.account_id[a] = d.account_id[a]
      BY <1>4, <1>5, <2>2, <3>1
    <3> HIDE DEF lists, all
    <3> QED
      BY <3>2, <3>3
  <2> QED
    BY <1>7, <2>1, <2>2
<1> QED
  BY <1>2, <1>4, <1>10, <1>11 DEF HasRolesIn

(* CreateDomain adds a domain with the role that it names. *)
LEMMA CreateDomainShows ==
  ASSUME NEW d, NEW w, NEW how, NEW tx, NEW by, NEW cmd \in Commands, Shows(d, w, how),
         cmd.type = "CreateDomain", Valid(w, by, cmd)
  PROVE  LET e == AddCommand(d, tx, cmd)
         IN Shows(e, Effect(w, by, cmd), how) /\ Kept(d, e)
<1> DEFINE e == AddCommand(d, tx, cmd)
           v == Effect(w, by, cmd)
           role == Find(d.role_name, cmd.role)
           n == d.domain_count + 1
<1>1. /\ cmd.domain \in Domains /\ cmd.role \in Roles
      /\ cmd.domain \notin DomainsOf(w) /\ cmd.role \in RolesOf(w)
  BY CommandTypes DEF Valid
<1>2. DOMAIN d = DbFields /\ w \in Worlds
  BY DEF Shows
<1>3. role \in 1 .. d.role_count /\ d.role_name[role] = cmd.role
  BY <1>1, Lookups
<1>4. role # 0 /\ role \in Nat
  BY <1>3 DEF Shows, RolesIn
<1>5. e = [d EXCEPT !.domain_count    = @ + 1,
                    !.domain_id       = Append(@, cmd.domain),
                    !.domain_role     = Append(@, role),
                    !.domain_tx_count = Append(@, 0)]
  BY <1>4 DEF AddCommand, CreateDomain
<1> HIDE DEF role
<1>6. /\ DOMAIN e = DbFields
      /\ e.domain_count = n
      /\ e.domain_id = Append(d.domain_id, cmd.domain)
      /\ e.domain_role = Append(d.domain_role, role)
      /\ e.domain_tx_count = Append(d.domain_tx_count, 0)
      /\ e.role_count = d.role_count /\ e.role_name = d.role_name
      /\ e.undefined = d.undefined
      /\ e.account_roles = d.account_roles /\ e.account_grant = d.account_grant
  BY <1>2, <1>5 DEF DbFields
<1>7. /\ RolePart(e) = RolePart(d) /\ AccountPart(e) = AccountPart(d)
      /\ PeerPart(e) = PeerPart(d)
  BY <1>2, <1>5 DEF DbFields, RolePart, AccountPart, PeerPart
<1>8. TxPart(e) = TxPart(d) /\ BlockPart(e) = BlockPart(d)
  BY <1>2, <1>5 DEF DbFields, TxPart, BlockPart
<1>9. /\ v \in Worlds /\ v.domains = w.domains \cup {<<cmd.domain, cmd.role>>}
      /\ v.roles = w.roles /\ v.accounts = w.accounts /\ v.has_role = w.has_role
      /\ v.granted = w.granted /\ v.peers = w.peers
  BY <1>1, <1>2 DEF Effect, Worlds
<1>10. /\ d.domain_count \in Nat
       /\ d.domain_id \in Seq(Domains \cup {Genesis}) /\ Len(d.domain_id) = d.domain_count
       /\ d.domain_role \in Seq(Nat) /\ Len(d.domain_role) = d.domain_count
       /\ Injective(d.domain_id)
       /\ cmd.domain \in Domains \cup {Genesis}
       /\ \A i \in 1 .. d.domain_count : d.domain_id[i] # cmd.domain
  BY <1>1, NewNames DEF Shows, DomainsIn
<1> HIDE DEF e, v
<1>11. /\ e.domain_id \in Seq(Domains \cup {Genesis}) /\ Len(e.domain_id) = n
       /\ Injective(e.domain_id)
       /\ \A i \in 1 .. d.domain_count : e.domain_id[i] = d.domain_id[i]
       /\ e.domain_id[n] = cmd.domain
  <2> DEFINE s == Append(d.domain_id, cmd.domain)
  <2>1. /\ s \in Seq(Domains \cup {Genesis}) /\ Len(s) = Len(d.domain_id) + 1
        /\ \A i \in 1 .. Len(d.domain_id) : s[i] = d.domain_id[i]
        /\ s[Len(d.domain_id) + 1] = cmd.domain
        /\ Injective(s)
    BY <1>10, AppendNew
  <2> QED
    BY <1>6, <1>10, <2>1, Zenon
<1>12. /\ e.domain_role \in Seq(Nat) /\ Len(e.domain_role) = n
       /\ \A i \in 1 .. d.domain_count : e.domain_role[i] = d.domain_role[i]
       /\ e.domain_role[n] = role
  BY <1>4, <1>6, <1>10, AppendNew
<1>13. \A i \in 1 .. n : i \in 1 .. d.domain_count \/ i = n
  BY <1>10
<1>14. n \in Nat /\ n \in 1 .. n /\ 1 .. d.domain_count \subseteq 1 .. n
         /\ d.domain_count <= n
  BY <1>10
<1> HIDE DEF n
<1>15. DomainsIn(e, v)
  <2>1. ASSUME NEW i \in 1 .. n
        PROVE  /\ e.domain_role[i] \in 1 .. e.role_count
               /\ e.domain_id[i] # Genesis =>
                    <<e.domain_id[i], e.role_name[e.domain_role[i]]>> \in v.domains
    <3>1. CASE i \in 1 .. d.domain_count
      BY <1>6, <1>9, <1>11, <1>12, <3>1 DEF Shows, DomainsIn
    <3>2. CASE i = n
      BY <1>3, <1>6, <1>9, <1>11, <1>12, <3>2
    <3> QED
      BY <1>13, <3>1, <3>2
  <2>2. ASSUME NEW p \in v.domains
        PROVE  \E i \in 1 .. n :
                 e.domain_id[i] = p[1] /\ e.role_name[e.domain_role[i]] = p[2]
    <3>1. CASE p \in w.domains
      <4>1. PICK i \in 1 .. d.domain_count :
              d.domain_id[i] = p[1] /\ d.role_name[d.domain_role[i]] = p[2]
        BY <3>1 DEF Shows, DomainsIn
      <4>2. i \in 1 .. n
        BY <1>14
      <4> QED
        BY <1>6, <1>11, <1>12, <4>1, <4>2
    <3>2. CASE p = <<cmd.domain, cmd.role>>
      BY <1>3, <1>6, <1>11, <1>12, <1>14, <3>2
    <3> QED
      BY <1>9, <3>1, <3>2
  <2> QED
    BY <1>6, <1>11, <1>12, <1>14, <2>1, <2>2 DEF DomainsIn
<1>16. DomainsGrown(d, e)
  <2>1. cmd.domain # Genesis
    BY <1>1, ConstantsAssumption
  <2>2. \A i \in 1 .. n : i > d.domain_count => i = n
    BY <1>10, <1>13
  <2> QED
    BY <1>6, <1>10, <1>11, <1>14, <2>1, <2>2 DEF DomainsGrown
<1>17. RolesIn(e, v) /\ RolesGrown(d, e)
  BY <1>7, <1>9, RolesStay DEF Shows
<1>18. AccountsIn(e, v) /\ AccountsGrown(d, e)
  BY <1>7, <1>9, AccountsStay DEF Shows
<1>19. HasRolesIn(e, v, how)
  BY <1>6, <1>9, <1>17, <1>18, HasRolesStay DEF Shows
<1>20. GrantedIn(e, v, how) /\ PeersIn(e, v, how)
  BY <1>6, <1>7, <1>9, <1>18, GrantedStay, PeersStay DEF Shows
<1>21. CountsIn(e)
  <2>1. /\ d.domain_tx_count \in Seq(Nat) /\ Len(d.domain_tx_count) = d.domain_count
        /\ d.tx_creator \in Seq(Nat)
    BY DEF Shows, CountsIn
  <2>2. 0 \in Nat
    OBVIOUS
  <2>3. /\ e.domain_tx_count \in Seq(Nat) /\ Len(e.domain_tx_count) = n
        /\ \A h \in 1 .. d.domain_count : e.domain_tx_count[h] = d.domain_tx_count[h]
        /\ e.domain_tx_count[n] = 0
    BY <1>6, <2>1, <2>2, AppendNew DEF n
  <2>4. /\ e.tx_creator = d.tx_creator
        /\ e.account_count = d.account_count /\ e.account_id = d.account_id
    BY <1>7, <1>8 DEF TxPart, AccountPart
  <2>5. \A name : OwnedBy(e, name) = OwnedBy(d, name)
    BY <2>4 DEF OwnedBy
  <2>6. \A i \in 1 .. Len(d.tx_creator) :
          /\ d.tx_creator[i] \in 1 .. d.account_count
          /\ \E h \in 1 .. d.domain_count :
               d.domain_id[h] = HomeName(d.account_id[d.tx_creator[i]])
    BY DEF Shows, CountsIn
(* There was no such domain, so that no account is in it. *)
  <2>7. OwnedBy(d, cmd.domain) = {}
    BY <1>10, <2>6 DEF OwnedBy
  <2>8. ASSUME NEW h \in 1 .. n
        PROVE  e.domain_tx_count[h] = Cardinality(OwnedBy(e, e.domain_id[h]))
    <3>1. CASE h \in 1 .. d.domain_count
      <4>1. d.domain_tx_count[h] = Cardinality(OwnedBy(d, d.domain_id[h]))
        BY <3>1 DEF Shows, CountsIn
      <4> QED
        BY <1>11, <2>3, <2>5, <3>1, <4>1
    <3>2. CASE h = n
      BY <1>11, <2>3, <2>5, <2>7, <3>2, FS_EmptySet
    <3> QED
      BY <1>13, <3>1, <3>2
  <2>9. ASSUME NEW i \in 1 .. Len(d.tx_creator)
        PROVE  \E h \in 1 .. n : e.domain_id[h] = HomeName(d.account_id[d.tx_creator[i]])
    <3>1. PICK h \in 1 .. d.domain_count :
            d.domain_id[h] = HomeName(d.account_id[d.tx_creator[i]])
      BY <2>6
    <3> QED
      BY <1>11, <1>14, <3>1
  <2>10. ASSUME NEW i \in 1 .. Len(e.tx_creator)
         PROVE  /\ e.tx_creator[i] \in 1 .. e.account_count
                /\ \E h \in 1 .. e.domain_count :
                     e.domain_id[h] = HomeName(e.account_id[e.tx_creator[i]])
    BY <1>6, <2>4, <2>6, <2>9
  <2>11. e.tx_creator \in Seq(Nat)
    BY <2>1, <2>4
  <2> QED
    BY <1>6, <2>3, <2>8, <2>10, <2>11 DEF CountsIn
<1>22. Shows(e, v, how)
  BY <1>6, <1>9, <1>15, <1>17, <1>18, <1>19, <1>20, <1>21 DEF Shows
<1>23. Kept(d, e)
  BY <1>8, <1>16, <1>17, <1>18 DEF Kept, Grown
<1> QED
  BY <1>22, <1>23 DEF e, v

(* CreateAccount adds an account with the role of its domain. *)
LEMMA CreateAccountShows ==
  ASSUME NEW d, NEW w, NEW how, NEW tx, NEW by, NEW cmd \in Commands, Shows(d, w, how),
         cmd.type = "CreateAccount", Valid(w, by, cmd)
  PROVE  LET e == AddCommand(d, tx, cmd)
         IN Shows(e, Effect(w, by, cmd), how) /\ Kept(d, e)
<1> DEFINE e == AddCommand(d, tx, cmd)
           v == Effect(w, by, cmd)
           domain == Find(d.domain_id, DomainOf(cmd.account))
           role == d.domain_role[domain]
           n == d.account_count + 1
<1>1. /\ cmd.account \in AccountIds
      /\ cmd.account \notin AccountsOf(w) /\ DomainOf(cmd.account) \in DomainsOf(w)
  BY CommandTypes DEF Valid
<1>2. DOMAIN d = DbFields /\ w \in Worlds
  BY DEF Shows
<1>3. domain \in 1 .. d.domain_count /\ d.domain_id[domain] = DomainOf(cmd.account)
  BY <1>1, Lookups
<1>4. domain # 0
  BY <1>3 DEF Shows, DomainsIn
<1>5. e = [d EXCEPT !.account_count  = @ + 1,
                    !.account_id     = Append(@, cmd.account),
                    !.account_quorum = Append(@, 1),
                    !.account_roles  = AddAt(@, d.account_count + 1, role)]
  BY <1>4 DEF AddCommand, CreateAccount
<1> HIDE DEF domain
<1>6. role \in 1 .. d.role_count /\ role \in Nat
        /\ <<DomainOf(cmd.account), d.role_name[role]>> \in w.domains
  <2>1. d.domain_id[domain] # Genesis
    <3>1. DomainOf(cmd.account) \in Domains
      BY <1>1, <1>2, WorldNames
    <3> QED
      BY <1>3, <3>1, ConstantsAssumption DEF ConstantsAssumption
  <2>2. /\ role \in 1 .. d.role_count
        /\ <<d.domain_id[domain], d.role_name[role]>> \in w.domains
    BY <1>3, <2>1 DEF Shows, DomainsIn
  <2> QED
    BY <1>3, <2>2
<1>7. DefaultRole(w, DomainOf(cmd.account)) = d.role_name[role]
  <2>1. ASSUME NEW r \in Roles, <<DomainOf(cmd.account), r>> \in w.domains
        PROVE  r = d.role_name[role]
    <3> DEFINE p == <<DomainOf(cmd.account), r>>
    <3>1. p[1] = DomainOf(cmd.account) /\ p[2] = r /\ p \in w.domains
      BY <2>1
    <3> HIDE DEF p
    <3>2. PICK i \in 1 .. d.domain_count :
            d.domain_id[i] = p[1] /\ d.role_name[d.domain_role[i]] = p[2]
      BY <3>1 DEF Shows, DomainsIn
    <3>3. DOMAIN d.domain_id = 1 .. d.domain_count /\ Injective(d.domain_id)
      BY DEF Shows, DomainsIn
    <3>4. i = domain
      BY <1>3, <3>1, <3>2, <3>3 DEF Injective
    <3> QED
      BY <3>1, <3>2, <3>4
  <2>2. d.role_name[role] \in Roles
    BY <1>2, <1>6 DEF Worlds
  <2> QED
    BY <1>6, <2>1, <2>2 DEF DefaultRole
<1> HIDE DEF role
<1>8. /\ DOMAIN e = DbFields
      /\ e.account_count = n
      /\ e.account_id = Append(d.account_id, cmd.account)
      /\ e.account_quorum = Append(d.account_quorum, 1)
      /\ e.account_roles = AddAt(d.account_roles, n, role)
      /\ e.undefined = d.undefined /\ e.domain_tx_count = d.domain_tx_count
      /\ e.account_grant = d.account_grant
      /\ e.role_name = d.role_name /\ e.role_count = d.role_count
  BY <1>2, <1>5 DEF DbFields
<1>9. /\ RolePart(e) = RolePart(d) /\ DomainPart(e) = DomainPart(d)
      /\ PeerPart(e) = PeerPart(d)
  BY <1>2, <1>5 DEF DbFields, RolePart, DomainPart, PeerPart
<1>10. TxPart(e) = TxPart(d) /\ BlockPart(e) = BlockPart(d)
  BY <1>2, <1>5 DEF DbFields, TxPart, BlockPart
<1>11. /\ v.accounts = w.accounts \cup {<<cmd.account, 1>>}
       /\ v.has_role = w.has_role \cup {<<cmd.account, d.role_name[role]>>}
       /\ v.roles = w.roles /\ v.domains = w.domains
       /\ v.granted = w.granted /\ v.peers = w.peers
  BY <1>2, <1>7 DEF Effect, Worlds
<1>12. v \in Worlds
  <2>1. d.role_name[role] \in Roles
    BY <1>2, <1>6 DEF Worlds
  <2> QED
    <3> DEFINE A == w.accounts \cup {<<cmd.account, 1>>}
               H == w.has_role \cup {<<cmd.account, d.role_name[role]>>}
    <3>1. A \in SUBSET (AccountIds \X Nat) /\ H \in SUBSET (AccountIds \X Roles)
      BY <1>1, <1>2, <2>1 DEF Worlds
    <3> HIDE DEF A, H
    <3>2. v = [w EXCEPT !.accounts = A, !.has_role = H]
      BY <1>7 DEF Effect, A, H
    <3> QED
      BY <1>2, <3>1, <3>2 DEF Worlds
<1>13. /\ d.account_count \in Nat
       /\ d.account_id \in Seq(AccountIds \cup {Genesis})
       /\ Len(d.account_id) = d.account_count
       /\ d.account_quorum \in Seq(Nat) /\ Len(d.account_quorum) = d.account_count
       /\ Injective(d.account_id)
       /\ cmd.account \in AccountIds \cup {Genesis} /\ 1 \in Nat
       /\ \A a \in 1 .. d.account_count : d.account_id[a] # cmd.account
  BY <1>1, NewNames DEF Shows, AccountsIn
<1> HIDE DEF e, v
<1>14. /\ e.account_id \in Seq(AccountIds \cup {Genesis}) /\ Len(e.account_id) = n
       /\ Injective(e.account_id)
       /\ \A a \in 1 .. d.account_count : e.account_id[a] = d.account_id[a]
       /\ e.account_id[n] = cmd.account
  <2> DEFINE s == Append(d.account_id, cmd.account)
  <2>1. /\ d.account_id \in Seq(AccountIds \cup {Genesis})
        /\ Len(d.account_id) = d.account_count
        /\ cmd.account \in AccountIds \cup {Genesis} /\ Injective(d.account_id)
        /\ \A a \in 1 .. Len(d.account_id) : d.account_id[a] # cmd.account
    BY <1>13
  <2>2. /\ s \in Seq(AccountIds \cup {Genesis}) /\ Len(s) = Len(d.account_id) + 1
        /\ \A a \in 1 .. Len(d.account_id) : s[a] = d.account_id[a]
        /\ s[Len(d.account_id) + 1] = cmd.account
        /\ Injective(s)
    BY <2>1, AppendNew
  <2> QED
    BY <1>8, <2>1, <2>2, Zenon
<1>15. /\ e.account_quorum \in Seq(Nat) /\ Len(e.account_quorum) = n
       /\ \A a \in 1 .. d.account_count : e.account_quorum[a] = d.account_quorum[a]
       /\ e.account_quorum[n] = 1
  BY <1>8, <1>13, AppendNew
<1>16. \A a \in 1 .. n : a \in 1 .. d.account_count \/ a = n
  BY <1>13
<1>17. n \in Nat /\ n \in 1 .. n /\ n \in Nat \ {0} /\ 1 .. d.account_count \subseteq 1 .. n
         /\ d.account_count <= n /\ n > d.account_count
  BY <1>13
<1> HIDE DEF n
<1>18. AccountsIn(e, v)
  <2>1. ASSUME NEW a \in 1 .. n, e.account_id[a] # Genesis
        PROVE  <<e.account_id[a], e.account_quorum[a]>> \in v.accounts
    <3>1. CASE a \in 1 .. d.account_count
      BY <1>11, <1>14, <1>15, <2>1, <3>1 DEF Shows, AccountsIn
    <3>2. CASE a = n
      BY <1>11, <1>14, <1>15, <3>2
    <3> QED
      BY <1>16, <3>1, <3>2
  <2>2. ASSUME NEW p \in v.accounts
        PROVE  \E a \in 1 .. n : e.account_id[a] = p[1] /\ e.account_quorum[a] = p[2]
    <3>1. CASE p \in w.accounts
      <4>1. PICK a \in 1 .. d.account_count :
              d.account_id[a] = p[1] /\ d.account_quorum[a] = p[2]
        BY <3>1 DEF Shows, AccountsIn
      <4>2. a \in 1 .. n
        BY <1>17
      <4> QED
        BY <1>14, <1>15, <4>1, <4>2
    <3>2. CASE p = <<cmd.account, 1>>
      BY <1>14, <1>15, <1>17, <3>2
    <3> QED
      BY <1>11, <3>1, <3>2
  <2> QED
    BY <1>8, <1>14, <1>15, <1>17, <2>1, <2>2 DEF AccountsIn
<1>19. AccountsGrown(d, e)
  <2>1. cmd.account # Genesis
    BY <1>1, ConstantsAssumption
  <2>2. \A a \in 1 .. n : a > d.account_count => a = n
    BY <1>13, <1>16
  <2> QED
    BY <1>8, <1>13, <1>14, <1>17, <2>1, <2>2 DEF AccountsGrown
<1>20. RolesIn(e, v) /\ RolesGrown(d, e)
  BY <1>9, <1>11, RolesStay DEF Shows
<1>21. DomainsIn(e, v) /\ DomainsGrown(d, e)
  BY <1>9, <1>11, <1>20, DomainsStay DEF Shows
<1>22. HasRolesIn(e, v, how)
  <2>1. /\ n \in 1 .. n /\ n <= e.account_count
        /\ v.has_role = w.has_role \cup {<<e.account_id[n], d.role_name[role]>>}
    BY <1>8, <1>11, <1>14, <1>17
  <2>2. HasRolesIn(d, w, how) /\ RolesGrown(d, e)
    BY <1>20 DEF Shows
  <2>3. n \in Nat \ {0} /\ role \in Nat /\ role \in 1 .. d.role_count
    BY <1>6, <1>17
  <2>4. e.account_roles = AddAt(d.account_roles, n, role)
    BY <1>8
  <2> QED
    BY <1>19, <2>1, <2>2, <2>3, <2>4, RoleAdded
<1>23. GrantedIn(e, v, how) /\ PeersIn(e, v, how)
  BY <1>8, <1>9, <1>11, <1>19, GrantedStay, PeersStay DEF Shows
<1>24. CountsIn(e)
  BY <1>8, <1>9, <1>10, <1>19, CountsStay DEF Shows, TxPart
<1>25. Shows(e, v, how)
  BY <1>8, <1>12, <1>18, <1>20, <1>21, <1>22, <1>23, <1>24 DEF Shows
<1>26. Kept(d, e)
  BY <1>10, <1>19, <1>20, <1>21 DEF Kept, Grown
<1> QED
  BY <1>25, <1>26 DEF e, v

(* AppendRole gives an account one more role. *)
LEMMA AppendRoleShows ==
  ASSUME NEW d, NEW w, NEW how, NEW tx, NEW by, NEW cmd \in Commands, Shows(d, w, how),
         cmd.type = "AppendRole", Valid(w, by, cmd)
  PROVE  LET e == AddCommand(d, tx, cmd)
         IN Shows(e, Effect(w, by, cmd), how) /\ Kept(d, e)
<1> DEFINE e == AddCommand(d, tx, cmd)
           v == Effect(w, by, cmd)
           account == Find(d.account_id, cmd.account)
           role == Find(d.role_name, cmd.role)
<1>1. /\ cmd.account \in AccountIds /\ cmd.role \in Roles
      /\ cmd.account \in AccountsOf(w) /\ cmd.role \in RolesOf(w)
  BY CommandTypes DEF Valid
<1>2. DOMAIN d = DbFields /\ w \in Worlds
  BY DEF Shows
<1>3. /\ account \in 1 .. d.account_count /\ d.account_id[account] = cmd.account
      /\ role \in 1 .. d.role_count /\ d.role_name[role] = cmd.role
  BY <1>1, Lookups
<1>4. d.account_count \in Nat /\ d.role_count \in Nat
  BY DEF Shows, RolesIn, AccountsIn
<1>5. /\ account \in Nat \ {0} /\ account # 0 /\ account <= d.account_count
      /\ role # 0 /\ role \in Nat
  BY <1>3, <1>4
<1>6. e = [d EXCEPT !.account_roles = AddAt(@, account, role)]
  BY <1>5 DEF AddCommand, AppendRole
<1> HIDE DEF account, role
<1>7. /\ DOMAIN e = DbFields
      /\ e.account_roles = AddAt(d.account_roles, account, role)
      /\ e.undefined = d.undefined /\ e.domain_tx_count = d.domain_tx_count
      /\ e.account_grant = d.account_grant
      /\ e.account_id = d.account_id /\ e.account_count = d.account_count
      /\ e.domain_count = d.domain_count
  BY <1>2, <1>6 DEF DbFields
<1>8. /\ RolePart(e) = RolePart(d) /\ DomainPart(e) = DomainPart(d)
      /\ AccountPart(e) = AccountPart(d) /\ PeerPart(e) = PeerPart(d)
  BY <1>2, <1>6 DEF DbFields, RolePart, DomainPart, AccountPart, PeerPart
<1>9. TxPart(e) = TxPart(d) /\ BlockPart(e) = BlockPart(d)
  BY <1>2, <1>6 DEF DbFields, TxPart, BlockPart
<1>10. /\ v \in Worlds
       /\ v.has_role = w.has_role \cup {<<cmd.account, cmd.role>>}
       /\ v.roles = w.roles /\ v.domains = w.domains /\ v.accounts = w.accounts
       /\ v.granted = w.granted /\ v.peers = w.peers
  BY <1>1, <1>2 DEF Effect, Worlds
<1> HIDE DEF e, v
<1>11. RolesIn(e, v) /\ RolesGrown(d, e)
  BY <1>8, <1>10, RolesStay DEF Shows
<1>12. DomainsIn(e, v) /\ DomainsGrown(d, e)
  BY <1>8, <1>10, <1>11, DomainsStay DEF Shows
<1>13. AccountsIn(e, v) /\ AccountsGrown(d, e)
  BY <1>8, <1>10, AccountsStay DEF Shows
<1>14. HasRolesIn(e, v, how)
  <2>1. /\ account <= e.account_count
        /\ v.has_role = w.has_role \cup {<<e.account_id[account], d.role_name[role]>>}
    BY <1>3, <1>5, <1>7, <1>10
  <2>2. HasRolesIn(d, w, how)
    BY DEF Shows
  <2> QED
    BY <1>3, <1>5, <1>7, <1>11, <1>13, <2>1, <2>2, RoleAdded
<1>15. GrantedIn(e, v, how) /\ PeersIn(e, v, how)
  BY <1>7, <1>8, <1>10, <1>13, GrantedStay, PeersStay DEF Shows
<1>16. CountsIn(e)
  BY <1>7, <1>8, <1>9, <1>13, CountsStay DEF Shows, TxPart
<1>17. Shows(e, v, how)
  BY <1>7, <1>10, <1>11, <1>12, <1>13, <1>14, <1>15, <1>16 DEF Shows
<1>18. Kept(d, e)
  BY <1>9, <1>11, <1>12, <1>13 DEF Kept, Grown
<1> QED
  BY <1>17, <1>18 DEF e, v

(* SetAccountQuorum changes the quorum of one account. *)
LEMMA SetAccountQuorumShows ==
  ASSUME NEW d, NEW w, NEW how, NEW tx, NEW by, NEW cmd \in Commands, Shows(d, w, how),
         cmd.type = "SetAccountQuorum", Valid(w, by, cmd)
  PROVE  LET e == AddCommand(d, tx, cmd)
         IN Shows(e, Effect(w, by, cmd), how) /\ Kept(d, e)
<1> DEFINE e == AddCommand(d, tx, cmd)
           v == Effect(w, by, cmd)
           account == Find(d.account_id, cmd.account)
<1>1. /\ cmd.account \in AccountIds /\ cmd.quorum \in Nat
      /\ cmd.account \in AccountsOf(w)
  BY CommandTypes DEF Valid
<1>2. DOMAIN d = DbFields /\ w \in Worlds
  BY DEF Shows
<1>3. account \in 1 .. d.account_count /\ d.account_id[account] = cmd.account
  BY <1>1, Lookups
<1>4. /\ d.account_count \in Nat
      /\ d.account_id \in Seq(AccountIds \cup {Genesis})
      /\ Len(d.account_id) = d.account_count
      /\ d.account_quorum \in Seq(Nat) /\ Len(d.account_quorum) = d.account_count
      /\ Injective(d.account_id)
  BY DEF Shows, AccountsIn
<1>5. account # 0
  BY <1>3, <1>4
<1>6. e = [d EXCEPT !.account_quorum[account] = cmd.quorum]
  BY <1>5 DEF AddCommand, SetAccountQuorum
<1> HIDE DEF account
<1>7. /\ DOMAIN e = DbFields
      /\ e.account_quorum = [d.account_quorum EXCEPT ![account] = cmd.quorum]
      /\ e.undefined = d.undefined /\ e.domain_tx_count = d.domain_tx_count
      /\ e.account_grant = d.account_grant /\ e.account_roles = d.account_roles
      /\ e.account_id = d.account_id /\ e.account_count = d.account_count
      /\ e.domain_count = d.domain_count
  BY <1>2, <1>6 DEF DbFields
<1>8. /\ RolePart(e) = RolePart(d) /\ DomainPart(e) = DomainPart(d)
      /\ PeerPart(e) = PeerPart(d)
  BY <1>2, <1>6 DEF DbFields, RolePart, DomainPart, PeerPart
<1>9. TxPart(e) = TxPart(d) /\ BlockPart(e) = BlockPart(d)
  BY <1>2, <1>6 DEF DbFields, TxPart, BlockPart
<1>10. /\ v.accounts = {p \in w.accounts : p[1] # cmd.account}
                         \cup {<<cmd.account, cmd.quorum>>}
       /\ v.roles = w.roles /\ v.domains = w.domains /\ v.has_role = w.has_role
       /\ v.granted = w.granted /\ v.peers = w.peers
  BY <1>2 DEF Effect, Worlds
<1>11. v \in Worlds
  <2> DEFINE A == {p \in w.accounts : p[1] # cmd.account} \cup {<<cmd.account, cmd.quorum>>}
  <2>1. A \in SUBSET (AccountIds \X Nat)
    BY <1>1, <1>2 DEF Worlds
  <2>2. v = [w EXCEPT !.accounts = A]
    BY DEF Effect
  <2> HIDE DEF A
  <2> QED
    BY <1>2, <2>1, <2>2 DEF Worlds
<1> HIDE DEF e, v
<1>12. /\ e.account_quorum \in Seq(Nat) /\ Len(e.account_quorum) = d.account_count
       /\ e.account_quorum[account] = cmd.quorum
       /\ \A a \in 1 .. d.account_count :
            a # account => e.account_quorum[a] = d.account_quorum[a]
  BY <1>1, <1>3, <1>4, <1>7
<1>13. DOMAIN d.account_id = 1 .. d.account_count
  BY <1>4
<1>14. AccountsIn(e, v)
  <2>1. ASSUME NEW a \in 1 .. d.account_count, d.account_id[a] # Genesis
        PROVE  <<d.account_id[a], e.account_quorum[a]>> \in v.accounts
    <3>1. CASE a = account
      BY <1>3, <1>10, <1>12, <3>1
    <3>2. CASE a # account
      <4>1. d.account_id[a] # cmd.account
        BY <1>3, <1>4, <1>13, <3>2 DEF Injective
      <4>2. <<d.account_id[a], d.account_quorum[a]>> \in w.accounts
        BY <2>1 DEF Shows, AccountsIn
      <4>3. <<d.account_id[a], d.account_quorum[a]>> \in v.accounts
        BY <1>10, <4>1, <4>2
      <4> QED
        BY <1>12, <3>2, <4>3
    <3> QED
      BY <3>1, <3>2
  <2>2. ASSUME NEW p \in v.accounts
        PROVE  \E a \in 1 .. d.account_count :
                 d.account_id[a] = p[1] /\ e.account_quorum[a] = p[2]
    <3>1. CASE p \in w.accounts /\ p[1] # cmd.account
      <4>1. PICK a \in 1 .. d.account_count :
              d.account_id[a] = p[1] /\ d.account_quorum[a] = p[2]
        BY <3>1 DEF Shows, AccountsIn
      <4> QED
        BY <1>3, <1>12, <3>1, <4>1
    <3>2. CASE p = <<cmd.account, cmd.quorum>>
      BY <1>3, <1>12, <3>2
    <3> QED
      BY <1>10, <3>1, <3>2
  <2> QED
    BY <1>4, <1>7, <1>12, <2>1, <2>2 DEF AccountsIn
<1>15. AccountsGrown(d, e)
  BY <1>4, <1>7 DEF AccountsGrown
<1>16. RolesIn(e, v) /\ RolesGrown(d, e)
  BY <1>8, <1>10, RolesStay DEF Shows
<1>17. DomainsIn(e, v) /\ DomainsGrown(d, e)
  BY <1>8, <1>10, <1>16, DomainsStay DEF Shows
<1>18. HasRolesIn(e, v, how)
  BY <1>7, <1>10, <1>15, <1>16, HasRolesStay DEF Shows
<1>19. GrantedIn(e, v, how) /\ PeersIn(e, v, how)
  BY <1>7, <1>8, <1>10, <1>15, GrantedStay, PeersStay DEF Shows
<1>20. CountsIn(e)
  BY <1>7, <1>8, <1>9, <1>15, CountsStay DEF Shows, TxPart
<1>21. Shows(e, v, how)
  BY <1>7, <1>11, <1>14, <1>16, <1>17, <1>18, <1>19, <1>20 DEF Shows
<1>22. Kept(d, e)
  BY <1>9, <1>15, <1>16, <1>17 DEF Kept, Grown
<1> QED
  BY <1>21, <1>22 DEF e, v

(* GrantPermission adds a grant of the creator of the transaction. *)
LEMMA GrantPermissionShows ==
  ASSUME NEW d, NEW w, NEW how, NEW tx, NEW cmd \in Commands, Shows(d, w, how),
         cmd.type = "GrantPermission", Valid(w, tx.by, cmd)
  PROVE  LET e == AddCommand(d, tx, cmd)
         IN Shows(e, Effect(w, tx.by, cmd), how) /\ Kept(d, e)
<1> DEFINE e == AddCommand(d, tx, cmd)
           v == Effect(w, tx.by, cmd)
           to == Find(d.account_id, cmd.account)
           by == Find(d.account_id, tx.by)
<1>1. /\ cmd.account \in AccountIds /\ cmd.perm \in Perms
      /\ cmd.account \in AccountsOf(w) /\ tx.by \in AccountsOf(w)
  BY CommandTypes DEF Valid
<1>2. DOMAIN d = DbFields /\ w \in Worlds
  BY DEF Shows
<1>3. /\ to \in 1 .. d.account_count /\ d.account_id[to] = cmd.account
      /\ by \in 1 .. d.account_count /\ d.account_id[by] = tx.by
  BY <1>1, Lookups
<1>4. d.account_count \in Nat
  BY DEF Shows, AccountsIn
<1>5. to # 0 /\ by # 0
  BY <1>3, <1>4
<1>6. tx.by \in AccountIds /\ tx.by # NoCreator
  <2>1. tx.by \in AccountIds
    BY <1>1, <1>2, WorldNames
  <2> QED
    BY <2>1, ConstantsAssumption DEF ConstantsAssumption
<1> DEFINE found == {g \in d.account_grant : g[1] = by}
           with == IF found = {} THEN to ELSE (CHOOSE g \in found : TRUE)[2]
<1>7. e = [d EXCEPT !.account_grant = @ \cup {<<by, with, cmd.perm>>}]
  BY <1>5, <1>6 DEF AddCommand, GrantPermission, TxCreator
<1> HIDE DEF to, by
<1>8. with = to \/ \E g \in d.account_grant : g[1] = by /\ g[2] = with
  <2>1. CASE found = {}
    BY <2>1
  <2>2. CASE found # {}
    <3>1. (CHOOSE g \in found : TRUE) \in found
      BY <2>2
    <3> QED
      BY <2>2, <3>1
  <2> QED
    BY <2>1, <2>2
<1> HIDE DEF with
<1>9. d.account_id[by] # Genesis /\ d.account_id[to] # Genesis
  BY <1>1, <1>3, <1>6, ConstantsAssumption
<1>10. /\ DOMAIN e = DbFields
      /\ e.account_grant = d.account_grant \cup {<<by, with, cmd.perm>>}
      /\ e.undefined = d.undefined /\ e.domain_tx_count = d.domain_tx_count
      /\ e.account_roles = d.account_roles
      /\ e.account_id = d.account_id /\ e.account_count = d.account_count
      /\ e.domain_count = d.domain_count
  BY <1>2, <1>7 DEF DbFields
<1>11. /\ RolePart(e) = RolePart(d) /\ DomainPart(e) = DomainPart(d)
      /\ AccountPart(e) = AccountPart(d) /\ PeerPart(e) = PeerPart(d)
  BY <1>2, <1>7 DEF DbFields, RolePart, DomainPart, AccountPart, PeerPart
<1>12. TxPart(e) = TxPart(d) /\ BlockPart(e) = BlockPart(d)
  BY <1>2, <1>7 DEF DbFields, TxPart, BlockPart
<1>13. /\ v \in Worlds
       /\ v.granted = w.granted \cup {<<tx.by, cmd.account, cmd.perm>>}
       /\ v.roles = w.roles /\ v.domains = w.domains /\ v.accounts = w.accounts
       /\ v.has_role = w.has_role /\ v.peers = w.peers
  BY <1>1, <1>2, <1>6 DEF Effect, Worlds
<1> HIDE DEF e, v
<1>14. RolesIn(e, v) /\ RolesGrown(d, e)
  BY <1>11, <1>13, RolesStay DEF Shows
<1>15. DomainsIn(e, v) /\ DomainsGrown(d, e)
  BY <1>11, <1>13, <1>14, DomainsStay DEF Shows
<1>16. AccountsIn(e, v) /\ AccountsGrown(d, e)
  BY <1>11, <1>13, AccountsStay DEF Shows
<1>17. HasRolesIn(e, v, how)
  BY <1>10, <1>13, <1>14, <1>16, HasRolesStay DEF Shows
<1>18. PeersIn(e, v, how)
  BY <1>11, <1>13, PeersStay DEF Shows
<1>19. GrantedIn(e, v, how)
  <2> DEFINE grant == <<by, with, cmd.perm>>
             given == <<tx.by, cmd.account, cmd.perm>>
  <2>1. /\ grant[1] = by /\ grant[2] = with /\ grant[3] = cmd.perm
        /\ given[1] = tx.by /\ given[2] = cmd.account /\ given[3] = cmd.perm
    OBVIOUS
  <2>2. e.account_grant = d.account_grant \cup {grant} /\ v.granted = w.granted \cup {given}
    BY <1>10, <1>13
  <2> HIDE DEF grant, given
  <2>3. \A g \in d.account_grant : /\ g[1] \in 1 .. d.account_count
                                   /\ g[2] \in 1 .. d.account_count
                                   /\ d.account_id[g[1]] # Genesis
                                   /\ d.account_id[g[2]] # Genesis
    BY DEF Shows, GrantedIn
  <2>4. with \in 1 .. d.account_count /\ d.account_id[with] # Genesis
    BY <1>3, <1>8, <1>9, <2>3
  <2>5. \A g \in e.account_grant : /\ g[1] \in 1 .. e.account_count
                                   /\ g[2] \in 1 .. e.account_count
                                   /\ e.account_id[g[1]] # Genesis
                                   /\ e.account_id[g[2]] # Genesis
    BY <1>3, <1>9, <1>10, <2>1, <2>2, <2>3, <2>4
  <2>6. ASSUME NEW p \in v.granted
        PROVE  \E g \in e.account_grant : e.account_id[g[1]] = p[1] /\ g[3] = p[3]
    <3>1. CASE p \in w.granted
      <4>1. PICK g \in d.account_grant : d.account_id[g[1]] = p[1] /\ g[3] = p[3]
        BY <3>1 DEF Shows, GrantedIn
      <4> QED
        BY <1>10, <2>2, <4>1
    <3>2. CASE p = given
      <4>1. grant \in e.account_grant /\ e.account_id[grant[1]] = p[1] /\ grant[3] = p[3]
        BY <1>3, <1>10, <2>1, <2>2, <3>2
      <4> QED
        BY <4>1
    <3> QED
      BY <2>2, <3>1, <3>2
  <2>7. ASSUME how = "exact", NEW g \in e.account_grant
        PROVE  /\ \E p \in v.granted : p[1] = e.account_id[g[1]] /\ p[3] = g[3]
               /\ \E p \in v.granted : p[1] = e.account_id[g[1]] /\ p[2] = e.account_id[g[2]]
    <3>1. \A x \in d.account_grant :
            /\ \E p \in w.granted : p[1] = d.account_id[x[1]] /\ p[3] = x[3]
            /\ \E p \in w.granted : p[1] = d.account_id[x[1]] /\ p[2] = d.account_id[x[2]]
      BY <2>7 DEF Shows, GrantedIn
    <3>2. CASE g \in d.account_grant
      BY <1>10, <2>2, <3>1, <3>2
    <3>3. CASE g = grant
      <4>1. given \in v.granted /\ given[1] = e.account_id[g[1]] /\ given[3] = g[3]
        BY <1>3, <1>10, <2>1, <2>2, <3>3
      <4>2. CASE with = to
        <5>1. given[2] = e.account_id[g[2]]
          BY <1>3, <1>10, <2>1, <3>3, <4>2
        <5> QED
          BY <4>1, <5>1
      <4>3. CASE \E x \in d.account_grant : x[1] = by /\ x[2] = with
        <5>1. PICK x \in d.account_grant : x[1] = by /\ x[2] = with
          BY <4>3
        <5>2. PICK p \in w.granted : p[1] = d.account_id[by] /\ p[2] = d.account_id[with]
          BY <3>1, <5>1
        <5>3. p \in v.granted /\ p[1] = e.account_id[g[1]] /\ p[2] = e.account_id[g[2]]
          BY <1>10, <2>1, <2>2, <3>3, <5>2
        <5> QED
          BY <4>1, <5>3
      <4> QED
        BY <1>8, <4>2, <4>3
    <3> QED
      BY <2>2, <3>2, <3>3
  <2> QED
    BY <2>5, <2>6, <2>7 DEF GrantedIn
<1>20. CountsIn(e)
  BY <1>10, <1>11, <1>12, <1>16, CountsStay DEF Shows, TxPart
<1>21. Shows(e, v, how)
  BY <1>10, <1>13, <1>14, <1>15, <1>16, <1>17, <1>18, <1>19, <1>20 DEF Shows
<1>22. Kept(d, e)
  BY <1>12, <1>14, <1>15, <1>16 DEF Kept, Grown
<1> QED
  BY <1>21, <1>22 DEF e, v

(* AddPeer adds a peer. *)
LEMMA AddPeerShows ==
  ASSUME NEW d, NEW w, NEW how, NEW tx, NEW by, NEW cmd \in Commands, Shows(d, w, how),
         cmd.type = "AddPeer", cmd.key \in HexKeys, Valid(w, by, cmd)
  PROVE  LET e == AddCommand(d, tx, cmd)
         IN Shows(e, Effect(w, by, cmd), how) /\ Kept(d, e)
<1> DEFINE e == AddCommand(d, tx, cmd)
           v == Effect(w, by, cmd)
           n == d.peer_count + 1
<1>1. cmd.key \in Keys /\ cmd.address \in Addresses /\ cmd.key \notin PeersOf(w)
  BY CommandTypes DEF Valid
<1>2. DOMAIN d = DbFields /\ w \in Worlds
  BY DEF Shows
<1>3. e = AddPeer(d, cmd)
  BY DEF AddCommand
<1>4. /\ DOMAIN e = DbFields
      /\ e.peer_count = n
      /\ e.peer_address = Append(d.peer_address, cmd.address)
      /\ e.peer_pub = Append(d.peer_pub, cmd.key)
      /\ e.undefined = d.undefined /\ e.domain_tx_count = d.domain_tx_count
      /\ e.account_roles = d.account_roles /\ e.account_grant = d.account_grant
      /\ e.domain_count = d.domain_count
  BY <1>2, <1>3 DEF AddPeer, DbFields
<1>5. /\ RolePart(e) = RolePart(d) /\ DomainPart(e) = DomainPart(d)
      /\ AccountPart(e) = AccountPart(d)
  BY <1>2, <1>3 DEF AddPeer, DbFields, RolePart, DomainPart, AccountPart
<1>6. TxPart(e) = TxPart(d) /\ BlockPart(e) = BlockPart(d)
  BY <1>2, <1>3 DEF AddPeer, DbFields, TxPart, BlockPart
<1>7. /\ v \in Worlds /\ v.peers = w.peers \cup {<<cmd.key, cmd.address>>}
      /\ v.roles = w.roles /\ v.domains = w.domains /\ v.accounts = w.accounts
      /\ v.has_role = w.has_role /\ v.granted = w.granted
  BY <1>1, <1>2 DEF Effect, Worlds
<1>8. /\ d.peer_count \in Nat
      /\ d.peer_pub \in Seq(Keys) /\ Len(d.peer_pub) = d.peer_count
      /\ d.peer_address \in Seq(Addresses) /\ Len(d.peer_address) = d.peer_count
  BY DEF Shows, PeersIn
<1> HIDE DEF e, v
<1>9. /\ e.peer_pub \in Seq(Keys) /\ Len(e.peer_pub) = n
      /\ \A p \in 1 .. d.peer_count : e.peer_pub[p] = d.peer_pub[p]
      /\ e.peer_pub[n] = cmd.key
  BY <1>1, <1>4, <1>8, AppendNew
<1>10. /\ e.peer_address \in Seq(Addresses) /\ Len(e.peer_address) = n
       /\ \A p \in 1 .. d.peer_count : e.peer_address[p] = d.peer_address[p]
       /\ e.peer_address[n] = cmd.address
  BY <1>1, <1>4, <1>8, AppendNew
<1>11. n \in Nat /\ n \in 1 .. n /\ 1 .. d.peer_count \subseteq 1 .. n
  BY <1>8
<1> HIDE DEF n
<1>12. PeersIn(e, v, how)
  <2>1. ASSUME NEW x \in v.peers
        PROVE  \E p \in 1 .. n : e.peer_pub[p] = x[1] /\ e.peer_address[p] = x[2]
    <3>1. CASE x \in w.peers
      <4>1. PICK p \in 1 .. d.peer_count : d.peer_pub[p] = x[1] /\ d.peer_address[p] = x[2]
        BY <3>1 DEF Shows, PeersIn
      <4>2. p \in 1 .. n
        BY <1>11
      <4> QED
        BY <1>9, <1>10, <4>1, <4>2
    <3>2. CASE x = <<cmd.key, cmd.address>>
      BY <1>9, <1>10, <1>11, <3>2
    <3> QED
      BY <1>7, <3>1, <3>2
  <2>2. ASSUME how = "exact"
        PROVE  /\ Injective(e.peer_pub)
               /\ \A p \in 1 .. n : <<e.peer_pub[p], e.peer_address[p]>> \in v.peers
    <3>1. /\ Injective(d.peer_pub)
          /\ \A p \in 1 .. d.peer_count : <<d.peer_pub[p], d.peer_address[p]>> \in w.peers
      BY <2>2 DEF Shows, PeersIn
    <3>2. \A p \in 1 .. d.peer_count : d.peer_pub[p] # cmd.key
      <4> TAKE p \in 1 .. d.peer_count
      <4> DEFINE x == <<d.peer_pub[p], d.peer_address[p]>>
      <4>1. d.peer_pub[p] \in PeersOf(w)
        <5>1. x \in w.peers /\ x[1] = d.peer_pub[p]
          BY <3>1
        <5> QED
          BY <5>1, Zenon DEF PeersOf
      <4> QED
        BY <1>1, <4>1
    <3>3. Injective(e.peer_pub)
      BY <1>1, <1>4, <1>8, <3>1, <3>2, AppendNew
    <3>4. \A p \in 1 .. n : p \in 1 .. d.peer_count \/ p = n
      BY <1>8 DEF n
    <3>5. ASSUME NEW p \in 1 .. n PROVE <<e.peer_pub[p], e.peer_address[p]>> \in v.peers
      <4>1. CASE p \in 1 .. d.peer_count
        BY <1>7, <1>9, <1>10, <3>1, <4>1
      <4>2. CASE p = n
        BY <1>7, <1>9, <1>10, <4>2
      <4> QED
        BY <3>4, <4>1, <4>2
    <3> QED
      BY <3>3, <3>5
  <2> QED
    BY <1>4, <1>9, <1>10, <1>11, <2>1, <2>2 DEF PeersIn
<1>13. RolesIn(e, v) /\ RolesGrown(d, e)
  BY <1>5, <1>7, RolesStay DEF Shows
<1>14. DomainsIn(e, v) /\ DomainsGrown(d, e)
  BY <1>5, <1>7, <1>13, DomainsStay DEF Shows
<1>15. AccountsIn(e, v) /\ AccountsGrown(d, e)
  BY <1>5, <1>7, AccountsStay DEF Shows
<1>16. HasRolesIn(e, v, how)
  BY <1>4, <1>7, <1>13, <1>15, HasRolesStay DEF Shows
<1>17. GrantedIn(e, v, how)
  BY <1>4, <1>7, <1>15, GrantedStay DEF Shows
<1>18. CountsIn(e)
  BY <1>4, <1>5, <1>6, <1>15, CountsStay DEF Shows, TxPart
<1>19. Shows(e, v, how)
  BY <1>4, <1>7, <1>12, <1>13, <1>14, <1>15, <1>16, <1>17, <1>18 DEF Shows
<1>20. Kept(d, e)
  BY <1>6, <1>13, <1>14, <1>15 DEF Kept, Grown
<1> QED
  BY <1>19, <1>20 DEF e, v

(* A command that takes something away leaves the index as it is. *)
LEMMA RemovalShows ==
  ASSUME NEW d, NEW w, NEW how, NEW tx, NEW by, NEW cmd \in Commands, Shows(d, w, how), Removal(cmd),
         how # "exact"
  PROVE  LET e == AddCommand(d, tx, cmd)
         IN Shows(e, Effect(w, by, cmd), how) /\ Kept(d, e)
<1> DEFINE v == Effect(w, by, cmd)
<1>1. w \in Worlds
  BY DEF Shows
<1>2. AddCommand(d, tx, cmd) = d
  BY DEF AddCommand, Removal
<1>3. /\ v.roles = w.roles /\ v.domains = w.domains /\ v.accounts = w.accounts
      /\ v.has_role \subseteq w.has_role /\ v.granted \subseteq w.granted
      /\ v.peers \subseteq w.peers
  BY <1>1 DEF Effect, Removal, Worlds
<1>4. v \in Worlds
  <2>1. CASE cmd.type = "DetachRole"
    BY <1>1, <2>1 DEF Effect, Worlds
  <2>2. CASE cmd.type = "RevokePermission"
    BY <1>1, <2>2 DEF Effect, Worlds
  <2>3. CASE cmd.type = "RemovePeer"
    BY <1>1, <2>3 DEF Effect, Worlds
  <2> QED
    BY <2>1, <2>2, <2>3 DEF Removal
<1> HIDE DEF v
<1>5. RolesIn(d, v) /\ RolesGrown(d, d)
  BY <1>3, RolesStay DEF Shows
<1>6. DomainsIn(d, v) /\ DomainsGrown(d, d)
  BY <1>3, <1>5, DomainsStay DEF Shows
<1>7. AccountsIn(d, v) /\ AccountsGrown(d, d)
  BY <1>3, AccountsStay DEF Shows
<1>8. HasRolesIn(d, v, how)
  BY <1>3, <1>5, <1>7, HasRolesStay DEF Shows
<1>9. GrantedIn(d, v, how) /\ PeersIn(d, v, how)
  BY <1>3, <1>7, GrantedStay, PeersStay DEF Shows
<1>10. Shows(d, v, how)
  BY <1>4, <1>5, <1>6, <1>7, <1>8, <1>9 DEF Shows
<1>11. Kept(d, d)
  BY <1>5, <1>6, <1>7 DEF Kept, Grown
<1> QED
  BY <1>2, <1>10, <1>11 DEF v

(* Each command that is valid keeps the index showing the world state. *)
LEMMA CommandShows ==
  ASSUME NEW d, NEW w, NEW how, NEW tx, NEW cmd \in Commands, Shows(d, w, how), Valid(w, tx.by, cmd),
         cmd.type = "AddPeer" => cmd.key \in HexKeys, how = "exact" => ~Removal(cmd)
  PROVE  /\ Shows(AddCommand(d, tx, cmd), Effect(w, tx.by, cmd), how)
         /\ Kept(d, AddCommand(d, tx, cmd))
<1>1. CASE cmd.type = "CreateRole"
  BY <1>1, CreateRoleShows
<1>2. CASE cmd.type = "CreateDomain"
  BY <1>2, CreateDomainShows
<1>3. CASE cmd.type = "CreateAccount"
  BY <1>3, CreateAccountShows
<1>4. CASE cmd.type = "AppendRole"
  BY <1>4, AppendRoleShows
<1>5. CASE cmd.type = "SetAccountQuorum"
  BY <1>5, SetAccountQuorumShows
<1>6. CASE cmd.type = "GrantPermission"
  BY <1>6, GrantPermissionShows
<1>7. CASE cmd.type = "AddPeer"
  BY <1>7, AddPeerShows
<1>8. CASE Removal(cmd)
  BY <1>8, RemovalShows
<1>9. \/ cmd.type = "CreateRole" \/ cmd.type = "CreateDomain" \/ cmd.type = "CreateAccount"
      \/ cmd.type = "AppendRole" \/ cmd.type = "SetAccountQuorum"
      \/ cmd.type = "GrantPermission" \/ cmd.type = "AddPeer" \/ Removal(cmd)
  BY CommandTypes DEF Removal
<1> QED
  BY <1>1, <1>2, <1>3, <1>4, <1>5, <1>6, <1>7, <1>8, <1>9

-----------------------------------------------------------------------------
(* Transactions.                                                           *)

TxHashes == [by : AccountIds \cup {NoCreator}, time : Nat, cmds : Seq(Commands)]

(* The keys shown as signatories of a transaction. *)
SignersOf(d, i) == {d.all_pub[p] : p \in ToSet(ListAt(d.tx_pubs, i))}

(* Each key is stored once, and each transaction refers to such keys. *)
PubsIn(d) ==
  /\ d.tx_count \in Nat
  /\ d.all_pub \in Seq(Keys) /\ Injective(d.all_pub)
  /\ d.tx_pubs \in Seq(Seq(Nat)) /\ Len(d.tx_pubs) <= d.tx_count
  /\ \A i \in 1 .. Len(d.tx_pubs) : \A k \in DOMAIN d.tx_pubs[i] :
       d.tx_pubs[i][k] \in 1 .. Len(d.all_pub)

(* Between two transactions the tables of transactions are as long as the  *)
(* counter; creators are accounts.                                         *)
TxsIn(d) ==
  /\ PubsIn(d)
  /\ d.tx_hash \in Seq(TxHashes) /\ Len(d.tx_hash) = d.tx_count
  /\ d.tx_time \in Seq(Nat) /\ Len(d.tx_time) = d.tx_count
  /\ d.tx_creator \in Seq(Nat) /\ Len(d.tx_creator) = d.tx_count
  /\ \A i \in 1 .. d.tx_count : d.tx_creator[i] \in 1 .. d.account_count

(* The index shows a transaction at a position. *)
TxShown(d, i, tx) ==
  /\ i \in 1 .. d.tx_count
  /\ d.tx_hash[i] = TxHash(tx) /\ d.tx_time[i] = tx.time
  /\ d.account_id[d.tx_creator[i]] = CreatorName(tx)
  /\ SignersOf(d, i) = ToSet(tx.signers)

(* What the index shows of the world state, and no more, is the same.      *)
SameShown(d, e) ==
  /\ DOMAIN e = DOMAIN d
  /\ RolePart(e) = RolePart(d) /\ DomainPart(e) = DomainPart(d)
  /\ AccountPart(e) = AccountPart(d) /\ PeerPart(e) = PeerPart(d)
  /\ e.account_roles = d.account_roles /\ e.account_grant = d.account_grant
  /\ e.undefined = d.undefined

(* Nor are the other tables, but for the signatories.                      *)
SameTxs(d, e) ==
  /\ BlockPart(e) = BlockPart(d)
  /\ e.tx_count = d.tx_count /\ e.tx_hash = d.tx_hash
  /\ e.tx_time = d.tx_time /\ e.tx_creator = d.tx_creator
  /\ e.domain_tx_count = d.domain_tx_count

(* Then it shows the same world state. *)
LEMMA SameAccounts ==
  ASSUME NEW d, NEW w, NEW how, NEW e, Shows(d, w, how), SameShown(d, e)
  PROVE  AccountsGrown(d, e)
BY AccountsStay DEF Shows, SameShown

LEMMA ShowsStays ==
  ASSUME NEW d, NEW w, NEW how, NEW e, Shows(d, w, how), SameShown(d, e), CountsIn(e)
  PROVE  Shows(e, w, how) /\ Grown(d, e)
<1>1. RolesIn(e, w) /\ RolesGrown(d, e)
  BY RolesStay DEF Shows, SameShown
<1>2. DomainsIn(e, w) /\ DomainsGrown(d, e)
  BY <1>1, DomainsStay DEF Shows, SameShown
<1>3. AccountsIn(e, w) /\ AccountsGrown(d, e)
  BY AccountsStay DEF Shows, SameShown
<1>4. HasRolesIn(e, w, how)
  BY <1>1, <1>3, HasRolesStay DEF Shows, SameShown
<1>5. GrantedIn(e, w, how) /\ PeersIn(e, w, how)
  BY <1>3, GrantedStay, PeersStay DEF Shows, SameShown
<1> QED
  BY <1>1, <1>2, <1>3, <1>4, <1>5 DEF Shows, SameShown, Grown

(* A signatory is added to the last transaction, and to all_pub if the key *)
(* is new.                                                                 *)
LEMMA AddSignerIs ==
  ASSUME NEW d, NEW key \in HexKeys, DOMAIN d = DbFields, PubsIn(d), d.tx_count > 0
  PROVE  LET e == AddSigner(d, key)
         IN /\ PubsIn(e) /\ SameShown(d, e) /\ SameTxs(d, e)
            /\ \A i \in 1 .. d.tx_count :
                 SignersOf(e, i) = IF i = d.tx_count THEN SignersOf(d, i) \cup {key}
                                                     ELSE SignersOf(d, i)
<1> DEFINE e == AddSigner(d, key)
           known == Find(d.all_pub, key)
           all == IF known = 0 THEN Append(d.all_pub, key) ELSE d.all_pub
           p == IF known = 0 THEN Len(all) ELSE known
           n == d.tx_count
           lists == d.tx_pubs
<1>1. /\ n \in Nat /\ n > 0 /\ n \in Nat \ {0}
      /\ d.all_pub \in Seq(Keys) /\ Len(d.all_pub) \in Nat /\ Injective(d.all_pub)
      /\ lists \in Seq(Seq(Nat)) /\ Len(lists) \in Nat /\ Len(lists) <= n
      /\ \A i \in 1 .. Len(lists) : lists[i] \in Seq(Nat)
      /\ \A i \in 1 .. Len(lists) : \A k \in DOMAIN lists[i] :
           lists[i][k] \in 1 .. Len(d.all_pub)
  BY DEF PubsIn
<1>2. /\ e = [d EXCEPT !.all_pub = all, !.tx_pubs = AddAt(@, n, p)]
      /\ key \in Keys
  BY ConstantsAssumption DEF AddSigner
<1>3. /\ known \in 0 .. Len(d.all_pub)
      /\ known # 0 => d.all_pub[known] = key
      /\ known = 0 => \A i \in 1 .. Len(d.all_pub) : d.all_pub[i] # key
  BY <1>1, FindIs
<1> HIDE DEF known
<1>4. /\ all \in Seq(Keys) /\ Injective(all) /\ Len(all) \in Nat
      /\ Len(d.all_pub) <= Len(all)
      /\ \A i \in 1 .. Len(d.all_pub) : i \in 1 .. Len(all) /\ all[i] = d.all_pub[i]
      /\ p \in 1 .. Len(all) /\ all[p] = key /\ p \in Nat
  <2>1. CASE known = 0
    <3> DEFINE s == Append(d.all_pub, key)
    <3>1. /\ s \in Seq(Keys) /\ Len(s) = Len(d.all_pub) + 1 /\ Injective(s)
          /\ \A i \in 1 .. Len(d.all_pub) : s[i] = d.all_pub[i]
          /\ s[Len(d.all_pub) + 1] = key
      BY <1>1, <1>2, <1>3, <2>1, AppendNew
    <3>2. all = s /\ p = Len(s)
      BY <2>1
    <3> HIDE DEF s, all, p
    <3>3. /\ Len(all) = Len(d.all_pub) + 1 /\ p = Len(d.all_pub) + 1
          /\ \A i \in 1 .. Len(d.all_pub) : all[i] = d.all_pub[i]
          /\ all[p] = key
      BY <3>1, <3>2
    <3>4. all \in Seq(Keys) /\ Injective(all)
      BY <3>1, <3>2
    <3> QED
      BY <1>1, <3>3, <3>4
  <2>2. CASE known # 0
    <3>1. all = d.all_pub /\ p = known
      BY <2>2
    <3> QED
      BY <1>1, <1>3, <2>2, <3>1
  <2> QED
    BY <2>1, <2>2
<1> HIDE DEF all, p
<1>5. /\ DOMAIN e = DbFields
      /\ e.all_pub = all /\ e.tx_pubs = AddAt(lists, n, p)
      /\ e.tx_count = d.tx_count /\ e.tx_hash = d.tx_hash
      /\ e.tx_time = d.tx_time /\ e.tx_creator = d.tx_creator
      /\ e.account_roles = d.account_roles /\ e.account_grant = d.account_grant
      /\ e.undefined = d.undefined /\ e.domain_tx_count = d.domain_tx_count
  BY <1>2 DEF DbFields
<1>6. /\ RolePart(e) = RolePart(d) /\ DomainPart(e) = DomainPart(d)
      /\ AccountPart(e) = AccountPart(d) /\ PeerPart(e) = PeerPart(d)
      /\ BlockPart(e) = BlockPart(d)
  BY <1>2 DEF DbFields, RolePart, DomainPart, AccountPart, PeerPart, BlockPart
<1> HIDE DEF e, lists, n
<1>7. e.tx_pubs \in Seq(Seq(Nat)) /\ WithAdded(e.tx_pubs, lists, n, p)
  BY <1>1, <1>4, <1>5, AddAtIs
<1> DEFINE new == e.tx_pubs
<1>8. /\ Len(new) = n
      /\ \A i \in 1 .. n : new[i] = IF i = n THEN <<p>> \o ListAt(lists, n)
                                             ELSE ListAt(lists, i)
  BY <1>1, <1>7 DEF WithAdded
<1>9. \A i \in 1 .. n : /\ ListAt(lists, i) \in Seq(Nat)
                        /\ ListAt(new, i) = new[i]
                        /\ \A k \in DOMAIN ListAt(lists, i) :
                             ListAt(lists, i)[k] \in 1 .. Len(d.all_pub)
  <2> TAKE i \in 1 .. n
  <2> HIDE DEF new
  <2>1. ListAt(new, i) = new[i]
    BY <1>1, <1>8 DEF ListAt
  <2>2. CASE i <= Len(lists)
    <3>1. ListAt(lists, i) = lists[i] /\ i \in 1 .. Len(lists)
      BY <1>1, <2>2 DEF ListAt
    <3> QED
      BY <1>1, <2>1, <3>1
  <2>3. CASE ~(i <= Len(lists))
    BY <2>1, <2>3 DEF ListAt
  <2> QED
    BY <2>2, <2>3
<1> HIDE DEF new
<1>10. ASSUME NEW i \in 1 .. n
       PROVE  /\ \A k \in DOMAIN new[i] : new[i][k] \in 1 .. Len(all)
              /\ ToSet(new[i]) = IF i = n THEN {p} \cup ToSet(ListAt(lists, i))
                                          ELSE ToSet(ListAt(lists, i))
  <2> DEFINE list == ListAt(lists, i)
  <2>1. list \in Seq(Nat) /\ \A k \in DOMAIN list : list[k] \in 1 .. Len(all)
    BY <1>4, <1>9
  <2>2. new[i] = IF i = n THEN <<p>> \o list ELSE list
    BY <1>8
  <2> HIDE DEF list
  <2>3. CASE i = n
    <3> DEFINE s == <<p>> \o list
    <3>1. /\ DOMAIN list = 1 .. Len(list) /\ Len(list) \in Nat
          /\ DOMAIN s = 1 .. Len(list) + 1 /\ s[1] = p
          /\ \A k \in 2 .. Len(list) + 1 : s[k] = list[k - 1]
      BY <1>4, <2>1
    <3>2. new[i] = s
      BY <2>2, <2>3
    <3> HIDE DEF s
    <3>3. \A k \in DOMAIN s : k = 1 \/ (k \in 2 .. Len(list) + 1 /\ k - 1 \in DOMAIN list)
      <4> HIDE DEF list
      <4>1. ASSUME NEW m \in Nat, NEW k \in 1 .. m + 1
            PROVE  k = 1 \/ (k \in 2 .. m + 1 /\ k - 1 \in 1 .. m)
        BY <4>1
      <4> QED
        BY <3>1, <4>1
    <3>4. \A k \in DOMAIN s : s[k] \in {p} \cup ToSet(list) /\ s[k] \in 1 .. Len(all)
      BY <1>4, <2>1, <3>1, <3>3 DEF ToSet
    <3>5. ASSUME NEW x \in {p} \cup ToSet(list) PROVE \E k \in DOMAIN s : s[k] = x
      <4>1. CASE x = p
        BY <3>1, <4>1
      <4>2. CASE x \in ToSet(list)
        <5>1. PICK k \in DOMAIN list : list[k] = x
          BY <4>2 DEF ToSet
        <5>2. k + 1 \in DOMAIN s /\ k + 1 \in 2 .. Len(list) + 1 /\ (k + 1) - 1 = k
          BY <3>1
        <5>3. s[k + 1] = x
          BY <3>1, <5>1, <5>2
        <5> QED
          BY <5>2, <5>3
      <4> QED
        BY <4>1, <4>2
    <3>6. ToSet(s) = {p} \cup ToSet(list)
      BY <3>4, <3>5 DEF ToSet
    <3> QED
      BY <2>3, <3>2, <3>4, <3>6 DEF list
  <2>4. CASE i # n
    BY <2>1, <2>2, <2>4 DEF list
  <2> QED
    BY <2>3, <2>4
<1>11. PubsIn(e)
  <2>1. Len(new) <= n /\ e.tx_count = n /\ e.tx_count \in Nat
    BY <1>1, <1>5, <1>8 DEF n
  <2>2. \A i \in 1 .. Len(new) : \A k \in DOMAIN new[i] : new[i][k] \in 1 .. Len(all)
    BY <1>8, <1>10
  <2>3. new = e.tx_pubs /\ e.all_pub = all
    BY <1>5 DEF new
  <2> QED
    BY <1>4, <1>7, <2>1, <2>2, <2>3 DEF PubsIn
<1>12. ASSUME NEW i \in 1 .. n
       PROVE  SignersOf(e, i) = IF i = n THEN SignersOf(d, i) \cup {key}
                                         ELSE SignersOf(d, i)
  <2> DEFINE list == ListAt(lists, i)
  <2>1. SignersOf(d, i) = {all[q] : q \in ToSet(list)}
    <3>1. \A q \in ToSet(list) : all[q] = d.all_pub[q]
      BY <1>4, <1>9 DEF ToSet
    <3> QED
      BY <3>1 DEF SignersOf, lists
  <2>2. SignersOf(e, i) = {all[q] : q \in ToSet(new[i])}
    BY <1>5, <1>9 DEF SignersOf, new
  <2> QED
    BY <1>4, <1>10, <2>1, <2>2
<1>13. SameShown(d, e) /\ SameTxs(d, e)
  BY <1>5, <1>6 DEF SameShown, SameTxs
<1> QED
  BY <1>5, <1>6, <1>11, <1>12, <1>13 DEF e, n

-----------------------------------------------------------------------------
(* The commands of a transaction.                                          *)

(* Every account is in a domain that there is. *)
Homes(w) == \A id \in AccountsOf(w) : DomainOf(id) \in DomainsOf(w)

(* No command removes an account or a domain. *)
LEMMA EffectKeeps ==
  ASSUME NEW w \in Worlds, NEW by, NEW cmd \in Commands, Valid(w, by, cmd)
  PROVE  /\ AccountsOf(w) \subseteq AccountsOf(Effect(w, by, cmd))
         /\ DomainsOf(w) \subseteq DomainsOf(Effect(w, by, cmd))
         /\ Homes(w) => Homes(Effect(w, by, cmd))
<1> DEFINE v == Effect(w, by, cmd)
<1>1. /\ w.accounts \subseteq AccountIds \X Nat
      /\ DOMAIN w = {"roles", "domains", "accounts", "has_role", "granted", "peers"}
  BY DEF Worlds
<1>2. CASE cmd.type = "CreateAccount"
  <2>1. v.accounts = w.accounts \cup {<<cmd.account, 1>>} /\ v.domains = w.domains
    BY <1>1, <1>2 DEF Effect
  <2> HIDE DEF v
  <2>2. DomainOf(cmd.account) \in DomainsOf(w)
    BY <1>2 DEF Valid
  <2>3. DomainsOf(v) = DomainsOf(w)
    BY <2>1 DEF DomainsOf
  <2>4. \A p : p \in v.accounts <=> (p \in w.accounts \/ p = <<cmd.account, 1>>)
    BY <2>1
  <2>5. ASSUME NEW id
        PROVE  id \in AccountsOf(v) <=> (id \in AccountsOf(w) \/ id = cmd.account)
    <3>1. cmd.account \in AccountsOf(v)
      <4>1. <<cmd.account, 1>> \in v.accounts /\ <<cmd.account, 1>>[1] = cmd.account
        BY <2>4
      <4> QED
        BY <4>1 DEF AccountsOf
    <3>2. id # cmd.account => (id \in AccountsOf(v) <=> id \in AccountsOf(w))
      BY <2>4 DEF AccountsOf
    <3> QED
      BY <3>1, <3>2
  <2> QED
    BY <2>2, <2>3, <2>5 DEF Homes, v
<1>3. CASE cmd.type = "CreateDomain"
  <2>1. v.domains = w.domains \cup {<<cmd.domain, cmd.role>>} /\ v.accounts = w.accounts
    BY <1>1, <1>3 DEF Effect
  <2>2. DomainsOf(w) \subseteq DomainsOf(v) /\ AccountsOf(v) = AccountsOf(w)
    BY <2>1 DEF DomainsOf, AccountsOf
  <2> QED
    BY <2>2 DEF Homes
<1>4. CASE cmd.type = "SetAccountQuorum"
  <2>1. /\ v.accounts = {p \in w.accounts : p[1] # cmd.account}
                          \cup {<<cmd.account, cmd.quorum>>}
        /\ v.domains = w.domains /\ cmd.account \in AccountsOf(w)
    BY <1>1, <1>4 DEF Effect, Valid
  <2> HIDE DEF v
  <2>2. ASSUME NEW id PROVE id \in AccountsOf(v) <=> id \in AccountsOf(w)
    <3>1. id = cmd.account => id \in AccountsOf(v)
      BY <2>1 DEF AccountsOf
    <3>2. id # cmd.account => (id \in AccountsOf(v) <=> id \in AccountsOf(w))
      BY <2>1 DEF AccountsOf
    <3> QED
      BY <2>1, <3>1, <3>2
  <2>3. DomainsOf(v) = DomainsOf(w) /\ AccountsOf(v) = AccountsOf(w)
    BY <2>1, <2>2 DEF DomainsOf
  <2> QED
    BY <2>3 DEF Homes, v
<1>5. CASE cmd.type \notin {"CreateAccount", "CreateDomain", "SetAccountQuorum"}
  <2>1. v.accounts = w.accounts /\ v.domains = w.domains
    BY <1>1, <1>5, CommandTypes DEF Effect
  <2> QED
    BY <2>1 DEF Homes, AccountsOf, DomainsOf
<1> QED
  BY <1>2, <1>3, <1>4, <1>5

(* One after the other. *)
LEMMA KeptTwice ==
  ASSUME NEW c, NEW d, NEW e, Kept(c, d), Kept(d, e)
  PROVE  Kept(c, e)
<1>1. RolesGrown(c, e)
  BY DEF Kept, Grown, RolesGrown
<1>2. DomainsGrown(c, e)
  BY DEF Kept, Grown, DomainsGrown
<1>3. AccountsGrown(c, e)
  BY DEF Kept, Grown, AccountsGrown
<1> QED
  BY <1>1, <1>2, <1>3 DEF Kept, Grown

(* An index keeps its own tables. *)
LEMMA KeptNone ==
  ASSUME NEW d, NEW w, NEW how, Shows(d, w, how)
  PROVE  Kept(d, d)
BY DEF Kept, Grown, RolesGrown, DomainsGrown, AccountsGrown,
       Shows, RolesIn, DomainsIn, AccountsIn

(* The peer executes commands of an account: each is valid after the ones  *)
(* before it.                                                              *)
Run(ws, w, by, cmds) ==
  /\ ws[0] = w
  /\ \A c \in 1 .. Len(cmds) : /\ Valid(ws[c - 1], by, cmds[c])
                               /\ ws[c] = Effect(ws[c - 1], by, cmds[c])

Executes(w, by, cmds, v) == \E ws : Run(ws, w, by, cmds) /\ v = ws[Len(cmds)]

(* The keys of peers can be read, and nothing is taken away again where the*)
(* index shows exactly what there is.                                      *)
Keeping(how, cmds) ==
  \A c \in DOMAIN cmds : /\ cmds[c].type = "AddPeer" => cmds[c].key \in HexKeys
                         /\ how = "exact" => ~Removal(cmds[c])

(* The commands of a transaction, one after the other: the index shows the *)
(* world state that their effects lead to.                                 *)
LEMMA CommandsShow ==
  ASSUME NEW d, NEW w, NEW how, NEW tx, NEW cmds \in Seq(Commands), NEW v, Shows(d, w, how),
         Executes(w, tx.by, cmds, v), Keeping(how, cmds)
  PROVE  LET f == AddCommands(d, tx, cmds)
         IN /\ Shows(f, v, how) /\ Kept(d, f)
            /\ AccountsOf(w) \subseteq AccountsOf(v) /\ (Homes(w) => Homes(v))
<1> DEFINE n == Len(cmds)
<1>1. n \in Nat /\ DOMAIN cmds = 1 .. n /\ \A i \in 1 .. n : cmds[i] \in Commands
  OBVIOUS
<1>2. PICK h : FoldRun(CommandsKind(tx), d, cmds, n, h) /\ AddCommands(d, tx, cmds) = h[n]
  BY <1>1, CommandsFold
<1>3. PICK ws : Run(ws, w, tx.by, cmds) /\ v = ws[n]
  BY DEF Executes
<1> HIDE DEF n
<1> DEFINE Good(i) == /\ Shows(h[i], ws[i], how) /\ Kept(d, h[i])
                      /\ AccountsOf(w) \subseteq AccountsOf(ws[i])
                      /\ Homes(w) => Homes(ws[i])
           T == {i \in Nat : i <= n => Good(i)}
<1>4. 0 \in T
  <2>1. ws[0] = w
    BY <1>3 DEF Run
  <2> QED
    BY <1>2, <2>1, KeptNone DEF FoldRun
<1>5. ASSUME NEW i \in Nat, i \in T PROVE i + 1 \in T
  <2> SUFFICES ASSUME i + 1 <= n PROVE Good(i + 1)
    OBVIOUS
  <2>1. Good(i) /\ i + 1 \in 1 .. n /\ (i + 1) - 1 = i
    BY <1>1, <1>5
  <2> DEFINE cmd == cmds[i + 1]
  <2>2. h[i + 1] = AddCommand(h[i], tx, cmd)
    BY <1>2, <2>1 DEF FoldRun, FoldStep, CommandsKind
  <2>3. Valid(ws[i], tx.by, cmd) /\ ws[i + 1] = Effect(ws[i], tx.by, cmd)
    BY <1>3, <2>1 DEF Run, n
  <2>4. /\ cmd \in Commands /\ ws[i] \in Worlds
        /\ cmd.type = "AddPeer" => cmd.key \in HexKeys
        /\ how = "exact" => ~Removal(cmd)
    BY <1>1, <2>1 DEF Shows, Keeping
  <2> HIDE DEF cmd
  <2>5. Shows(h[i + 1], ws[i + 1], how) /\ Kept(h[i], h[i + 1])
    BY <2>1, <2>2, <2>3, <2>4, CommandShows
  <2>6. /\ AccountsOf(ws[i]) \subseteq AccountsOf(ws[i + 1])
        /\ Homes(ws[i]) => Homes(ws[i + 1])
    BY <2>3, <2>4, EffectKeeps
  <2> QED
    BY <2>1, <2>5, <2>6, KeptTwice
<1>6. Good(n)
  <2> HIDE DEF T
  <2>1. n \in T
    BY <1>1, <1>4, <1>5, SetInduction
  <2> QED
    BY <1>1, <2>1 DEF T
<1> QED
  BY <1>2, <1>3, <1>6, Zenon
-----------------------------------------------------------------------------
(* A transaction.                                                          *)

(* AddTx stores the signatories one by one: each key once, and the         *)
(* transaction refers to all of them.                                      *)
LEMMA SignersShow ==
  ASSUME NEW d, NEW keys \in Seq(HexKeys), DOMAIN d = DbFields, PubsIn(d), d.tx_count > 0
  PROVE  LET e == FoldLeft(AddSigner, d, keys)
         IN /\ PubsIn(e) /\ SameShown(d, e) /\ SameTxs(d, e)
            /\ \A i \in 1 .. d.tx_count :
                 SignersOf(e, i) = IF i = d.tx_count THEN SignersOf(d, i) \cup ToSet(keys)
                                                     ELSE SignersOf(d, i)
<1> DEFINE n == Len(keys)
<1>1. n \in Nat /\ DOMAIN keys = 1 .. n /\ \A c \in 1 .. n : keys[c] \in HexKeys
  OBVIOUS
<1>2. PICK h : FoldRun(<<"signers">>, d, keys, n, h) /\ FoldLeft(AddSigner, d, keys) = h[n]
  BY <1>1, SignersFold
<1> HIDE DEF n
<1> DEFINE First(c) == {keys[k] : k \in 1 .. c}
           Signed(e, S) ==
             \A i \in 1 .. d.tx_count :
               SignersOf(e, i) = IF i = d.tx_count THEN SignersOf(d, i) \cup S
                                                   ELSE SignersOf(d, i)
           Good(c) == /\ PubsIn(h[c]) /\ SameShown(d, h[c]) /\ SameTxs(d, h[c])
                      /\ Signed(h[c], First(c))
           T == {c \in Nat : c <= n => Good(c)}
<1>3. 0 \in T
  <2>1. h[0] = d /\ First(0) = {}
    BY <1>2 DEF FoldRun
  <2>2. SameShown(d, d) /\ SameTxs(d, d)
    BY DEF SameShown, SameTxs
  <2>3. Good(0)
    BY <2>1, <2>2
  <2> HIDE DEF Good
  <2> QED
    BY <2>3
<1> HIDE DEF Good
<1>4. ASSUME NEW c \in Nat, c \in T PROVE c + 1 \in T
  <2> SUFFICES ASSUME c + 1 <= n PROVE Good(c + 1)
    OBVIOUS
  <2>1. Good(c) /\ c + 1 \in 1 .. n /\ (c + 1) - 1 = c
    BY <1>1, <1>4
  <2> DEFINE f == h[c]
             e == h[c + 1]
             key == keys[c + 1]
  <2> USE DEF Good
  <2>2. e = AddSigner(f, key) /\ key \in HexKeys
    BY <1>1, <1>2, <2>1 DEF FoldRun, FoldStep
  <2>3. First(c + 1) = First(c) \cup {key}
    <3>1. \A k \in 1 .. c + 1 : k \in 1 .. c \/ k = c + 1
      OBVIOUS
    <3>2. \A k \in 1 .. c : k \in 1 .. c + 1
      OBVIOUS
    <3>3. c + 1 \in 1 .. c + 1
      OBVIOUS
    <3> QED
      BY <3>1, <3>2, <3>3
  <2> HIDE DEF First
  <2>4. DOMAIN f = DbFields /\ PubsIn(f) /\ f.tx_count = d.tx_count
    BY <2>1 DEF SameShown, SameTxs
  <2> HIDE DEF f, e, key
  <2>5. /\ PubsIn(e) /\ SameShown(f, e) /\ SameTxs(f, e)
        /\ \A i \in 1 .. f.tx_count :
             SignersOf(e, i) = IF i = f.tx_count THEN SignersOf(f, i) \cup {key}
                                                 ELSE SignersOf(f, i)
    BY <2>2, <2>4, AddSignerIs
  <2>6. SameShown(d, e) /\ SameTxs(d, e)
    BY <2>1, <2>5 DEF SameShown, SameTxs, f
  <2>7. Signed(e, First(c) \cup {key})
    BY <2>1, <2>4, <2>5 DEF f
  <2> QED
    BY <2>3, <2>5, <2>6, <2>7 DEF e
<1>5. Good(n)
  <2> HIDE DEF T
  <2>1. n \in T
    BY <1>1, <1>3, <1>4, SetInduction
  <2> QED
    BY <1>1, <2>1 DEF T
<1>6. First(n) = ToSet(keys)
  BY <1>1 DEF ToSet
<1> QED
  BY <1>2, <1>5, <1>6 DEF Good

(* The stubs of a first block without a creator are first in their tables. *)
HasStub(d) ==
  /\ 1 \in 1 .. d.account_count /\ d.account_id[1] = Genesis
  /\ 1 \in 1 .. d.domain_count /\ d.domain_id[1] = Genesis
  /\ 1 \in 1 .. d.role_count /\ d.role_name[1] = Genesis

(* Other first blocks have none. *)
NoStub(d) ==
  /\ \A a \in 1 .. d.account_count : d.account_id[a] # Genesis
  /\ \A i \in 1 .. d.domain_count : d.domain_id[i] # Genesis
  /\ \A r \in 1 .. d.role_count : d.role_name[r] # Genesis

(* The stub stays where it is. *)
LEMMA StubKept ==
  ASSUME NEW d, NEW e, HasStub(d), Grown(d, e)
  PROVE  HasStub(e)
BY DEF HasStub, Grown, AccountsGrown, DomainsGrown, RolesGrown

LEMMA NoStubKept ==
  ASSUME NEW d, NEW e, NoStub(d), Grown(d, e)
  PROVE  NoStub(e)
<1>1. \A a \in 1 .. e.account_count : e.account_id[a] # Genesis
  BY DEF NoStub, Grown, AccountsGrown
<1>2. \A i \in 1 .. e.domain_count : e.domain_id[i] # Genesis
  BY DEF NoStub, Grown, DomainsGrown
<1>3. \A r \in 1 .. e.role_count : e.role_name[r] # Genesis
  BY DEF NoStub, Grown, RolesGrown
<1> QED
  BY <1>1, <1>2, <1>3 DEF NoStub

(* The creator and its domain are found after the commands. *)
LEMMA CreatorFound ==
  ASSUME NEW d, NEW w, NEW how, NEW tx, Shows(d, w, how), Homes(w),
         tx.by \in AccountsOf(w) \cup {NoCreator}, tx.by = NoCreator => HasStub(d)
  PROVE  /\ TxCreator(d, tx) \in 1 .. d.account_count
         /\ d.account_id[TxCreator(d, tx)] = CreatorName(tx)
         /\ TxCreatorDomain(d, tx) \in 1 .. d.domain_count
         /\ d.domain_id[TxCreatorDomain(d, tx)] = DomainName(tx)
<1>1. CASE tx.by = NoCreator
  BY <1>1 DEF HasStub, TxCreator, TxCreatorDomain, CreatorName, DomainName
<1>2. CASE tx.by # NoCreator
  <2>1. tx.by \in AccountsOf(w) /\ DomainOf(tx.by) \in DomainsOf(w)
    BY <1>2 DEF Homes
  <2>2. /\ Find(d.account_id, tx.by) \in 1 .. d.account_count
        /\ d.account_id[Find(d.account_id, tx.by)] = tx.by
        /\ Find(d.domain_id, DomainOf(tx.by)) \in 1 .. d.domain_count
        /\ d.domain_id[Find(d.domain_id, DomainOf(tx.by))] = DomainOf(tx.by)
    BY <2>1, Lookups
  <2> QED
    BY <1>2, <2>2 DEF TxCreator, TxCreatorDomain, CreatorName, DomainName
<1> QED
  BY <1>1, <1>2

(* A transaction begins: it has its own entries, and no signatories yet. *)
Begun(d, e, tx) ==
  /\ Grown(d, e) /\ PubsIn(e) /\ BlockPart(e) = BlockPart(d)
  /\ DOMAIN e = DbFields /\ SameShown(d, e)
  /\ e.tx_count = d.tx_count + 1 /\ e.tx_count > 0
  /\ e.tx_hash = Append(d.tx_hash, TxHash(tx))
  /\ e.tx_time = Append(d.tx_time, tx.time)
  /\ e.tx_creator = d.tx_creator /\ e.domain_tx_count = d.domain_tx_count
  /\ SignersOf(e, e.tx_count) = {}
  /\ \A i \in 1 .. d.tx_count : SignersOf(e, i) = SignersOf(d, i)

LEMMA BeginTxShows ==
  ASSUME NEW d, NEW w, NEW how, NEW tx \in Txs, Shows(d, w, how), TxsIn(d)
  PROVE  Shows(BeginTx(d, tx), w, how) /\ Begun(d, BeginTx(d, tx), tx)
<1> DEFINE e == BeginTx(d, tx)
<1>1. DOMAIN d = DbFields /\ CountsIn(d)
  BY DEF Shows
<1>2. /\ DOMAIN e = DbFields
      /\ e.tx_count = d.tx_count + 1
      /\ e.tx_hash = Append(d.tx_hash, TxHash(tx))
      /\ e.tx_time = Append(d.tx_time, tx.time)
      /\ e.tx_creator = d.tx_creator /\ e.domain_tx_count = d.domain_tx_count
      /\ e.tx_pubs = d.tx_pubs /\ e.all_pub = d.all_pub
      /\ e.account_roles = d.account_roles /\ e.account_grant = d.account_grant
      /\ e.undefined = d.undefined /\ e.domain_count = d.domain_count
  BY <1>1 DEF BeginTx, DbFields
<1>3. /\ RolePart(e) = RolePart(d) /\ DomainPart(e) = DomainPart(d)
      /\ AccountPart(e) = AccountPart(d) /\ PeerPart(e) = PeerPart(d)
      /\ BlockPart(e) = BlockPart(d)
  BY <1>1 DEF BeginTx, DbFields, RolePart, DomainPart, AccountPart, PeerPart, BlockPart
<1> HIDE DEF e
<1>4. CountsIn(e) /\ SameShown(d, e)
  <2>1. SameShown(d, e)
    BY <1>1, <1>2, <1>3 DEF SameShown
  <2>2. AccountsGrown(d, e)
    BY <2>1, SameAccounts
  <2> QED
    BY <1>1, <1>2, <1>3, <2>1, <2>2, CountsStay
<1>5. Shows(e, w, how) /\ Grown(d, e)
  BY <1>4, ShowsStays
<1>6. /\ d.tx_count \in Nat /\ Len(d.tx_pubs) \in Nat /\ Len(d.tx_pubs) <= d.tx_count
  BY DEF TxsIn, PubsIn
<1>7. PubsIn(e)
  <2>1. e.tx_count \in Nat /\ Len(e.tx_pubs) <= e.tx_count
    BY <1>2, <1>6
  <2> QED
    BY <1>2, <2>1 DEF TxsIn, PubsIn, Injective
<1>8. SignersOf(e, e.tx_count) = {}
  <2>1. ListAt(e.tx_pubs, e.tx_count) = <<>>
    BY <1>2, <1>6 DEF ListAt
  <2>2. ToSet(<<>>) = {}
    BY DEF ToSet
  <2> QED
    BY <2>1, <2>2 DEF SignersOf
<1>9. \A i \in 1 .. d.tx_count : SignersOf(e, i) = SignersOf(d, i)
  BY <1>2 DEF SignersOf
<1> QED
  BY <1>2, <1>3, <1>4, <1>5, <1>6, <1>7, <1>8, <1>9 DEF e, Begun

(* A transaction is counted for the domain of its creator. *)
LEMMA CountsMore ==
  ASSUME NEW d, NEW e, CountsIn(d), d.domain_count \in Nat, d.account_count \in Nat,
         DOMAIN d.domain_id = 1 .. d.domain_count, Injective(d.domain_id),
         NEW account \in 1 .. d.account_count, NEW domain \in 1 .. d.domain_count,
         d.domain_id[domain] = HomeName(d.account_id[account]),
         DomainPart(e) = DomainPart(d), AccountPart(e) = AccountPart(d),
         e.tx_creator = Append(d.tx_creator, account),
         e.domain_tx_count = [d.domain_tx_count EXCEPT ![domain] = @ + 1]
  PROVE  CountsIn(e)
<1> DEFINE counts == d.domain_tx_count
           more == [counts EXCEPT ![domain] = @ + 1]
           n == Len(d.tx_creator)
<1>1. /\ counts \in Seq(Nat) /\ Len(counts) = d.domain_count /\ domain \in DOMAIN counts
      /\ d.tx_creator \in Seq(Nat) /\ n \in Nat /\ account \in Nat
  BY DEF CountsIn
<1>2. \A h \in 1 .. d.domain_count : counts[h] \in Nat
  BY <1>1
<1>3. /\ e.domain_count = d.domain_count /\ e.domain_id = d.domain_id
      /\ e.account_count = d.account_count /\ e.account_id = d.account_id
  BY DEF DomainPart, AccountPart
<1>4. /\ e.tx_creator \in Seq(Nat) /\ Len(e.tx_creator) = n + 1
      /\ \A i \in 1 .. n : e.tx_creator[i] = d.tx_creator[i]
      /\ e.tx_creator[n + 1] = account
  BY <1>1
<1> HIDE DEF counts
<1>5. /\ more \in Seq(Nat) /\ Len(more) = Len(counts)
      /\ \A h \in 1 .. d.domain_count :
           more[h] = IF h = domain THEN counts[h] + 1 ELSE counts[h]
  BY <1>1, <1>2
<1>6. e.domain_tx_count = more
  BY DEF counts
<1> HIDE DEF more, n
<1>7. \A i \in 1 .. n + 1 : i \in 1 .. n \/ i = n + 1
  BY <1>1
<1>8. n + 1 \in 1 .. n + 1 /\ n + 1 \notin 1 .. n /\ 1 .. n \subseteq 1 .. n + 1
  BY <1>1
<1>9. ASSUME NEW name
      PROVE  OwnedBy(e, name) = IF name = d.domain_id[domain]
                                THEN OwnedBy(d, name) \cup {n + 1}
                                ELSE OwnedBy(d, name)
  <2>1. OwnedBy(d, name) = {i \in 1 .. n : HomeName(d.account_id[d.tx_creator[i]]) = name}
    BY DEF OwnedBy, n
  <2>2. OwnedBy(e, name) =
          {i \in 1 .. n + 1 : HomeName(d.account_id[e.tx_creator[i]]) = name}
    BY <1>3, <1>4 DEF OwnedBy
  <2> QED
    BY <1>4, <1>7, <1>8, <2>1, <2>2
<1>10. ASSUME NEW h \in 1 .. d.domain_count
       PROVE  more[h] = Cardinality(OwnedBy(e, d.domain_id[h]))
  <2> DEFINE S == OwnedBy(d, d.domain_id[h])
  <2>1. counts[h] = Cardinality(S)
    BY DEF CountsIn, counts
  <2>2. IsFiniteSet(S) /\ n + 1 \notin S
    <3>1. S \subseteq 1 .. n
      BY DEF OwnedBy, n
    <3>2. IsFiniteSet(1 .. n)
      BY <1>1, FS_Interval
    <3> QED
      BY <1>8, <3>1, <3>2, FS_Subset
  <2> HIDE DEF S
  <2>3. Cardinality(S \cup {n + 1}) =
          IF n + 1 \in S THEN Cardinality(S) ELSE Cardinality(S) + 1
    BY <2>2, FS_AddElement
  <2>4. CASE h = domain
    <3>1. OwnedBy(e, d.domain_id[h]) = S \cup {n + 1}
      BY <1>9, <2>4 DEF S
    <3> QED
      BY <1>5, <2>1, <2>2, <2>3, <2>4, <3>1
  <2>5. CASE h # domain
    <3>1. d.domain_id[h] # d.domain_id[domain]
      BY <2>5 DEF Injective
    <3>2. OwnedBy(e, d.domain_id[h]) = S
      BY <1>9, <3>1 DEF S
    <3> QED
      BY <1>5, <2>1, <2>5, <3>2
  <2> QED
    BY <2>4, <2>5
<1>11. ASSUME NEW i \in 1 .. n + 1
       PROVE  /\ e.tx_creator[i] \in 1 .. d.account_count
              /\ \E h \in 1 .. d.domain_count :
                   d.domain_id[h] = HomeName(d.account_id[e.tx_creator[i]])
  <2>1. CASE i \in 1 .. n
    BY <1>4, <2>1 DEF CountsIn, n
  <2>2. CASE i = n + 1
    BY <1>4, <2>2
  <2> QED
    BY <1>7, <2>1, <2>2
<1>12. /\ e.domain_tx_count \in Seq(Nat) /\ Len(e.domain_tx_count) = e.domain_count
       /\ e.tx_creator \in Seq(Nat)
  BY <1>1, <1>3, <1>4, <1>5, <1>6
<1>13. ASSUME NEW h \in 1 .. e.domain_count
       PROVE  e.domain_tx_count[h] = Cardinality(OwnedBy(e, e.domain_id[h]))
  BY <1>3, <1>6, <1>10
<1>14. ASSUME NEW i \in 1 .. Len(e.tx_creator)
       PROVE  /\ e.tx_creator[i] \in 1 .. e.account_count
              /\ \E h \in 1 .. e.domain_count :
                   e.domain_id[h] = HomeName(e.account_id[e.tx_creator[i]])
  BY <1>3, <1>4, <1>11
<1> QED
  BY <1>12, <1>13, <1>14 DEF CountsIn

(* A transaction ends. *)
LEMMA EndTxShows ==
  ASSUME NEW d, NEW w, NEW how, NEW tx, Shows(d, w, how), Homes(w),
         tx.by \in AccountsOf(w) \cup {NoCreator}, tx.by = NoCreator => HasStub(d)
  PROVE  LET e == EndTx(d, tx)
         IN /\ Shows(e, w, how) /\ Grown(d, e) /\ BlockPart(e) = BlockPart(d)
            /\ e.tx_count = d.tx_count /\ e.tx_hash = d.tx_hash
            /\ e.tx_time = d.tx_time /\ e.tx_pubs = d.tx_pubs /\ e.all_pub = d.all_pub
            /\ e.tx_creator = Append(d.tx_creator, TxCreator(d, tx))
            /\ e.account_id = d.account_id /\ e.account_count = d.account_count
<1> DEFINE e == EndTx(d, tx)
           account == TxCreator(d, tx)
           domain == TxCreatorDomain(d, tx)
<1>1. DOMAIN d = DbFields /\ CountsIn(d) /\ d.account_count \in Nat /\ d.domain_count \in Nat
  BY DEF Shows, AccountsIn, DomainsIn
<1>2. account \in 1 .. d.account_count /\ domain \in 1 .. d.domain_count
  BY CreatorFound
<1>3. e = [d EXCEPT !.tx_creator = Append(@, account), !.domain_tx_count[domain] = @ + 1]
  BY <1>1, <1>2 DEF EndTx
<1> HIDE DEF account, domain
<1>4. /\ DOMAIN e = DbFields
      /\ e.tx_count = d.tx_count /\ e.tx_hash = d.tx_hash
      /\ e.tx_time = d.tx_time /\ e.tx_pubs = d.tx_pubs /\ e.all_pub = d.all_pub
      /\ e.tx_creator = Append(d.tx_creator, account)
      /\ e.domain_tx_count = [d.domain_tx_count EXCEPT ![domain] = @ + 1]
      /\ e.account_roles = d.account_roles /\ e.account_grant = d.account_grant
      /\ e.undefined = d.undefined /\ e.domain_count = d.domain_count
      /\ e.account_id = d.account_id /\ e.account_count = d.account_count
  BY <1>1, <1>3 DEF DbFields
<1>5. /\ RolePart(e) = RolePart(d) /\ DomainPart(e) = DomainPart(d)
      /\ AccountPart(e) = AccountPart(d) /\ PeerPart(e) = PeerPart(d)
      /\ BlockPart(e) = BlockPart(d)
  BY <1>1, <1>3 DEF DbFields, RolePart, DomainPart, AccountPart, PeerPart, BlockPart
<1> HIDE DEF e
<1>6. SameShown(d, e)
  BY <1>1, <1>4, <1>5 DEF SameShown
<1>7. CountsIn(e)
  <2>1. DOMAIN d.domain_id = 1 .. d.domain_count /\ Injective(d.domain_id)
    BY DEF Shows, DomainsIn
  <2>2. HomeName(CreatorName(tx)) = DomainName(tx)
    <3>1. tx.by # NoCreator => tx.by \in AccountIds
      BY WorldNames DEF Shows
    <3>2. Genesis \notin AccountIds
      BY ConstantsAssumption DEF ConstantsAssumption
    <3> QED
      BY <3>1, <3>2 DEF HomeName, CreatorName, DomainName
  <2>3. d.account_id[account] = CreatorName(tx) /\ d.domain_id[domain] = DomainName(tx)
    BY CreatorFound DEF account, domain
  <2>4. d.domain_id[domain] = HomeName(d.account_id[account])
    BY <2>2, <2>3
  <2> QED
    BY <1>1, <1>2, <1>4, <1>5, <2>1, <2>4, CountsMore
<1>8. Shows(e, w, how) /\ Grown(d, e)
  BY <1>6, <1>7, ShowsStays
<1> QED
  BY <1>4, <1>5, <1>8 DEF e, account

(* Growing twice is growing. *)
LEMMA GrownTwice ==
  ASSUME NEW c, NEW d, NEW e, Grown(c, d), Grown(d, e)
  PROVE  Grown(c, e)
<1>1. RolesGrown(c, e)
  BY DEF Grown, RolesGrown
<1>2. DomainsGrown(c, e)
  BY DEF Grown, DomainsGrown
<1>3. AccountsGrown(c, e)
  BY DEF Grown, AccountsGrown
<1> QED
  BY <1>1, <1>2, <1>3 DEF Grown

(* The index shows one more transaction, and the ones before as they were. *)
MoreTxs(d, e) ==
  /\ e.tx_count \in Nat /\ d.tx_count \in Nat /\ d.tx_count <= e.tx_count
  /\ \A i \in 1 .. d.tx_count : \A t : TxShown(d, i, t) => TxShown(e, i, t)

TxAdded(d, e, v, tx, how) ==
  /\ Shows(e, v, how) /\ Homes(v) /\ TxsIn(e) /\ Grown(d, e)
  /\ BlockPart(e) = BlockPart(d)
  /\ e.tx_count = d.tx_count + 1 /\ TxShown(e, e.tx_count, tx)
  /\ MoreTxs(d, e)

KeepingTx(how, tx) == ToSet(tx.signers) \subseteq HexKeys /\ Keeping(how, tx.cmds)

(* AddTx adds a transaction that the peer can execute. *)
LEMMA AddTxShows ==
  ASSUME NEW d, NEW w, NEW how, NEW v, NEW tx \in Txs, Shows(d, w, how), TxsIn(d), Homes(w),
         Executes(w, tx.by, tx.cmds, v), tx.by \in AccountsOf(v) \cup {NoCreator},
         tx.by = NoCreator => HasStub(d), KeepingTx(how, tx)
  PROVE  TxAdded(d, AddTx(d, tx), v, tx, how)
<1> DEFINE b == BeginTx(d, tx)
           s == FoldLeft(AddSigner, b, tx.signers)
           x == AddCommands(s, tx, tx.cmds)
           e == EndTx(x, tx)
           n == d.tx_count + 1
<1>1. /\ tx.signers \in Seq(HexKeys) /\ tx.cmds \in Seq(Commands) /\ tx.time \in Nat
      /\ TxHash(tx) \in TxHashes /\ Keeping(how, tx.cmds)
  <2>1. /\ tx.signers \in Seq(Keys) /\ tx.cmds \in Seq(Commands) /\ tx.time \in Nat
        /\ TxHash(tx) \in TxHashes
    BY DEF Txs, TxHash, TxHashes
  <2>2. \A i \in 1 .. Len(tx.signers) : tx.signers[i] \in HexKeys
    BY <2>1 DEF KeepingTx, ToSet
  <2>3. tx.signers \in Seq(HexKeys)
    BY <2>1, <2>2
  <2> QED
    BY <2>1, <2>3 DEF KeepingTx
<1>2. e = AddTx(d, tx)
  BY Zenon DEF AddTx, AddCommands
<1>3. /\ d.tx_count \in Nat
      /\ d.tx_hash \in Seq(TxHashes) /\ Len(d.tx_hash) = d.tx_count
      /\ d.tx_time \in Seq(Nat) /\ Len(d.tx_time) = d.tx_count
      /\ d.tx_creator \in Seq(Nat) /\ Len(d.tx_creator) = d.tx_count
      /\ \A i \in 1 .. d.tx_count : d.tx_creator[i] \in 1 .. d.account_count
  BY DEF TxsIn, PubsIn
<1>4. /\ Shows(b, w, how) /\ Grown(d, b) /\ PubsIn(b) /\ BlockPart(b) = BlockPart(d)
      /\ DOMAIN b = DbFields /\ b.tx_count = n /\ b.tx_count > 0
      /\ b.tx_hash = Append(d.tx_hash, TxHash(tx))
      /\ b.tx_time = Append(d.tx_time, tx.time)
      /\ b.tx_creator = d.tx_creator
      /\ SignersOf(b, b.tx_count) = {}
      /\ \A i \in 1 .. d.tx_count : SignersOf(b, i) = SignersOf(d, i)
  <2>1. Shows(b, w, how) /\ Begun(d, b, tx)
    BY BeginTxShows
  <2> HIDE DEF b
  <2> QED
    BY <2>1 DEF Begun
<1> HIDE DEF b
<1>5. /\ PubsIn(s) /\ SameShown(b, s) /\ SameTxs(b, s)
      /\ \A i \in 1 .. b.tx_count :
           SignersOf(s, i) = IF i = b.tx_count THEN SignersOf(b, i) \cup ToSet(tx.signers)
                                               ELSE SignersOf(b, i)
  BY <1>1, <1>4, SignersShow
<1> HIDE DEF s
<1>6. CountsIn(s)
  <2>1. AccountsGrown(b, s)
    BY <1>4, <1>5, SameAccounts
  <2> QED
    BY <1>4, <1>5, <2>1, CountsStay DEF Shows, SameTxs, SameShown
<1>7. Shows(s, w, how) /\ Grown(b, s)
  BY <1>4, <1>5, <1>6, ShowsStays
<1>8. Shows(x, v, how) /\ Kept(s, x) /\ Homes(v)
  BY <1>1, <1>7, CommandsShow
<1> HIDE DEF x
<1>9. Grown(d, s) /\ Grown(d, x)
  BY <1>4, <1>7, <1>8, GrownTwice DEF Kept
<1>10. tx.by = NoCreator => HasStub(x)
  BY <1>9, StubKept
<1>11. /\ Shows(e, v, how) /\ Grown(x, e) /\ BlockPart(e) = BlockPart(x)
       /\ e.tx_count = x.tx_count /\ e.tx_hash = x.tx_hash
       /\ e.tx_time = x.tx_time /\ e.tx_pubs = x.tx_pubs /\ e.all_pub = x.all_pub
       /\ e.tx_creator = Append(x.tx_creator, TxCreator(x, tx))
       /\ e.account_id = x.account_id /\ e.account_count = x.account_count
  BY <1>8, <1>10, EndTxShows
<1> DEFINE creator == TxCreator(x, tx)
<1>12. creator \in 1 .. x.account_count /\ x.account_id[creator] = CreatorName(tx)
  BY <1>8, <1>10, CreatorFound
<1> HIDE DEF e, creator
<1>13. Grown(d, e) /\ BlockPart(e) = BlockPart(d)
  BY <1>4, <1>5, <1>8, <1>9, <1>11, GrownTwice DEF Kept, SameTxs
<1>14. /\ x.tx_count = n /\ x.tx_hash = b.tx_hash /\ x.tx_time = b.tx_time
       /\ x.tx_creator = d.tx_creator /\ x.tx_pubs = s.tx_pubs /\ x.all_pub = s.all_pub
  BY <1>4, <1>5, <1>8 DEF Kept, TxPart, SameTxs
<1>15. /\ e.tx_count = n /\ e.tx_hash = Append(d.tx_hash, TxHash(tx))
       /\ e.tx_time = Append(d.tx_time, tx.time)
       /\ e.tx_creator = Append(d.tx_creator, creator)
       /\ e.tx_pubs = s.tx_pubs /\ e.all_pub = s.all_pub
       /\ creator \in 1 .. e.account_count /\ e.account_id[creator] = CreatorName(tx)
  BY <1>4, <1>11, <1>12, <1>14 DEF creator
<1>16. \A i : SignersOf(e, i) = SignersOf(s, i)
  BY <1>15 DEF SignersOf
<1>17. /\ SignersOf(e, n) = ToSet(tx.signers)
       /\ \A i \in 1 .. d.tx_count : SignersOf(e, i) = SignersOf(d, i)
  <2>1. n \in 1 .. n /\ b.tx_count = n
    BY <1>3, <1>4
  <2>2. \A i \in 1 .. d.tx_count : i \in 1 .. n /\ i # n
    BY <1>3
  <2> HIDE DEF n
  <2> QED
    BY <1>4, <1>5, <1>16, <2>1, <2>2
<1>18. /\ e.tx_hash \in Seq(TxHashes) /\ Len(e.tx_hash) = n /\ e.tx_hash[n] = TxHash(tx)
       /\ \A i \in 1 .. d.tx_count : e.tx_hash[i] = d.tx_hash[i]
  BY <1>1, <1>3, <1>15
<1>19. /\ e.tx_time \in Seq(Nat) /\ Len(e.tx_time) = n /\ e.tx_time[n] = tx.time
       /\ \A i \in 1 .. d.tx_count : e.tx_time[i] = d.tx_time[i]
  BY <1>1, <1>3, <1>15
<1>20. /\ e.account_count \in Nat /\ d.account_count <= e.account_count
       /\ d.account_count \in Nat
       /\ \A a \in 1 .. d.account_count : e.account_id[a] = d.account_id[a]
  BY <1>13 DEF Grown, AccountsGrown
<1>21. /\ e.tx_creator \in Seq(Nat) /\ Len(e.tx_creator) = n /\ e.tx_creator[n] = creator
       /\ \A i \in 1 .. d.tx_count : e.tx_creator[i] = d.tx_creator[i]
  BY <1>3, <1>15, <1>20
<1>22. \A i \in 1 .. n : e.tx_creator[i] \in 1 .. e.account_count
  <2>1. \A i \in 1 .. n : i \in 1 .. d.tx_count \/ i = n
    BY <1>3
  <2>2. ASSUME NEW i \in 1 .. d.tx_count PROVE e.tx_creator[i] \in 1 .. e.account_count
    <3> DEFINE c == d.tx_creator[i]
    <3>1. e.tx_creator[i] = c /\ c \in 1 .. d.account_count
      BY <1>3, <1>21
    <3> HIDE DEF c
    <3> QED
      BY <1>20, <3>1
  <2> HIDE DEF n
  <2> QED
    BY <1>15, <1>21, <2>1, <2>2
<1>23. TxsIn(e)
  <2>1. PubsIn(e)
    BY <1>4, <1>5, <1>15 DEF PubsIn, SameTxs, Injective
  <2> QED
    BY <1>15, <1>18, <1>19, <1>21, <1>22, <2>1 DEF TxsIn
<1>24. TxShown(e, n, tx)
  <2>1. n \in 1 .. n
    BY <1>3
  <2> HIDE DEF n
  <2> QED
    BY <1>15, <1>17, <1>18, <1>19, <1>21, <2>1 DEF TxShown
<1>25. MoreTxs(d, e)
  <2>1. e.tx_count \in Nat /\ d.tx_count <= e.tx_count
    BY <1>3, <1>15
  <2>2. ASSUME NEW i \in 1 .. d.tx_count, NEW t, TxShown(d, i, t) PROVE TxShown(e, i, t)
    <3>1. i \in 1 .. e.tx_count
      BY <1>3, <2>1
    <3>2. e.account_id[e.tx_creator[i]] = d.account_id[d.tx_creator[i]]
      BY <1>3, <1>20, <1>21
    <3> QED
      BY <1>17, <1>18, <1>19, <2>2, <3>1, <3>2 DEF TxShown
  <2> QED
    BY <1>3, <2>1, <2>2 DEF MoreTxs
<1> QED
  BY <1>2, <1>8, <1>11, <1>13, <1>15, <1>23, <1>24, <1>25 DEF e, TxAdded
-----------------------------------------------------------------------------
(* A block.                                                                *)

(* The peer executes the transactions of a block; who created one is an    *)
(* account then.                                                           *)
RunAll(ws, w, txs) ==
  /\ ws[0] = w
  /\ \A k \in 1 .. Len(txs) : /\ Executes(ws[k - 1], txs[k].by, txs[k].cmds, ws[k])
                              /\ txs[k].by \in AccountsOf(ws[k]) \cup {NoCreator}

ExecutesAll(w, txs, v) == \E ws : RunAll(ws, w, txs) /\ v = ws[Len(txs)]

KeepingAll(how, txs) == \A k \in 1 .. Len(txs) : KeepingTx(how, txs[k])

(* The transactions of a block, one after the other. *)
LEMMA TxsShow ==
  ASSUME NEW d, NEW w, NEW how, NEW txs \in Seq(Txs), NEW v, Shows(d, w, how), TxsIn(d), Homes(w),
         ExecutesAll(w, txs, v),
         \A k \in 1 .. Len(txs) : txs[k].by = NoCreator => HasStub(d),
         KeepingAll(how, txs)
  PROVE  LET e == FoldLeft(AddTx, d, txs)
         IN /\ Shows(e, v, how) /\ Homes(v) /\ TxsIn(e) /\ Grown(d, e)
            /\ BlockPart(e) = BlockPart(d) /\ MoreTxs(d, e)
            /\ e.tx_count = d.tx_count + Len(txs)
            /\ \A k \in 1 .. Len(txs) : TxShown(e, d.tx_count + k, txs[k])
<1> DEFINE n == Len(txs)
<1>1. n \in Nat /\ DOMAIN txs = 1 .. n /\ \A k \in 1 .. n : txs[k] \in Txs
  OBVIOUS
<1>2. PICK h : FoldRun(<<"txs">>, d, txs, n, h) /\ FoldLeft(AddTx, d, txs) = h[n]
  BY <1>1, TxsFold
<1>3. PICK ws : RunAll(ws, w, txs) /\ v = ws[n]
  BY DEF ExecutesAll
<1>4. d.tx_count \in Nat
  BY DEF TxsIn, PubsIn
<1> HIDE DEF n
<1> DEFINE Good(i) == /\ Shows(h[i], ws[i], how) /\ Homes(ws[i]) /\ TxsIn(h[i]) /\ Grown(d, h[i])
                      /\ BlockPart(h[i]) = BlockPart(d) /\ MoreTxs(d, h[i])
                      /\ h[i].tx_count = d.tx_count + i
                      /\ \A k \in 1 .. i : TxShown(h[i], d.tx_count + k, txs[k])
           T == {i \in Nat : i <= n => Good(i)}
<1>5. 0 \in T
  <2>1. h[0] = d /\ ws[0] = w
    BY <1>2, <1>3 DEF FoldRun, RunAll
  <2>2. Grown(d, d) /\ MoreTxs(d, d)
    BY <1>4, KeptNone DEF Kept, MoreTxs
  <2>3. Good(0)
    BY <1>4, <2>1, <2>2
  <2> HIDE DEF Good
  <2> QED
    BY <2>3
<1> HIDE DEF Good
<1>6. ASSUME NEW i \in Nat, i \in T PROVE i + 1 \in T
  <2> SUFFICES ASSUME i + 1 <= n PROVE Good(i + 1)
    OBVIOUS
  <2>1. Good(i) /\ i + 1 \in 1 .. n /\ (i + 1) - 1 = i
    BY <1>1, <1>6
  <2> DEFINE f == h[i]
             e == h[i + 1]
             tx == txs[i + 1]
  <2>2. e = AddTx(f, tx) /\ tx \in Txs
    BY <1>1, <1>2, <2>1 DEF FoldRun, FoldStep
  <2>3. /\ Executes(ws[i], tx.by, tx.cmds, ws[i + 1])
        /\ tx.by \in AccountsOf(ws[i + 1]) \cup {NoCreator}
        /\ tx.by = NoCreator => HasStub(d)
        /\ KeepingTx(how, tx)
    BY <1>3, <2>1 DEF RunAll, KeepingAll, n
  <2>4. /\ Shows(f, ws[i], how) /\ Homes(ws[i]) /\ TxsIn(f) /\ Grown(d, f)
        /\ BlockPart(f) = BlockPart(d) /\ MoreTxs(d, f)
        /\ f.tx_count = d.tx_count + i
        /\ \A k \in 1 .. i : TxShown(f, d.tx_count + k, txs[k])
    BY <2>1 DEF Good
  <2> HIDE DEF f, e, tx
  <2>5. tx.by = NoCreator => HasStub(f)
    BY <2>3, <2>4, StubKept
  <2>6. TxAdded(f, e, ws[i + 1], tx, how)
    BY <2>2, <2>3, <2>4, <2>5, AddTxShows
  <2> USE DEF TxAdded
  <2>7. Grown(d, e) /\ e.tx_count = d.tx_count + (i + 1)
    BY <1>4, <2>4, <2>6, GrownTwice
  <2>8. MoreTxs(d, e)
    BY <2>4, <2>6 DEF MoreTxs
  <2>9. \A k \in 1 .. i + 1 : TxShown(e, d.tx_count + k, txs[k])
    <3> TAKE k \in 1 .. i + 1
    <3>1. CASE k = i + 1
      BY <2>6, <2>7, <3>1 DEF tx
    <3>2. CASE k # i + 1
      <4>1. k \in 1 .. i /\ d.tx_count + k \in 1 .. f.tx_count
        BY <1>4, <2>4, <3>2
      <4>2. TxShown(f, d.tx_count + k, txs[k])
        BY <2>4, <4>1
      <4> QED
        BY <2>6, <4>1, <4>2 DEF MoreTxs
    <3> QED
      BY <3>1, <3>2
  <2>10. BlockPart(e) = BlockPart(d)
    BY <2>4, <2>6
  <2> QED
    BY <2>6, <2>7, <2>8, <2>9, <2>10 DEF Good, e
<1>7. Good(n)
  <2> HIDE DEF T
  <2>1. n \in T
    BY <1>1, <1>5, <1>6, SetInduction
  <2> QED
    BY <1>1, <2>1 DEF T
<1> QED
  BY <1>2, <1>3, <1>7 DEF Good, n

(* Before the first block there is nothing. *)
LEMMA EmptyShows ==
  ASSUME NEW how
  PROVE  Shows(EmptyDb, EmptyWorld, how) /\ TxsIn(EmptyDb) /\ Homes(EmptyWorld)
<1> DEFINE d == EmptyDb
           w == EmptyWorld
<1>1. w \in Worlds
  BY DEF EmptyWorld, Worlds
<1>2. DOMAIN d = DbFields /\ d.undefined = FALSE
  BY DEF EmptyDb, DbFields
<1>3. RolesIn(d, w) /\ DomainsIn(d, w) /\ AccountsIn(d, w)
  BY DEF EmptyDb, EmptyWorld, RolesIn, DomainsIn, AccountsIn, Injective
<1>4. HasRolesIn(d, w, how) /\ GrantedIn(d, w, how) /\ PeersIn(d, w, how)
  BY DEF EmptyDb, EmptyWorld, HasRolesIn, GrantedIn, PeersIn, Injective
<1>5. CountsIn(d)
  BY DEF EmptyDb, CountsIn
<1>6. TxsIn(d)
  BY DEF EmptyDb, TxsIn, PubsIn, Injective
<1>7. Homes(w)
  BY DEF EmptyWorld, Homes, AccountsOf
<1> QED
  BY <1>1, <1>2, <1>3, <1>4, <1>5, <1>6, <1>7 DEF Shows

(* The stubs are no part of the world state. *)
LEMMA StubsShow ==
  ASSUME NEW how
  PROVE  /\ Shows(Stubs(EmptyDb), EmptyWorld, how) /\ TxsIn(Stubs(EmptyDb))
         /\ HasStub(Stubs(EmptyDb)) /\ Stubs(EmptyDb).tx_count = 0
         /\ BlockPart(Stubs(EmptyDb)) = BlockPart(EmptyDb)
<1> DEFINE d == Stubs(EmptyDb)
           w == EmptyWorld
<1>1. w \in Worlds
  BY DEF EmptyWorld, Worlds
<1>2. /\ DOMAIN d = DbFields /\ d.undefined = FALSE
      /\ d.role_count = 1 /\ d.role_name = <<Genesis>> /\ d.role_perms = <<{}>>
      /\ d.domain_count = 1 /\ d.domain_id = <<Genesis>> /\ d.domain_role = <<1>>
      /\ d.domain_tx_count = <<0>>
      /\ d.account_count = 1 /\ d.account_id = <<Genesis>> /\ d.account_quorum = <<0>>
      /\ d.account_roles = <<>> /\ d.account_grant = {} /\ d.peer_count = 0
      /\ d.peer_pub = <<>> /\ d.peer_address = <<>>
      /\ d.tx_count = 0 /\ d.tx_hash = <<>> /\ d.tx_time = <<>> /\ d.tx_creator = <<>>
      /\ d.tx_pubs = <<>> /\ d.all_pub = <<>>
  <2>1. \A x : Append(<<>>, x) = <<x>>
    OBVIOUS
  <2> DEFINE z == EmptyDb
  <2>2. /\ DOMAIN z = DbFields /\ z.undefined = FALSE
        /\ z.role_count = 0 /\ z.role_name = <<>> /\ z.role_perms = <<>>
        /\ z.domain_count = 0 /\ z.domain_id = <<>> /\ z.domain_role = <<>>
        /\ z.domain_tx_count = <<>>
        /\ z.account_count = 0 /\ z.account_id = <<>> /\ z.account_quorum = <<>>
        /\ z.account_roles = <<>> /\ z.account_grant = {} /\ z.peer_count = 0
        /\ z.peer_pub = <<>> /\ z.peer_address = <<>>
        /\ z.tx_count = 0 /\ z.tx_hash = <<>> /\ z.tx_time = <<>> /\ z.tx_creator = <<>>
        /\ z.tx_pubs = <<>> /\ z.all_pub = <<>>
    BY DEF EmptyDb, DbFields
  <2>3. d = Stubs(z)
    OBVIOUS
  <2> HIDE DEF z, d
  <2>4. /\ DOMAIN d = DbFields /\ d.undefined = z.undefined
        /\ d.role_count = z.role_count + 1 /\ d.role_name = Append(z.role_name, Genesis)
        /\ d.role_perms = Append(z.role_perms, {})
        /\ d.domain_count = z.domain_count + 1
        /\ d.domain_id = Append(z.domain_id, Genesis)
        /\ d.domain_role = Append(z.domain_role, 1)
        /\ d.domain_tx_count = Append(z.domain_tx_count, 0)
        /\ d.account_count = z.account_count + 1
        /\ d.account_id = Append(z.account_id, Genesis)
        /\ d.account_quorum = Append(z.account_quorum, 0)
        /\ d.account_roles = z.account_roles /\ d.account_grant = z.account_grant
        /\ d.peer_count = z.peer_count /\ d.peer_pub = z.peer_pub
        /\ d.peer_address = z.peer_address
        /\ d.tx_count = z.tx_count /\ d.tx_hash = z.tx_hash /\ d.tx_time = z.tx_time
        /\ d.tx_creator = z.tx_creator /\ d.tx_pubs = z.tx_pubs /\ d.all_pub = z.all_pub
    BY <2>2, <2>3 DEF Stubs, DbFields
  <2> QED
    BY <2>1, <2>2, <2>4
<1>3. BlockPart(d) = BlockPart(EmptyDb)
  BY DEF Stubs, EmptyDb, BlockPart
<1>4. w.roles = {} /\ w.domains = {} /\ w.accounts = {} /\ w.has_role = {} /\ w.granted = {}
        /\ w.peers = {}
  BY DEF EmptyWorld
<1> HIDE DEF d, w
<1>5. RolesIn(d, w) /\ DomainsIn(d, w) /\ AccountsIn(d, w)
  BY <1>2, <1>4 DEF RolesIn, DomainsIn, AccountsIn, Injective
<1>6. HasRolesIn(d, w, how) /\ GrantedIn(d, w, how) /\ PeersIn(d, w, how)
  BY <1>2, <1>4 DEF HasRolesIn, GrantedIn, PeersIn, Injective
<1>7. CountsIn(d)
  <2>1. OwnedBy(d, Genesis) = {}
    BY <1>2 DEF OwnedBy
  <2>2. Cardinality(OwnedBy(d, Genesis)) = 0
    BY <2>1, FS_EmptySet
  <2> HIDE DEF OwnedBy
  <2> QED
    BY <1>2, <2>2 DEF CountsIn
<1>8. TxsIn(d) /\ HasStub(d)
  BY <1>2 DEF TxsIn, PubsIn, Injective, HasStub
<1> QED
  BY <1>1, <1>2, <1>3, <1>5, <1>6, <1>7, <1>8 DEF Shows, d, w

(* genesis::check adds the stubs if and only if there is no creator. *)
StubIs(d, txs) == /\ NeedsStub(txs) => HasStub(d)
                  /\ ~NeedsStub(txs) => NoStub(d)

LEMMA StubsAdded ==
  ASSUME NEW txs
  PROVE  StubIs(CheckGenesis(EmptyDb, txs), txs)
<1>1. /\ EmptyDb.block_count = 0 /\ EmptyDb.account_count = 0
      /\ EmptyDb.domain_count = 0 /\ EmptyDb.role_count = 0
  BY DEF EmptyDb
<1>2. NeedsStub(txs) => HasStub(CheckGenesis(EmptyDb, txs))
  BY <1>1, StubsShow DEF CheckGenesis
<1>3. ~NeedsStub(txs) => NoStub(CheckGenesis(EmptyDb, txs))
  <2>1. NoStub(EmptyDb)
    BY <1>1 DEF NoStub
  <2> QED
    BY <2>1 DEF CheckGenesis
<1> QED
  BY <1>2, <1>3 DEF StubIs

LEMMA StubIsKept ==
  ASSUME NEW d, NEW e, NEW txs, StubIs(d, txs), Grown(d, e)
  PROVE  StubIs(e, txs)
BY StubKept, NoStubKept DEF StubIs

(* A block is added: the index shows what it does, its transactions, and   *)
(* what it showed before; its own entries are at the end of their tables.  *)
BlockAdded(d, e, v, txs, how) ==
  /\ Shows(e, v, how) /\ Homes(v) /\ TxsIn(e) /\ MoreTxs(d, e)
  /\ Grown(CheckGenesis(d, txs), e)
  /\ e.tx_count = d.tx_count + Len(txs)
  /\ \A k \in 1 .. Len(txs) : TxShown(e, d.tx_count + k, txs[k])
  /\ e.block_count = d.block_count + 1
  /\ e.block_bytes = Append(d.block_bytes, Serialize(txs))
  /\ e.block_hash = Append(d.block_hash, BlockHash(d.block_count + 1, txs))
  /\ e.block_tx_count = Append(d.block_tx_count, Last(d.block_tx_count) + Len(txs))
  /\ e.tx_cmds = d.tx_cmds \o GetTxCmd(Serialize(txs))

(* AddBlock adds a block that the peer can execute.  The first block of a   *)
(* ledger may begin with the stub.                                         *)
LEMMA AddBlockShows ==
  ASSUME NEW d, NEW w, NEW how, NEW txs \in Seq(Txs), NEW v, Shows(d, w, how), TxsIn(d), Homes(w),
         ExecutesAll(w, txs, v), d.block_count \in Nat,
         d.block_count = 0 => d = EmptyDb /\ w = EmptyWorld,
         d.block_count # 0 => \A k \in 1 .. Len(txs) : txs[k].by # NoCreator,
         KeepingAll(how, txs)
  PROVE  BlockAdded(d, AddBlock(d, txs), v, txs, how)
<1> DEFINE c == CheckGenesis(d, txs)
           height == c.block_count + 1
           bytes == Serialize(txs)
           f == [c EXCEPT !.block_bytes    = Append(@, bytes),
                          !.block_count    = height,
                          !.block_hash     = Append(@, BlockHash(height, txs)),
                          !.block_tx_count = Append(@, Last(@) + Len(txs)),
                          !.tx_cmds        = @ \o GetTxCmd(bytes)]
           e == FoldLeft(AddTx, f, txs)
<1>1. e = AddBlock(d, txs)
  BY Zenon DEF AddBlock
<1>2. /\ Shows(c, w, how) /\ TxsIn(c) /\ MoreTxs(d, c)
      /\ c.tx_count = d.tx_count /\ BlockPart(c) = BlockPart(d)
      /\ \A k \in 1 .. Len(txs) : txs[k].by = NoCreator => HasStub(c)
  <2>1. CASE d.block_count = 0 /\ NeedsStub(txs)
    <3>1. c = Stubs(EmptyDb) /\ d = EmptyDb /\ w = EmptyWorld
      BY <2>1 DEF CheckGenesis
    <3>2. d.tx_count = 0
      BY <3>1 DEF EmptyDb
    <3>3. /\ Shows(c, w, how) /\ TxsIn(c) /\ HasStub(c) /\ c.tx_count = 0
          /\ BlockPart(c) = BlockPart(d)
      BY <3>1, StubsShow
    <3> HIDE DEF c
    <3>4. MoreTxs(d, c)
      BY <3>2, <3>3 DEF MoreTxs
    <3> QED
      BY <3>2, <3>3, <3>4
  <2>2. CASE ~(d.block_count = 0 /\ NeedsStub(txs))
    <3>1. c = d
      BY <2>2 DEF CheckGenesis
    <3>2. \A k \in 1 .. Len(txs) : txs[k].by # NoCreator
      BY <2>2 DEF NeedsStub
    <3>3. MoreTxs(d, d)
      BY DEF MoreTxs, TxsIn, PubsIn
    <3> QED
      BY <3>1, <3>2, <3>3
  <2> QED
    BY <2>1, <2>2
<1> HIDE DEF c
<1>3. DOMAIN c = DbFields /\ CountsIn(c)
  BY <1>2 DEF Shows
<1>4. /\ c.block_bytes = d.block_bytes /\ c.block_count = d.block_count
      /\ c.block_hash = d.block_hash /\ c.block_tx_count = d.block_tx_count
      /\ c.tx_cmds = d.tx_cmds
  BY <1>2 DEF BlockPart
<1>5. /\ f.block_bytes = Append(d.block_bytes, bytes)
      /\ f.block_count = d.block_count + 1
      /\ f.block_hash = Append(d.block_hash, BlockHash(d.block_count + 1, txs))
      /\ f.block_tx_count = Append(d.block_tx_count, Last(d.block_tx_count) + Len(txs))
      /\ f.tx_cmds = d.tx_cmds \o GetTxCmd(bytes)
  BY <1>3, <1>4 DEF DbFields
<1>6. /\ DOMAIN f = DbFields
      /\ RolePart(f) = RolePart(c) /\ DomainPart(f) = DomainPart(c)
      /\ AccountPart(f) = AccountPart(c) /\ PeerPart(f) = PeerPart(c)
      /\ TxPart(f) = TxPart(c)
      /\ f.account_roles = c.account_roles /\ f.account_grant = c.account_grant
      /\ f.undefined = c.undefined /\ f.domain_tx_count = c.domain_tx_count
      /\ f.domain_count = c.domain_count
  BY <1>3 DEF DbFields, RolePart, DomainPart, AccountPart, PeerPart, TxPart
<1> HIDE DEF f
<1>7. SameShown(c, f) /\ CountsIn(f)
  <2>1. SameShown(c, f)
    BY <1>3, <1>6 DEF SameShown
  <2>2. AccountsGrown(c, f)
    BY <1>2, <2>1, SameAccounts
  <2> QED
    BY <1>3, <1>6, <2>1, <2>2, CountsStay DEF TxPart
<1>8. Shows(f, w, how) /\ Grown(c, f)
  BY <1>2, <1>7, ShowsStays
<1>9. /\ f.tx_count = c.tx_count /\ f.tx_hash = c.tx_hash /\ f.tx_time = c.tx_time
      /\ f.tx_creator = c.tx_creator /\ f.tx_pubs = c.tx_pubs /\ f.all_pub = c.all_pub
      /\ f.account_count = c.account_count /\ f.account_id = c.account_id
  BY <1>6 DEF TxPart, AccountPart
<1>10. TxsIn(f)
  BY <1>2, <1>9 DEF TxsIn, PubsIn, Injective
<1>11. MoreTxs(d, f)
  <2>1. \A i, t : TxShown(f, i, t) <=> TxShown(c, i, t)
    BY <1>9 DEF TxShown, SignersOf
  <2> QED
    BY <1>2, <1>9, <2>1 DEF MoreTxs
<1>12. \A k \in 1 .. Len(txs) : txs[k].by = NoCreator => HasStub(f)
  BY <1>2, <1>8, StubKept
<1>13. /\ Shows(e, v, how) /\ Homes(v) /\ TxsIn(e) /\ Grown(f, e)
       /\ BlockPart(e) = BlockPart(f) /\ MoreTxs(f, e)
       /\ e.tx_count = f.tx_count + Len(txs)
       /\ \A k \in 1 .. Len(txs) : TxShown(e, f.tx_count + k, txs[k])
  BY <1>8, <1>10, <1>12, TxsShow
<1> HIDE DEF e
<1>14. Grown(c, e)
  BY <1>8, <1>13, GrownTwice
<1>15. MoreTxs(d, e)
  BY <1>11, <1>13 DEF MoreTxs
<1>16. /\ e.block_bytes = f.block_bytes /\ e.block_count = f.block_count
       /\ e.block_hash = f.block_hash /\ e.block_tx_count = f.block_tx_count
       /\ e.tx_cmds = f.tx_cmds
  BY <1>13 DEF BlockPart
<1>17. /\ e.tx_count = d.tx_count + Len(txs)
       /\ \A k \in 1 .. Len(txs) : TxShown(e, d.tx_count + k, txs[k])
  BY <1>2, <1>9, <1>13
<1> HIDE DEF bytes
<1> QED
  BY <1>1, <1>5, <1>13, <1>14, <1>15, <1>16, <1>17 DEF BlockAdded, bytes, c
=============================================================================
