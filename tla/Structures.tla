----------------------------- MODULE Structures -----------------------------
(***************************************************************************)
(* The data structures of ds, of which every table of db.cpp is made:      *)
(*                                                                         *)
(*  - Len keeps sizes as running offsets, so that the entry an offset falls*)
(*    into is found by binary search.  It holds the blocks in the bytes of *)
(*    the cache and the transactions of the blocks, which may have none.   *)
(*  - Linked::Vector keeps lists for any number of indices, such as the    *)
(*    roles of each account, whose nodes share one vector.  A node is added*)
(*    before its list and never changed.                                   *)
(*  - Indirect::Hashed keeps values in a vector and in a hash set their    *)
(*    indices, hashed and compared by the values.                          *)
(*                                                                         *)
(* Entries of Len count from 0, as in the code; positions of nodes, lists  *)
(* and values count from 1, and 0 is null.                                 *)
(***************************************************************************)
EXTENDS Naturals, Sequences

CONSTANTS
  Sizes,     \* the sizes that are pushed
  Values,    \* the values in lists and sets
  MaxSize,   \* bound: entries of Len
  MaxIndex,  \* bound: lists
  MaxNodes,  \* bound: nodes of all lists
  MaxVector  \* bound: values of Hashed

ASSUME ConstantsAssumption ==
  /\ Sizes \subseteq Nat
  /\ MaxSize \in Nat /\ MaxIndex \in Nat /\ MaxNodes \in Nat /\ MaxVector \in Nat

VARIABLES
  offset_,  \* Len: one more offset than entries
  nodes,    \* Linked: all nodes, in the order they were added
  heads,    \* Vector: the first node of each list; lists never used may lack
  vector,   \* Hashed: the values, in the order they were added
  set       \* Hashed: the positions that a lookup sees

linked == <<nodes, heads>>
hashed == <<vector, set>>
vars   == <<offset_, nodes, heads, vector, set>>

Init ==
  /\ offset_ = <<0>>
  /\ nodes = <<>> /\ heads = <<>>
  /\ vector = <<>> /\ set = {}
-----------------------------------------------------------------------------
(* Len *)

Size == Len(offset_) - 1
SizeBytes == offset_[Len(offset_)]
SizeOf(i) == offset_[i + 2] - offset_[i + 1]
Offset(i) == offset_[i + 1]

LowerBound(offset) ==
  CHOOSE p \in 1 .. Len(offset_) + 1 :
    /\ \A k \in 1 .. p - 1 : offset_[k] < offset
    /\ \A k \in p .. Len(offset_) : offset_[k] >= offset

(* std::upper_bound over the offsets: the first that is above offset. *)
UpperBound(offset) ==
  CHOOSE p \in 1 .. Len(offset_) + 1 :
    /\ \A k \in 1 .. p - 1 : offset_[k] <= offset
    /\ \A k \in p .. Len(offset_) : offset_[k] > offset

(* The entry that an offset falls into. *)
Index(offset) == UpperBound(offset) - 2

PushBackSize(n) ==
  /\ Size < MaxSize
  /\ offset_' = Append(offset_, n)
  /\ UNCHANGED <<linked, hashed>>

PushBack(n) ==
  /\ Size < MaxSize
  /\ offset_' = Append(offset_, SizeBytes + n)
  /\ UNCHANGED <<linked, hashed>>

TruncateOneMore(n) ==
  /\ n <= Size
  /\ offset_' = SubSeq(offset_, 1, n)
  /\ UNCHANGED <<linked, hashed>>

(* To keep more than there is ends the process. *)
Truncate(n) ==
  /\ n <= Size
  /\ offset_' = SubSeq(offset_, 1, n + 1)
  /\ UNCHANGED <<linked, hashed>>
-----------------------------------------------------------------------------
(* Linked *)

null == 0

ResizeToLastNode(index) ==
  IF index > Len(heads)
  THEN [i \in 1 .. index |-> IF i <= Len(heads) THEN heads[i] ELSE Len(nodes)]
  ELSE heads

(* heads.resize(index + 1, null) when the list has no head yet. *)
Resized(index) ==
  IF index > Len(heads)
  THEN [i \in 1 .. index |-> IF i <= Len(heads) THEN heads[i] ELSE null]
  ELSE heads

AddWithoutNext(index, value) ==
  /\ Len(nodes) < MaxNodes
  /\ nodes' = Append(nodes, [value |-> value, next |-> null])
  /\ heads' = [Resized(index) EXCEPT ![index] = Len(nodes) + 1]
  /\ UNCHANGED <<offset_, hashed>>

(* Vector::add: a node before the list, which becomes its head. *)
Add(index, value) ==
  /\ Len(nodes) < MaxNodes
  /\ nodes' = Append(nodes, [value |-> value, next |-> Resized(index)[index]])
  /\ heads' = [Resized(index) EXCEPT ![index] = Len(nodes) + 1]
  /\ UNCHANGED <<offset_, hashed>>

(* The values from a node on; every node comes after its next one. *)
ValuesFrom[head \in 0 .. Len(nodes)] ==
  IF head = null
  THEN <<>>
  ELSE <<nodes[head].value>> \o ValuesFrom[nodes[head].next]

(* Vector::range *)
ListOf(index) ==
  ValuesFrom[IF index <= Len(heads) THEN heads[index] ELSE null]
-----------------------------------------------------------------------------
(* Hashed *)

(* HashEq: positions are equal when their values are.  A lookup compares   *)
(* with a value that is in no vector, as the value of key_index.           *)
Matches(value) == {i \in set : vector[i] = value}

HashedPushAlways(value) ==
  /\ Len(vector) < MaxVector
  /\ vector' = Append(vector, value)
  /\ set' = set \cup {Len(vector) + 1}
  /\ UNCHANGED <<offset_, linked>>

(* push_back: set.insert leaves set as it is when an equal one is in it. *)
HashedPush(value) ==
  /\ Len(vector) < MaxVector
  /\ vector' = Append(vector, value)
  /\ set' = IF Matches(value) = {} THEN set \cup {Len(vector) + 1} ELSE set
  /\ UNCHANGED <<offset_, linked>>
-----------------------------------------------------------------------------
Next ==
  \/ \E n \in Sizes : PushBack(n)
  \/ \E n \in 0 .. Size : Truncate(n)
  \/ \E index \in 1 .. MaxIndex, value \in Values : Add(index, value)
  \/ \E value \in Values : HashedPush(value)

Spec == Init /\ [][Next]_vars
-----------------------------------------------------------------------------
Entries   == 1 .. Len(offset_)
Nodes     == 1 .. Len(nodes)
Heads     == 1 .. Len(heads)
Positions == 1 .. Len(vector)

(* A node's next one was added before it, so that iteration ends. *)
TypeOK ==
  /\ offset_ \in Seq(Nat) /\ Len(offset_) > 0
  /\ nodes \in Seq([value : Values, next : Nat])
  /\ \A p \in Nodes : nodes[p].next < p
  /\ heads \in Seq(Nat) /\ Len(heads) <= MaxIndex
  /\ \A i \in Heads : heads[i] <= Len(nodes)
  /\ vector \in Seq(Values)
  /\ set \subseteq Positions

(* Every offset inside an entry, and no other, is found to be in it: empty *)
(* entries before or after it are skipped, as Transaction.blockHeight and  *)
(* commandsJson need it.                                                   *)
IndexInverts ==
  \A i \in 0 .. Size - 1 :
    \A offset \in Offset(i) .. Offset(i) + SizeOf(i) - 1 : Index(offset) = i

(* No node is in two lists or twice in one: at most one head or one other  *)
(* node leads to it.  A node added for one account is never another's.     *)
NotShared ==
  /\ \A p, r \in Nodes :
       p # r /\ nodes[p].next # null => nodes[p].next # nodes[r].next
  /\ \A i, j \in Heads : i # j /\ heads[i] # null => heads[i] # heads[j]
  /\ \A i \in Heads, p \in Nodes : heads[i] # null => heads[i] # nodes[p].next

(* No node is lost: some head or some other node leads to it. *)
NoneLost ==
  \A p \in Nodes :
    \/ \E i \in Heads : heads[i] = p
    \/ \E r \in Nodes : nodes[r].next = p

(* A value that was added is found at the first of its positions and never *)
(* at another one, however often it is added again: a lookup, which takes  *)
(* any position that matches, always gives the same.                       *)
FindsFirst ==
  \A value \in Values :
    LET all == {i \in Positions : vector[i] = value}
    IN Matches(value) = {i \in all : \A j \in all : i <= j}

(* The structures implement what they stand for: a size is pushed or cut,  *)
(* a value is put before one list and no other list changes, and what was  *)
(* found once is found there for ever.                                     *)
Contents == INSTANCE Containers WITH
  Indices <- 1 .. MaxIndex,
  sizes   <- [i \in 1 .. Size |-> offset_[i + 1] - offset_[i]],
  lists   <- [i \in 1 .. MaxIndex |-> ListOf(i)],
  places  <- [v \in Values |-> Matches(v)]

KeepsContents == Contents!Spec
=============================================================================
