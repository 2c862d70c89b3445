-------------------------- MODULE StructuresProofs --------------------------
(***************************************************************************)
(* Theorems about Structures, for any sizes, values and bounds.            *)
(*                                                                         *)
(* The three structures share no variable, so each has an invariant of its *)
(* own: RisingOffsets for Len, ChainInv for Linked and HashInv for Hashed,  *)
(* all of them on top of TypeOK.                                           *)
(*                                                                         *)
(* The refinement of Containers reads the same three parts: the sizes are  *)
(* the differences of neighbouring offsets, a list is what ValuesFrom      *)
(* gives from its head, a place is what Matches finds.  That ValuesFrom is *)
(* a function at all is because the next of a node is an earlier one.      *)
(***************************************************************************)
EXTENDS Structures, SequenceTheorems, Numbers, TLAPS

(* Offsets never fall. *)
RisingOffsets ==
  \A k, l \in Entries : k <= l => offset_[k] <= offset_[l]

ChainInv == NotShared /\ NoneLost

(* Every value has a position in the set that is not after it. *)
Covered ==
  \A p \in Positions : \E i \in set : i <= p /\ vector[i] = vector[p]

HashInv == FindsFirst /\ Covered

Inv == TypeOK /\ RisingOffsets /\ ChainInv /\ HashInv
-----------------------------------------------------------------------------
LEMMA SeqElements ==
  ASSUME NEW S, NEW seq \in Seq(S)
  PROVE  /\ Len(seq) \in Nat
         /\ \A i \in 1 .. Len(seq) : seq[i] \in S
OBVIOUS

(* What TypeOK says of single nodes and heads. *)
LEMMA Typed ==
  ASSUME TypeOK
  PROVE  /\ Len(nodes) \in Nat /\ Len(heads) \in Nat
         /\ \A p \in Nodes : nodes[p].next \in Nat /\ nodes[p].next < p
         /\ \A i \in Heads : heads[i] \in Nat /\ heads[i] <= Len(nodes)
<1>1. /\ nodes \in Seq([value : Values, next : Nat]) /\ heads \in Seq(Nat)
      /\ \A p \in Nodes : nodes[p].next < p
      /\ \A i \in Heads : heads[i] <= Len(nodes)
  BY DEF TypeOK
<1>2. Len(nodes) \in Nat /\ \A p \in Nodes : nodes[p] \in [value : Values, next : Nat]
  BY <1>1, SeqElements DEF Nodes
<1>3. \A p \in Nodes : nodes[p].next \in Nat
  BY <1>2
<1>4. Len(heads) \in Nat /\ \A i \in Heads : heads[i] \in Nat
  BY <1>1, SeqElements DEF Heads
<1> QED
  BY <1>1, <1>2, <1>3, <1>4

(* Vector::add gives the list a head, null if it is new, and leaves the    *)
(* others as they are; new ones are null.                                  *)
LEMMA ResizedHeads ==
  ASSUME TypeOK, NEW index \in 1 .. MaxIndex
  PROVE  /\ Resized(index) \in Seq(Nat)
         /\ index \in 1 .. Len(Resized(index))
         /\ Len(heads) <= Len(Resized(index)) /\ Len(Resized(index)) <= MaxIndex
         /\ \A i \in 1 .. Len(Resized(index)) :
              Resized(index)[i] = IF i \in Heads THEN heads[i] ELSE null
<1> USE ConstantsAssumption DEF ConstantsAssumption, TypeOK, Heads, null
<1>1. CASE index > Len(heads)
  <2> DEFINE resized == [i \in 1 .. index |-> IF i <= Len(heads) THEN heads[i] ELSE null]
  <2>1. Resized(index) = resized
    BY <1>1 DEF Resized
  <2>2. resized \in Seq(Nat) /\ Len(resized) = index
    <3>1. index \in Nat /\ Len(nodes) \in Nat
      BY Typed
    <3>2. \A i \in 1 .. index : (IF i <= Len(heads) THEN heads[i] ELSE null) \in Nat
      BY <3>1, Typed DEF Heads
    <3> QED
      BY <3>1, <3>2
  <2>3. \A i \in 1 .. index :
          resized[i] = IF i \in Heads THEN heads[i] ELSE null
    OBVIOUS
  <2> HIDE DEF resized
  <2> QED
    BY <1>1, <2>1, <2>2, <2>3
<1>2. CASE ~(index > Len(heads))
  BY <1>2 DEF Resized
<1> QED
  BY <1>1, <1>2

(* What Add does to the nodes and the heads. *)
LEMMA AddEffect ==
  ASSUME TypeOK, NEW index \in 1 .. MaxIndex, NEW value \in Values,
         Add(index, value)
  PROVE  /\ nodes' \in Seq([value : Values, next : Nat])
         /\ Len(nodes') = Len(nodes) + 1
         /\ \A p \in Nodes : nodes'[p] = nodes[p]
         /\ nodes'[Len(nodes) + 1].next = Resized(index)[index]
         /\ heads' \in Seq(Nat) /\ Len(heads') = Len(Resized(index))
         /\ heads'[index] = Len(nodes) + 1
         /\ \A i \in 1 .. Len(heads') :
              i # index => heads'[i] = IF i \in Heads THEN heads[i] ELSE null
<1> DEFINE node == [value |-> value, next |-> Resized(index)[index]]
<1>1. /\ Resized(index) \in Seq(Nat)
      /\ index \in 1 .. Len(Resized(index))
      /\ \A i \in 1 .. Len(Resized(index)) :
           Resized(index)[i] = IF i \in Heads THEN heads[i] ELSE null
  BY ResizedHeads
<1>2. node \in [value : Values, next : Nat]
  BY <1>1
<1>3. /\ nodes' = Append(nodes, node)
      /\ heads' = [Resized(index) EXCEPT ![index] = Len(nodes) + 1]
  BY DEF Add
<1>4. nodes \in Seq([value : Values, next : Nat]) /\ Len(nodes) \in Nat
  BY DEF TypeOK
<1>5. node.next = Resized(index)[index]
  OBVIOUS
<1> HIDE DEF node
<1>6. /\ nodes' \in Seq([value : Values, next : Nat])
      /\ Len(nodes') = Len(nodes) + 1
      /\ \A p \in Nodes : nodes'[p] = nodes[p]
      /\ nodes'[Len(nodes) + 1] = node
  BY <1>2, <1>3, <1>4 DEF Nodes
<1>7. /\ heads' \in Seq(Nat) /\ Len(heads') = Len(Resized(index))
      /\ heads'[index] = Len(nodes) + 1
      /\ \A i \in 1 .. Len(heads') : i # index => heads'[i] = Resized(index)[i]
  BY <1>1, <1>3, <1>4
<1> QED
  BY <1>1, <1>5, <1>6, <1>7
-----------------------------------------------------------------------------
(* The empty structures satisfy the invariant. *)
LEMMA InitInv == Init => Inv
<1> SUFFICES ASSUME Init PROVE Inv
  OBVIOUS
<1>1. TypeOK
  BY ConstantsAssumption DEF Init, TypeOK, ConstantsAssumption, Nodes, Heads, Positions
<1>2. RisingOffsets
  BY DEF Init, RisingOffsets, Entries
<1>3. ChainInv
  BY DEF Init, ChainInv, NotShared, NoneLost, Nodes, Heads
<1>4. HashInv
  BY DEF Init, HashInv, FindsFirst, Covered, Matches, Positions
<1> QED
  BY <1>1, <1>2, <1>3, <1>4 DEF Inv

(* A step of Len keeps the offsets rising and the rest as it was. *)
LEMMA LenStep ==
  ASSUME TypeOK, RisingOffsets,
         (\E n \in Sizes : PushBack(n)) \/ (\E n \in 0 .. Size : Truncate(n))
  PROVE  /\ offset_' \in Seq(Nat) /\ Len(offset_') > 0
         /\ RisingOffsets'
         /\ UNCHANGED <<linked, hashed>>
<1> USE ConstantsAssumption DEF ConstantsAssumption
<1>1. ASSUME NEW n \in Sizes, PushBack(n)
      PROVE  /\ offset_' \in Seq(Nat) /\ Len(offset_') > 0
             /\ RisingOffsets'
             /\ UNCHANGED <<linked, hashed>>
  <2> DEFINE len == Len(offset_)
  <2>1. /\ offset_ \in Seq(Nat) /\ len \in Nat \ {0} /\ n \in Nat
        /\ offset_[len] \in Nat /\ \A k \in Entries : offset_[k] \in Nat
    BY DEF TypeOK, Entries
  <2>2. offset_' = Append(offset_, offset_[len] + n)
    BY <1>1 DEF PushBack, SizeBytes
  <2>3. /\ offset_' \in Seq(Nat) /\ Len(offset_') = len + 1
        /\ \A k \in Entries : offset_'[k] = offset_[k]
        /\ offset_'[len + 1] = offset_[len] + n
    BY <2>1, <2>2 DEF Entries
  <2>4. \A k \in Entries : offset_[k] <= offset_[len]
    BY <2>1 DEF RisingOffsets, Entries
  <2>5. RisingOffsets'
    <3> SUFFICES ASSUME NEW k \in 1 .. len + 1, NEW l \in 1 .. len + 1, k <= l
                 PROVE  offset_'[k] <= offset_'[l]
      BY <2>3 DEF RisingOffsets, Entries
    <3>1. CASE l \in Entries
      <4>1. k \in Entries
        BY <2>1, <3>1 DEF Entries
      <4> QED
        BY <2>3, <3>1, <4>1 DEF RisingOffsets
    <3>2. CASE k \in Entries /\ l = len + 1
      <4>1. offset_[k] \in Nat /\ offset_[k] <= offset_[len]
        BY <2>1, <2>4, <3>2
      <4> HIDE DEF len
      <4> QED
        BY <2>1, <2>3, <3>2, <4>1
    <3>3. CASE k = len + 1 /\ l = len + 1
      BY <2>1, <2>3, <3>3
    <3> QED
      BY <2>1, <3>1, <3>2, <3>3 DEF Entries
  <2> QED
    BY <1>1, <2>1, <2>3, <2>5 DEF PushBack
<1>2. ASSUME NEW n \in 0 .. Size, Truncate(n)
      PROVE  /\ offset_' \in Seq(Nat) /\ Len(offset_') > 0
             /\ RisingOffsets'
             /\ UNCHANGED <<linked, hashed>>
  <2>1. offset_ \in Seq(Nat) /\ Len(offset_) \in Nat /\ n + 1 \in 1 .. Len(offset_)
    BY DEF TypeOK, Size
  <2>2. offset_' = SubSeq(offset_, 1, n + 1)
    BY <1>2 DEF Truncate
  <2>3. /\ offset_' \in Seq(Nat) /\ Len(offset_') = n + 1
        /\ \A k \in 1 .. n + 1 : offset_'[k] = offset_[k]
    BY <2>1, <2>2
  <2>4. RisingOffsets'
    <3> SUFFICES ASSUME NEW k \in 1 .. n + 1, NEW l \in 1 .. n + 1, k <= l
                 PROVE  offset_'[k] <= offset_'[l]
      BY <2>3 DEF RisingOffsets, Entries
    <3>1. k \in Entries /\ l \in Entries
      BY <2>1 DEF Entries
    <3> QED
      BY <2>3, <3>1 DEF RisingOffsets
  <2> QED
    BY <1>2, <2>3, <2>4 DEF Truncate
<1> QED
  BY <1>1, <1>2

(* Adding to a list keeps its nodes apart from all others and loses none:  *)
(* the old head is now led to by the new node, and only by it.             *)
LEMMA AddStep ==
  ASSUME TypeOK, ChainInv,
         NEW index \in 1 .. MaxIndex, NEW value \in Values, Add(index, value)
  PROVE  TypeOK' /\ ChainInv'
<1> USE ConstantsAssumption DEF ConstantsAssumption
<1> DEFINE new == Len(nodes) + 1
           old == Resized(index)[index]
<1>1. /\ Resized(index) \in Seq(Nat)
      /\ index \in 1 .. Len(Resized(index))
      /\ Len(heads) <= Len(Resized(index)) /\ Len(Resized(index)) <= MaxIndex
      /\ old = IF index \in Heads THEN heads[index] ELSE null
  BY ResizedHeads
<1>2. /\ nodes' \in Seq([value : Values, next : Nat])
      /\ Len(nodes') = new
      /\ \A p \in Nodes : nodes'[p] = nodes[p]
      /\ nodes'[new].next = old
      /\ heads' \in Seq(Nat) /\ Len(heads') = Len(Resized(index))
      /\ heads'[index] = new
      /\ \A i \in 1 .. Len(heads') :
           i # index => heads'[i] = IF i \in Heads THEN heads[i] ELSE null
  BY AddEffect
<1>3. /\ Len(nodes) \in Nat /\ Len(heads) \in Nat
      /\ \A p \in Nodes : nodes[p].next \in Nat /\ nodes[p].next < p
      /\ \A i \in Heads : heads[i] \in Nat /\ heads[i] <= Len(nodes)
  BY Typed
<1>4. old \in Nat /\ old < new
  BY <1>1, <1>3 DEF null
<1>5. UNCHANGED <<offset_, vector, set>>
  BY DEF Add, hashed
<1> HIDE DEF new, old
<1>6. new = Len(nodes) + 1
  BY DEF new
<1>7. TypeOK'
  <2>1. \A p \in Nodes' : nodes'[p].next < p
    <3> SUFFICES ASSUME NEW p \in 1 .. new PROVE nodes'[p].next < p
      BY <1>2 DEF Nodes
    <3>1. CASE p \in Nodes
      BY <1>2, <1>3, <3>1
    <3>2. CASE p = new
      BY <1>2, <1>4, <3>2
    <3> QED
      BY <1>3, <1>6, <3>1, <3>2 DEF Nodes
  <2>2. \A i \in Heads' : heads'[i] <= Len(nodes')
    <3> SUFFICES ASSUME NEW i \in 1 .. Len(heads') PROVE heads'[i] <= new
      BY <1>2 DEF Heads
    <3>1. CASE i = index
      BY <1>2, <1>3, <1>6, <3>1
    <3>2. CASE i # index /\ i \in Heads
      <4>1. heads'[i] = heads[i]
        BY <1>2, <3>2
      <4> QED
        BY <1>3, <1>6, <3>2, <4>1
    <3>3. CASE i # index /\ i \notin Heads
      <4>1. heads'[i] = null
        BY <1>2, <3>3
      <4> QED
        BY <1>3, <1>6, <4>1 DEF null
    <3> QED
      BY <3>1, <3>2, <3>3
  <2> QED
    BY <1>1, <1>2, <1>5, <2>1, <2>2 DEF TypeOK, Positions
<1>8. NotShared'
  <2> SUFFICES /\ \A p, r \in Nodes' :
                    p # r /\ nodes'[p].next # null => nodes'[p].next # nodes'[r].next
               /\ \A i, j \in Heads' :
                    i # j /\ heads'[i] # null => heads'[i] # heads'[j]
               /\ \A i \in Heads', p \in Nodes' :
                    heads'[i] # null => heads'[i] # nodes'[p].next
    BY DEF NotShared, null
  <2>1. \A p \in Nodes : old # null => old # nodes[p].next
    BY <1>1 DEF ChainInv, NotShared
  <2>2. ASSUME NEW p \in Nodes', NEW r \in Nodes', p # r, nodes'[p].next # null
        PROVE  nodes'[p].next # nodes'[r].next
    <3>1. CASE p \in Nodes /\ r \in Nodes
      BY <1>2, <2>2, <3>1 DEF ChainInv, NotShared
    <3>2. CASE p = new /\ r \in Nodes
      BY <1>2, <2>1, <2>2, <3>2
    <3>3. CASE p \in Nodes /\ r = new
      BY <1>2, <2>1, <2>2, <3>3
    <3> QED
      BY <1>2, <1>3, <1>6, <2>2, <3>1, <3>2, <3>3 DEF Nodes
  <2>3. \A i \in Heads' : i # index => heads'[i] # new
    <3> SUFFICES ASSUME NEW i \in 1 .. Len(heads'), i # index PROVE heads'[i] # new
      BY DEF Heads
    <3>1. CASE i \in Heads
      BY <1>2, <1>3, <1>6, <3>1
    <3>2. CASE i \notin Heads
      BY <1>2, <1>3, <1>6, <3>2 DEF null
    <3> QED
      BY <3>1, <3>2
  <2>4. \A p \in Nodes' : nodes'[p].next \in Nat /\ nodes'[p].next < new
    <3> SUFFICES ASSUME NEW p \in 1 .. new
                 PROVE  nodes'[p].next \in Nat /\ nodes'[p].next < new
      BY <1>2 DEF Nodes
    <3>1. CASE p \in Nodes
      <4>1. nodes'[p].next = nodes[p].next /\ nodes[p].next \in Nat /\ nodes[p].next < p
        BY <1>2, <1>3, <3>1
      <4>2. p \in Nat /\ p <= Len(nodes)
        BY <1>3, <3>1 DEF Nodes
      <4> QED
        BY <1>3, <1>6, <4>1, <4>2
    <3>2. CASE p = new
      BY <1>2, <1>4, <3>2
    <3> QED
      BY <1>3, <1>6, <3>1, <3>2 DEF Nodes
  <2>5. ASSUME NEW i \in Heads', NEW j \in Heads', i # j, heads'[i] # null
        PROVE  heads'[i] # heads'[j]
    <3>1. CASE i = index
      BY <1>2, <2>3, <2>5, <3>1
    <3>2. CASE j = index
      BY <1>2, <2>3, <2>5, <3>2
    <3>3. CASE i # index /\ j # index
      BY <1>2, <2>5, <3>3 DEF ChainInv, NotShared, Heads
    <3> QED
      BY <3>1, <3>2, <3>3
  <2>6. ASSUME NEW i \in Heads', NEW p \in Nodes', heads'[i] # null
        PROVE  heads'[i] # nodes'[p].next
    <3>1. CASE i = index
      BY <1>2, <1>3, <1>6, <2>4, <3>1
    <3>2. CASE i # index
      <4>1. i \in Heads /\ heads'[i] = heads[i]
        BY <1>2, <2>6, <3>2 DEF Heads
      <4>2. CASE p \in Nodes
        BY <1>2, <2>6, <4>1, <4>2 DEF ChainInv, NotShared
      <4>3. CASE p = new
        BY <1>1, <1>2, <2>6, <3>2, <4>1, <4>3 DEF ChainInv, NotShared, Heads
      <4> QED
        BY <1>2, <1>3, <1>6, <4>2, <4>3 DEF Nodes
    <3> QED
      BY <3>1, <3>2
  <2> QED
    BY <2>2, <2>5, <2>6
<1>9. NoneLost'
  <2> SUFFICES ASSUME NEW p \in Nodes'
               PROVE  \/ \E i \in Heads' : heads'[i] = p
                      \/ \E r \in Nodes' : nodes'[r].next = p
    BY DEF NoneLost
  <2>1. CASE p = new
    BY <1>1, <1>2, <2>1 DEF Heads
  <2>2. CASE p \in Nodes
    <3>1. CASE \E r \in Nodes : nodes[r].next = p
      BY <1>2, <1>3, <1>6, <3>1 DEF Nodes
    <3>2. CASE \E i \in Heads : heads[i] = p
      <4>1. PICK i \in Heads : heads[i] = p
        BY <3>2
      <4>2. i \in Heads'
        BY <1>1, <1>2, <1>3 DEF Heads
      <4>3. CASE i = index
        <5>1. new \in Nodes' /\ nodes'[new].next = p
          BY <1>1, <1>2, <1>3, <1>6, <4>1, <4>3 DEF Nodes
        <5> QED
          BY <5>1
      <4>4. CASE i # index
        <5>1. heads'[i] = p
          BY <1>2, <4>1, <4>2, <4>4 DEF Heads
        <5> QED
          BY <4>2, <5>1
      <4> QED
        BY <4>3, <4>4
    <3> QED
      BY <2>2, <3>1, <3>2 DEF ChainInv, NoneLost
  <2> QED
    BY <1>2, <1>3, <1>6, <2>1, <2>2 DEF Nodes
<1> QED
  BY <1>7, <1>8, <1>9 DEF ChainInv

(* A value that is pushed gets a position unless it has one already. *)
LEMMA HashedStep ==
  ASSUME TypeOK, HashInv, NEW value \in Values, HashedPush(value)
  PROVE  TypeOK' /\ HashInv'
<1> DEFINE new == Len(vector) + 1
           All(v) == {i \in Positions : vector[i] = v}
<1>1. /\ vector \in Seq(Values) /\ Len(vector) \in Nat /\ set \subseteq Positions
      /\ \A i \in Positions : i \in Nat /\ i < new
  BY DEF TypeOK, Positions
<1>2. /\ vector' \in Seq(Values) /\ Len(vector') = new
      /\ \A i \in Positions : vector'[i] = vector[i]
      /\ vector'[new] = value
  BY <1>1 DEF HashedPush, Positions
<1>3. Positions' = Positions \cup {new} /\ new \notin Positions
  BY <1>1, <1>2 DEF Positions
<1>4. set' = IF Matches(value) = {} THEN set \cup {new} ELSE set
  BY DEF HashedPush
<1>5. UNCHANGED <<offset_, nodes, heads>>
  BY DEF HashedPush, linked
<1>6. \A v \in Values : Matches(v) = {i \in All(v) : \A j \in All(v) : i <= j}
  BY DEF HashInv, FindsFirst
<1> HIDE DEF new
<1>7. TypeOK'
  BY <1>1, <1>2, <1>3, <1>4, <1>5 DEF TypeOK, Nodes, Heads
<1>8. ASSUME NEW v \in Values
      PROVE  LET all == {i \in Positions' : vector'[i] = v}
             IN {i \in set' : vector'[i] = v} = {i \in all : \A j \in all : i <= j}
  <2>1. CASE v # value
    <3>1. {i \in Positions' : vector'[i] = v} = All(v)
      BY <1>2, <1>3, <2>1
    <3>2. {i \in set' : vector'[i] = v} = Matches(v)
      BY <1>1, <1>2, <1>3, <1>4, <2>1 DEF Matches
    <3> QED
      BY <1>6, <3>1, <3>2
  <2>2. CASE v = value
    <3>1. {i \in Positions' : vector'[i] = v} = All(v) \cup {new}
      BY <1>2, <1>3, <2>2
    <3>2. CASE Matches(v) = {}
      <4>1. {i \in set' : vector'[i] = v} = {new}
        BY <1>1, <1>2, <1>3, <1>4, <2>2, <3>2 DEF Matches
      <4>2. All(v) = {}
        BY <3>2 DEF HashInv, Covered, Matches
      <4> QED
        BY <1>1, <3>1, <4>1, <4>2 DEF new
    <3>3. CASE Matches(v) # {}
      <4>1. {i \in set' : vector'[i] = v} = Matches(v)
        BY <1>1, <1>2, <1>3, <1>4, <2>2, <3>3 DEF Matches
      <4>2. PICK first \in All(v) : \A j \in All(v) : first <= j
        BY <1>6, <3>3
      <4>3. first < new
        BY <1>1, <4>2
      <4> QED
        BY <1>1, <1>6, <3>1, <4>1, <4>2, <4>3 DEF new
    <3> QED
      BY <3>2, <3>3
  <2> QED
    BY <2>1, <2>2
<1>9. FindsFirst'
  BY <1>8 DEF FindsFirst, Matches
<1>10. Covered'
  <2> SUFFICES ASSUME NEW p \in Positions \cup {new}
               PROVE  \E i \in set' : i <= p /\ vector'[i] = vector'[p]
    BY <1>3 DEF Covered
  <2>1. CASE p \in Positions
    <3>1. PICK i \in set : i <= p /\ vector[i] = vector[p]
      BY <2>1 DEF HashInv, Covered
    <3> QED
      BY <1>1, <1>2, <1>4, <2>1, <3>1
  <2>2. CASE p = new /\ Matches(value) = {}
    BY <1>1, <1>4, <2>2 DEF new
  <2>3. CASE p = new /\ Matches(value) # {}
    <3>1. PICK i \in set : vector[i] = value
      BY <2>3 DEF Matches
    <3>2. i \in Positions /\ i <= new
      BY <1>1, <3>1 DEF new
    <3> QED
      BY <1>2, <1>4, <2>3, <3>1, <3>2
  <2> QED
    BY <2>1, <2>2, <2>3
<1> QED
  BY <1>7, <1>9, <1>10 DEF HashInv
-----------------------------------------------------------------------------
(* Rising offsets make the result of upper_bound the only one, so that the *)
(* entry before it is the one the offset is in.                            *)
LEMMA IndexUnique == TypeOK /\ RisingOffsets => IndexInverts
<1> SUFFICES ASSUME TypeOK, RisingOffsets, NEW i \in 0 .. Size - 1,
                    NEW offset \in Offset(i) .. Offset(i) + SizeOf(i) - 1
             PROVE  Index(offset) = i
  BY DEF IndexInverts
<1> DEFINE len == Len(offset_)
           above(p) == /\ \A k \in 1 .. p - 1 : offset_[k] <= offset
                       /\ \A k \in p .. len : offset_[k] > offset
<1>1. /\ len \in Nat \ {0} /\ \A k \in 1 .. len : offset_[k] \in Nat
      /\ \A k, l \in 1 .. len : k <= l => offset_[k] <= offset_[l]
  <2>1. offset_ \in Seq(Nat) /\ len > 0
    BY DEF TypeOK
  <2> QED
    BY <2>1, SeqElements DEF RisingOffsets, Entries
<1>2. i \in Nat /\ i + 2 \in 1 .. len /\ i + 1 \in 1 .. len
  BY <1>1 DEF Size
<1>3. offset \in Nat /\ offset_[i + 1] <= offset /\ offset < offset_[i + 2]
  BY <1>1, <1>2 DEF Offset, SizeOf
<1> HIDE DEF len
<1>4. above(i + 2)
  <2>1. ASSUME NEW k \in 1 .. (i + 2) - 1 PROVE offset_[k] <= offset
    <3>1. k \in 1 .. len /\ k <= i + 1
      BY <1>1, <1>2
    <3>2. offset_[k] \in Nat /\ offset_[i + 1] \in Nat /\ offset_[k] <= offset_[i + 1]
      BY <1>1, <1>2, <3>1
    <3> QED
      BY <1>3, <3>2
  <2>2. ASSUME NEW k \in i + 2 .. len PROVE offset_[k] > offset
    <3>1. k \in 1 .. len /\ i + 2 <= k
      BY <1>1, <1>2
    <3>2. offset_[k] \in Nat /\ offset_[i + 2] \in Nat /\ offset_[i + 2] <= offset_[k]
      BY <1>1, <1>2, <3>1
    <3> QED
      BY <1>3, <3>2
  <2> QED
    BY <2>1, <2>2
<1>5. \A p \in 1 .. len + 1 : above(p) => p = i + 2
  <2> SUFFICES ASSUME NEW p \in 1 .. len + 1, above(p), p # i + 2
               PROVE  FALSE
    OBVIOUS
  <2>1. CASE p < i + 2
    <3>1. i + 1 \in p .. len
      BY <1>1, <1>2, <2>1
    <3>2. offset_[i + 1] > offset
      BY <3>1
    <3> QED
      BY <1>1, <1>2, <1>3, <3>2
  <2>2. CASE p > i + 2
    <3>1. i + 2 \in 1 .. p - 1
      BY <1>1, <1>2, <2>2
    <3>2. offset_[i + 2] <= offset
      BY <3>1
    <3> QED
      BY <1>1, <1>2, <1>3, <3>2
  <2> QED
    BY <1>2, <2>1, <2>2
<1>6. UpperBound(offset) = CHOOSE p \in 1 .. len + 1 : above(p)
  BY DEF UpperBound, len
<1>7. i + 2 \in 1 .. len + 1
  BY <1>1, <1>2
<1> HIDE DEF above
<1>8. UpperBound(offset) = i + 2
  BY <1>4, <1>5, <1>6, <1>7
<1> QED
  BY <1>2, <1>8 DEF Index
-----------------------------------------------------------------------------
(* Each structure is touched by its own steps only. *)
LEMMA NextInv == Inv /\ [Next]_vars => Inv'
<1> SUFFICES ASSUME Inv, [Next]_vars PROVE Inv'
  OBVIOUS
<1> USE DEF Inv
<1>1. CASE (\E n \in Sizes : PushBack(n)) \/ (\E n \in 0 .. Size : Truncate(n))
  <2>1. /\ offset_' \in Seq(Nat) /\ Len(offset_') > 0
        /\ RisingOffsets'
        /\ nodes' = nodes /\ heads' = heads /\ vector' = vector /\ set' = set
    BY <1>1, LenStep DEF linked, hashed
  <2>2. TypeOK'
    BY <2>1 DEF TypeOK, Nodes, Heads, Positions
  <2>3. ChainInv'
    BY <2>1 DEF ChainInv, NotShared, NoneLost, Nodes, Heads
  <2>4. HashInv'
    BY <2>1 DEF HashInv, FindsFirst, Covered, Matches, Positions
  <2> QED
    BY <2>1, <2>2, <2>3, <2>4
<1>2. ASSUME NEW index \in 1 .. MaxIndex, NEW value \in Values, Add(index, value)
      PROVE  Inv'
  <2>1. offset_' = offset_ /\ vector' = vector /\ set' = set
    BY <1>2 DEF Add, hashed
  <2>2. TypeOK' /\ ChainInv'
    BY <1>2, AddStep
  <2>3. RisingOffsets'
    BY <2>1 DEF RisingOffsets, Entries
  <2>4. HashInv'
    BY <2>1 DEF HashInv, FindsFirst, Covered, Matches, Positions
  <2> QED
    BY <2>2, <2>3, <2>4
<1>3. ASSUME NEW value \in Values, HashedPush(value)
      PROVE  Inv'
  <2>1. offset_' = offset_ /\ nodes' = nodes /\ heads' = heads
    BY <1>3 DEF HashedPush, linked
  <2>2. TypeOK' /\ HashInv'
    BY <1>3, HashedStep
  <2>3. RisingOffsets'
    BY <2>1 DEF RisingOffsets, Entries
  <2>4. ChainInv'
    BY <2>1 DEF ChainInv, NotShared, NoneLost, Nodes, Heads
  <2> QED
    BY <2>2, <2>3, <2>4
<1>4. CASE UNCHANGED vars
  <2>1. /\ offset_' = offset_ /\ nodes' = nodes /\ heads' = heads
        /\ vector' = vector /\ set' = set
    BY <1>4 DEF vars
  <2>2. TypeOK'
    BY <2>1 DEF TypeOK, Nodes, Heads, Positions
  <2>3. RisingOffsets'
    BY <2>1 DEF RisingOffsets, Entries
  <2>4. ChainInv'
    BY <2>1 DEF ChainInv, NotShared, NoneLost, Nodes, Heads
  <2>5. HashInv'
    BY <2>1 DEF HashInv, FindsFirst, Covered, Matches, Positions
  <2> QED
    BY <2>2, <2>3, <2>4, <2>5
<1> QED
  BY <1>1, <1>2, <1>3, <1>4 DEF Next

(* The invariant of the three structures always holds. *)
THEOREM Invariance == Spec => []Inv
<1> QED
  BY InitInv, NextInv, PTL DEF Spec

(* Offsets, nodes, heads and positions are always in range, and a list     *)
(* goes on to older nodes only, so that every iteration of Range ends.     *)
THEOREM TypeCorrect == Spec => []TypeOK
<1>1. Inv => TypeOK
  BY DEF Inv
<1> QED
  BY <1>1, Invariance, PTL

(* Len::index always gives the entry an offset is in, although entries may *)
(* be empty and were cut and pushed again.                                 *)
THEOREM IndexInvertsAlways == Spec => []IndexInverts
<1>1. Inv => IndexInverts
  BY IndexUnique DEF Inv
<1> QED
  BY <1>1, Invariance, PTL

(* A node that Vector::add makes for one list never becomes a part of      *)
(* another one, however many lists share the nodes.                        *)
THEOREM NotSharedAlways == Spec => []NotShared
<1>1. Inv => NotShared
  BY DEF Inv, ChainInv
<1> QED
  BY <1>1, Invariance, PTL

(* Whatever Vector::add was given stays reachable from some list. *)
THEOREM NoneLostAlways == Spec => []NoneLost
<1>1. Inv => NoneLost
  BY DEF Inv, ChainInv
<1> QED
  BY <1>1, Invariance, PTL

(* Hashed::find always gives the first position of a value. *)
THEOREM FindsFirstAlways == Spec => []FindsFirst
<1>1. Inv => FindsFirst
  BY DEF Inv, HashInv
<1> QED
  BY <1>1, Invariance, PTL
-----------------------------------------------------------------------------
(* One call of ValuesFrom, given f for the call in it.                     *)
Walk(f) ==
  [head \in 0 .. Len(nodes) |->
     IF head = null THEN <<>> ELSE <<nodes[head].value>> \o f[nodes[head].next]]

(* ValuesFrom is a function, because every node comes after its next one.  *)
LEMMA WalkExists ==
  ASSUME TypeOK
  PROVE  \E f \in [0 .. Len(nodes) -> Seq(Values)] : f = Walk(f)
<1> DEFINE D == 0 .. Len(nodes)
           V == Seq(Values)
           measure == [head \in D |-> head]
           stop == {null}
           base == [head \in D |-> <<>>]
           next == [head \in D |-> IF head = null THEN null ELSE nodes[head].next]
           combine == [x \in D \X V |-> IF x[1] = null THEN <<>>
                                        ELSE <<nodes[x[1]].value>> \o x[2]]
<1>1. Len(nodes) \in Nat /\ \A p \in Nodes : nodes[p].next \in Nat /\ nodes[p].next < p
  BY Typed
<1>2. \A p \in Nodes : nodes[p].value \in Values
  <2>1. nodes \in Seq([value : Values, next : Nat])
    BY DEF TypeOK
  <2>2. \A p \in Nodes : nodes[p] \in [value : Values, next : Nat]
    BY <2>1, SeqElements DEF Nodes
  <2> QED
    BY <2>2
<1>3. \A head \in D : head # null => head \in Nodes
  BY <1>1 DEF null, Nodes
<1>4. \A head \in D : head # null => nodes[head].next \in D /\ nodes[head].next < head
  BY <1>1, <1>3
<1>5. null \in D
  BY <1>1 DEF null
<1>6. measure \in [D -> Nat]
  BY <1>1
<1>7. base \in [D -> V] /\ next \in [D -> D]
  BY <1>4, <1>5
<1>8. combine \in [D \X V -> V]
  <2>1. ASSUME NEW head \in D, NEW v \in V, head # null
        PROVE  <<nodes[head].value>> \o v \in V
    BY <1>2, <1>3, <2>1
  <2>2. <<>> \in V
    OBVIOUS
  <2> HIDE DEF D, V
  <2> QED
    BY <2>1, <2>2
<1>9. Falls(D, measure, stop, next)
  BY <1>4 DEF Falls
<1> HIDE DEF D, V, measure, stop, base, next, combine
<1>10. PICK f \in [D -> V] : Recursive(f, D, stop, base, next, combine)
  BY <1>6, <1>7, <1>8, <1>9, RecursionExists
<1>11. ASSUME NEW head \in D
       PROVE  f[head] = IF head = null THEN <<>> ELSE <<nodes[head].value>> \o f[nodes[head].next]
  <2>1. f[head] = IF head \in stop THEN base[head] ELSE combine[<<head, f[next[head]]>>]
    BY <1>10 DEF Recursive
  <2>2. CASE head = null
    BY <2>1, <2>2 DEF stop, base
  <2>3. CASE head # null
    <3> DEFINE v == f[next[head]]
    <3>1. next[head] = nodes[head].next /\ next[head] \in D /\ head \notin stop
      BY <1>7, <2>3 DEF next, stop
    <3>2. v \in V
      BY <3>1
    <3> HIDE DEF v
    <3>3. <<head, v>> \in D \X V /\ <<head, v>>[1] = head /\ <<head, v>>[2] = v
      BY <3>2
    <3>4. combine[<<head, v>>] = <<nodes[head].value>> \o v
      BY <2>3, <3>3 DEF combine
    <3>5. f[head] = combine[<<head, v>>]
      BY <2>1, <3>1 DEF v
    <3> QED
      BY <2>3, <3>1, <3>4, <3>5 DEF v
  <2> QED
    BY <2>2, <2>3
<1>12. f = Walk(f)
  <2>1. f = [head \in D |-> f[head]]
    OBVIOUS
  <2> QED
    BY <1>11, <2>1 DEF Walk, D
<1> QED
  BY <1>12 DEF D, V

(* What ValuesFrom is, without the CHOOSE of a recursive definition.       *)
Walks ==
  \A head \in 0 .. Len(nodes) :
    /\ ValuesFrom[head] = IF head = null THEN <<>>
                          ELSE <<nodes[head].value>> \o ValuesFrom[nodes[head].next]
    /\ ValuesFrom[head] \in Seq(Values)

(* It gives the values from a node on, however long the list is.           *)
LEMMA ValuesFromIs == TypeOK => Walks
<1> SUFFICES ASSUME TypeOK PROVE Walks
  OBVIOUS
<1>1. ValuesFrom = CHOOSE f : f = Walk(f)
  BY DEF ValuesFrom, Walk
<1>2. \E f : f = Walk(f)
  BY WalkExists
<1>3. ValuesFrom = Walk(ValuesFrom)
  BY <1>1, <1>2, Zenon
<1>4. ASSUME NEW head \in 0 .. Len(nodes)
      PROVE  ValuesFrom[head] = IF head = null THEN <<>>
                                ELSE <<nodes[head].value>> \o ValuesFrom[nodes[head].next]
  <2>1. ValuesFrom[head] = Walk(ValuesFrom)[head]
    BY <1>3
  <2> QED
    BY <2>1 DEF Walk
<1> DEFINE S == {n \in Nat : \A head \in 0 .. Len(nodes) :
                               head <= n => ValuesFrom[head] \in Seq(Values)}
<1>5. Len(nodes) \in Nat /\ \A p \in Nodes : nodes[p].next \in Nat /\ nodes[p].next < p
  BY Typed
<1>6. \A p \in Nodes : nodes[p].value \in Values
  <2>1. nodes \in Seq([value : Values, next : Nat])
    BY DEF TypeOK
  <2>2. \A p \in Nodes : nodes[p] \in [value : Values, next : Nat]
    BY <2>1, SeqElements DEF Nodes
  <2> QED
    BY <2>2
<1>7. 0 \in S
  <2>1. ASSUME NEW head \in 0 .. Len(nodes), head <= 0 PROVE ValuesFrom[head] \in Seq(Values)
    <3>1. head = null
      BY <1>5, <2>1 DEF null
    <3>2. ValuesFrom[head] = <<>>
      BY <1>4, <3>1
    <3> QED
      BY <3>2
  <2> QED
    BY <2>1
<1>8. ASSUME NEW n \in Nat, n \in S PROVE n + 1 \in S
  <2> SUFFICES ASSUME NEW head \in 0 .. Len(nodes), head <= n + 1
               PROVE  ValuesFrom[head] \in Seq(Values)
    OBVIOUS
  <2>1. CASE head = null
    <3>1. ValuesFrom[head] = <<>>
      BY <1>4, <2>1
    <3> QED
      BY <3>1
  <2>2. CASE head # null
    <3>1. head \in Nodes
      BY <1>5, <2>2 DEF null, Nodes
    <3>2. nodes[head].next \in 0 .. Len(nodes) /\ nodes[head].next <= n
      BY <1>5, <3>1
    <3> DEFINE v == ValuesFrom[nodes[head].next]
    <3>3. v \in Seq(Values)
      BY <1>8, <3>2
    <3>4. ValuesFrom[head] = <<nodes[head].value>> \o v
      BY <1>4, <2>2
    <3>5. nodes[head].value \in Values
      BY <1>6, <3>1
    <3> HIDE DEF v
    <3> QED
      BY <3>3, <3>4, <3>5
  <2> QED
    BY <2>1, <2>2
<1> HIDE DEF S
<1>9. Nat \subseteq S
  BY <1>7, <1>8, SetInduction
<1>10. \A head \in 0 .. Len(nodes) : ValuesFrom[head] \in Seq(Values)
  <2> TAKE head \in 0 .. Len(nodes)
  <2>1. head \in Nat /\ head <= head
    BY <1>5
  <2>2. head \in S
    BY <1>9, <2>1
  <2> QED
    BY <2>1, <2>2 DEF S
<1> QED
  BY <1>4, <1>10 DEF Walks

(* A step that keeps the nodes, whatever it adds, keeps their values.      *)
LEMMA ValuesStay ==
  ASSUME TypeOK, TypeOK', Len(nodes) <= Len(nodes'), \A p \in Nodes : nodes'[p] = nodes[p]
  PROVE  \A head \in 0 .. Len(nodes) : ValuesFrom'[head] = ValuesFrom[head]
<1>1. \A head \in 0 .. Len(nodes) :
        ValuesFrom[head] = IF head = null THEN <<>>
                           ELSE <<nodes[head].value>> \o ValuesFrom[nodes[head].next]
  BY ValuesFromIs DEF Walks
<1>2. \A head \in 0 .. Len(nodes') :
        ValuesFrom'[head] = IF head = null THEN <<>>
                            ELSE <<nodes'[head].value>> \o ValuesFrom'[nodes'[head].next]
  <2>1. TypeOK' => Walks'
    BY ValuesFromIs, PTL
  <2> QED
    BY <2>1 DEF Walks
<1>3. Len(nodes) \in Nat /\ \A p \in Nodes : nodes[p].next \in Nat /\ nodes[p].next < p
  BY Typed
<1>4. Len(nodes') \in Nat
  BY DEF TypeOK
<1>5. \A head \in 0 .. Len(nodes) : head \in 0 .. Len(nodes')
  BY <1>3, <1>4
<1> DEFINE S == {n \in Nat : \A head \in 0 .. Len(nodes) :
                               head <= n => ValuesFrom'[head] = ValuesFrom[head]}
<1>6. 0 \in S
  <2>1. ASSUME NEW head \in 0 .. Len(nodes), head <= 0 PROVE ValuesFrom'[head] = ValuesFrom[head]
    <3>1. head = null
      BY <1>3, <2>1 DEF null
    <3> QED
      BY <1>1, <1>2, <1>5, <3>1
  <2> QED
    BY <2>1
<1>7. ASSUME NEW n \in Nat, n \in S PROVE n + 1 \in S
  <2> SUFFICES ASSUME NEW head \in 0 .. Len(nodes), head <= n + 1
               PROVE  ValuesFrom'[head] = ValuesFrom[head]
    OBVIOUS
  <2>1. CASE head = null
    BY <1>1, <1>2, <1>5, <2>1
  <2>2. CASE head # null
    <3>1. head \in Nodes /\ nodes'[head] = nodes[head]
      BY <1>3, <2>2 DEF null, Nodes
    <3> DEFINE next == nodes[head].next
    <3>2. next \in 0 .. Len(nodes) /\ next <= n
      BY <1>3, <3>1
    <3>3. ValuesFrom'[next] = ValuesFrom[next]
      BY <1>7, <3>2
    <3>4. ValuesFrom[head] = <<nodes[head].value>> \o ValuesFrom[next]
      BY <1>1, <2>2
    <3>5. ValuesFrom'[head] = <<nodes[head].value>> \o ValuesFrom'[next]
      BY <1>2, <1>5, <2>2, <3>1
    <3> QED
      BY <3>3, <3>4, <3>5
  <2> QED
    BY <2>1, <2>2
<1> HIDE DEF S
<1>8. Nat \subseteq S
  BY <1>6, <1>7, SetInduction
<1> QED
  <2> TAKE head \in 0 .. Len(nodes)
  <2>1. head \in Nat /\ head <= head
    BY <1>3
  <2>2. head \in S
    BY <1>8, <2>1
  <2> QED
    BY <2>1, <2>2 DEF S

(* The three parts of the contents.                                        *)
SizesNow  == [i \in 1 .. Size |-> offset_[i + 1] - offset_[i]]
ListsNow  == [i \in 1 .. MaxIndex |-> ListOf(i)]
PlacesNow == [v \in Values |-> Matches(v)]

(* What each of them does, in these terms.                                 *)
LEMMA ContentsNext ==
  Contents!Next <=>
    \/ /\ \E n \in Sizes : SizesNow' = Append(SizesNow, n)
       /\ ListsNow' = ListsNow /\ PlacesNow' = PlacesNow
    \/ /\ \E n \in 0 .. Len(SizesNow) : SizesNow' = SubSeq(SizesNow, 1, n)
       /\ ListsNow' = ListsNow /\ PlacesNow' = PlacesNow
    \/ /\ \E i \in 1 .. MaxIndex, v \in Values :
            ListsNow' = [ListsNow EXCEPT ![i] = <<v>> \o @]
       /\ SizesNow' = SizesNow /\ PlacesNow' = PlacesNow
    \/ /\ \E v \in Values :
            /\ PlacesNow[v] = {}
            /\ PlacesNow'[v] # {}
            /\ PlacesNow' = [PlacesNow EXCEPT ![v] = PlacesNow'[v]]
            /\ \A w \in Values \ {v} : PlacesNow[w] \cap PlacesNow'[v] = {}
       /\ SizesNow' = SizesNow /\ ListsNow' = ListsNow
BY DEF Contents!Next, Contents!Grow, Contents!Shorten, Contents!Add, Contents!Place,
       SizesNow, ListsNow, PlacesNow

(* A step that Containers does not see leaves all three of them alone.     *)
LEMMA ContentsVars ==
  (UNCHANGED Contents!vars) <=>
    SizesNow' = SizesNow /\ ListsNow' = ListsNow /\ PlacesNow' = PlacesNow
BY DEF Contents!vars, SizesNow, ListsNow, PlacesNow

(* Each of them is made from the variables of one structure only: what the *)
(* others do is a stutter of it.  Here for Len,                            *)
LEMMA SameSizes ==
  ASSUME offset_' = offset_
  PROVE  SizesNow' = SizesNow
BY DEF SizesNow, Size

(* for Hashed,                                                             *)
LEMMA SamePlaces ==
  ASSUME UNCHANGED hashed
  PROVE  PlacesNow' = PlacesNow
BY DEF PlacesNow, Matches, hashed

(* and for Linked, whose ValuesFrom is a function of the nodes.            *)
LEMMA SameLists ==
  ASSUME TypeOK, TypeOK', UNCHANGED linked
  PROVE  ListsNow' = ListsNow
<1>1. nodes' = nodes /\ heads' = heads
  BY DEF linked
<1>2. Len(nodes) \in Nat /\ \A i \in Heads : heads[i] \in Nat /\ heads[i] <= Len(nodes)
  BY Typed
<1>3. \A head \in 0 .. Len(nodes) : ValuesFrom'[head] = ValuesFrom[head]
  <2>1. Len(nodes) <= Len(nodes')
    BY <1>1, <1>2
  <2> QED
    BY <1>1, <2>1, ValuesStay
<1>4. ASSUME NEW i \in 1 .. MaxIndex PROVE ListOf(i)' = ListOf(i)
  <2> DEFINE head == IF i <= Len(heads) THEN heads[i] ELSE null
  <2>1. head \in 0 .. Len(nodes)
    BY <1>2 DEF Heads, null
  <2>2. ListOf(i) = ValuesFrom[head] /\ ListOf(i)' = ValuesFrom'[head]
    BY <1>1 DEF ListOf
  <2> QED
    BY <1>3, <2>1, <2>2
<1> QED
  BY <1>4 DEF ListsNow

(* Sizes are pushed and cut at the end.                                    *)
LEMMA LenRefines ==
  ASSUME TypeOK
  PROVE  /\ \A n \in Sizes : PushBack(n) => SizesNow' = Append(SizesNow, n)
         /\ \A n \in 0 .. Size : Truncate(n) =>
              n \in 0 .. Len(SizesNow) /\ SizesNow' = SubSeq(SizesNow, 1, n)
<1>1. offset_ \in Seq(Nat) /\ Len(offset_) \in Nat /\ Len(offset_) > 0
  BY DEF TypeOK
<1>2. Size \in Nat /\ Len(offset_) = Size + 1
  BY <1>1 DEF Size
<1>3. \A i \in 1 .. Size : i \in 1 .. Len(offset_) /\ i + 1 \in 1 .. Len(offset_)
  BY <1>2
<1>4. \A i \in 1 .. Size : offset_[i + 1] - offset_[i] \in Int
  <2> TAKE i \in 1 .. Size
  <2>1. offset_[i] \in Nat /\ offset_[i + 1] \in Nat
    BY <1>1, <1>3
  <2> QED
    BY <2>1
<1>5. SizesNow \in Seq(Int) /\ Len(SizesNow) = Size
        /\ \A i \in 1 .. Size : SizesNow[i] = offset_[i + 1] - offset_[i]
  BY <1>2, <1>4 DEF SizesNow
<1>6. ASSUME NEW n \in Sizes, PushBack(n) PROVE SizesNow' = Append(SizesNow, n)
  <2>1. n \in Nat
    BY ConstantsAssumption DEF ConstantsAssumption
  <2>2. SizeBytes \in Nat /\ SizeBytes = offset_[Size + 1]
    BY <1>1, <1>2 DEF SizeBytes
  <2> DEFINE m == SizeBytes + n
  <2>3. offset_' = Append(offset_, m) /\ m \in Nat
    BY <1>6, <2>1, <2>2 DEF PushBack
  <2> HIDE DEF m
  <2>4. /\ Len(offset_') = Size + 2
        /\ \A i \in 1 .. Size + 1 : offset_'[i] = offset_[i]
        /\ offset_'[Size + 2] = m
    BY <1>1, <1>2, <2>3
  <2>5. Size' = Size + 1
    BY <1>2, <2>4 DEF Size
  <2>6. SizesNow' = [i \in 1 .. Size + 1 |-> offset_'[i + 1] - offset_'[i]]
    BY <2>5 DEF SizesNow
  <2>7. \A i \in 1 .. Size : offset_'[i + 1] - offset_'[i] = SizesNow[i]
    BY <1>2, <1>5, <2>4
  <2>8. offset_'[Size + 1 + 1] - offset_'[Size + 1] = n
    <3>1. Size + 1 + 1 = Size + 2 /\ Size + 1 \in 1 .. Size + 1
      BY <1>2
    <3>2. offset_'[Size + 1 + 1] = m /\ offset_'[Size + 1] = SizeBytes
      BY <2>2, <2>4, <3>1
    <3> QED
      BY <2>1, <2>2, <3>2 DEF m
  <2>9. \A i \in 1 .. Size + 1 :
          offset_'[i + 1] - offset_'[i] = IF i = Size + 1 THEN n ELSE SizesNow[i]
    <3>1. \A i \in 1 .. Size + 1 : i \in 1 .. Size \/ i = Size + 1
      BY <1>2
    <3>2. \A i \in 1 .. Size : i # Size + 1
      BY <1>2
    <3> QED
      BY <2>7, <2>8, <3>1, <3>2
  <2>10. SizesNow' = [i \in 1 .. Size + 1 |-> IF i = Size + 1 THEN n ELSE SizesNow[i]]
    BY <2>6, <2>9
  <2>11. Append(SizesNow, n) = [i \in 1 .. Size + 1 |-> IF i = Size + 1 THEN n ELSE SizesNow[i]]
    <3> DEFINE s == SizesNow
    <3>1. s \in Seq(Int) /\ Len(s) = Size /\ n \in Int /\ Size \in Nat
      BY <1>2, <1>5, <2>1
    <3> HIDE DEF s
    <3>2. /\ Append(s, n) \in Seq(Int) /\ Len(Append(s, n)) = Size + 1
          /\ \A i \in 1 .. Size : Append(s, n)[i] = s[i]
          /\ Append(s, n)[Size + 1] = n
      BY <3>1, AppendProperties
    <3> DEFINE t == Append(s, n)
    <3>3. t \in Seq(Int) /\ Len(t) = Size + 1
      BY <3>2
    <3> HIDE DEF t
    <3>4. t \in [1 .. Len(t) -> Int]
      BY <3>3, LenProperties
    <3>5. t = [i \in 1 .. Size + 1 |-> t[i]]
      BY <3>3, <3>4, Zenon
    <3>6. Append(s, n) = [i \in 1 .. Size + 1 |-> Append(s, n)[i]]
      BY <3>5, Zenon DEF t
    <3>7. \A i \in 1 .. Size + 1 : Append(s, n)[i] = IF i = Size + 1 THEN n ELSE s[i]
      BY <3>1, <3>2
    <3>8. Append(s, n) = [i \in 1 .. Size + 1 |-> IF i = Size + 1 THEN n ELSE s[i]]
      BY <3>6, <3>7
    <3> QED
      BY <3>8 DEF s
  <2> QED
    BY <2>10, <2>11
<1>7. ASSUME NEW n \in 0 .. Size, Truncate(n)
      PROVE  n \in 0 .. Len(SizesNow) /\ SizesNow' = SubSeq(SizesNow, 1, n)
  <2>1. offset_' = SubSeq(offset_, 1, n + 1) /\ n + 1 \in 1 .. Len(offset_) /\ n \in Nat
    BY <1>2, <1>7 DEF Truncate
  <2>2. Len(offset_') = n + 1 /\ \A i \in 1 .. n + 1 : offset_'[i] = offset_[i]
    BY <1>1, <1>2, <2>1
  <2>3. Size' = n
    BY <2>1, <2>2 DEF Size
  <2>4. SizesNow' = [i \in 1 .. n |-> offset_'[i + 1] - offset_'[i]]
    BY <2>3 DEF SizesNow
  <2>5. \A i \in 1 .. n : offset_'[i + 1] - offset_'[i] = SizesNow[i]
    BY <1>2, <1>5, <2>1, <2>2
  <2>6. SizesNow' = [i \in 1 .. n |-> SizesNow[i]]
    BY <2>4, <2>5
  <2>7. SubSeq(SizesNow, 1, n) = [i \in 1 .. n |-> SizesNow[i]]
    BY <1>2, <1>5, <2>1
  <2> QED
    BY <1>5, <2>6, <2>7
<1> QED
  BY <1>6, <1>7

(* A value goes before one list; the others stay.                          *)
LEMMA AddRefines ==
  ASSUME TypeOK, TypeOK', NEW index \in 1 .. MaxIndex, NEW value \in Values, Add(index, value)
  PROVE  ListsNow' = [ListsNow EXCEPT ![index] = <<value>> \o @]
<1> DEFINE new == Len(nodes) + 1
           old == Resized(index)[index]
<1>1. /\ Len(nodes') = new /\ \A p \in Nodes : nodes'[p] = nodes[p]
      /\ nodes'[new].next = old
      /\ Len(heads') = Len(Resized(index))
      /\ heads'[index] = new
      /\ \A i \in 1 .. Len(heads') :
           i # index => heads'[i] = IF i \in Heads THEN heads[i] ELSE null
  BY AddEffect
<1>2. /\ index \in 1 .. Len(Resized(index)) /\ Len(heads) <= Len(Resized(index))
      /\ Resized(index) \in Seq(Nat)
      /\ Resized(index)[index] = IF index \in Heads THEN heads[index] ELSE null
  BY ResizedHeads
<1>3. /\ Len(nodes) \in Nat /\ Len(heads) \in Nat
      /\ \A i \in Heads : heads[i] \in Nat /\ heads[i] <= Len(nodes)
  BY Typed
<1>4. nodes'[new].value = value
  <2>1. nodes' = Append(nodes, [value |-> value, next |-> old])
    BY DEF Add
  <2>2. nodes \in Seq([value : Values, next : Nat])
    BY DEF TypeOK
  <2> HIDE DEF old
  <2> QED
    BY <1>3, <2>1, <2>2
<1> HIDE DEF new, old
<1>5. new = Len(nodes) + 1
  BY DEF new
<1>6. \A head \in 0 .. Len(nodes) : ValuesFrom'[head] = ValuesFrom[head]
  <2>1. Len(nodes) <= Len(nodes')
    BY <1>1, <1>3, <1>5
  <2> QED
    BY <1>1, <2>1, ValuesStay
<1>7. old \in 0 .. Len(nodes)
  BY <1>2, <1>3 DEF old, null
<1>8. ListOf(index) = ValuesFrom[old]
  <2>1. old = IF index <= Len(heads) THEN heads[index] ELSE null
    BY <1>2, <1>3 DEF old, Heads
  <2> QED
    BY <2>1 DEF ListOf
<1>9. ListOf(index)' = <<value>> \o ListOf(index)
  <2>1. index <= Len(heads') /\ new \in 0 .. Len(nodes') /\ new # null
    BY <1>1, <1>2, <1>3, <1>5 DEF null
  <2>2. ListOf(index)' = ValuesFrom'[new]
    BY <1>1, <2>1 DEF ListOf
  <2>3. TypeOK' => Walks'
    BY ValuesFromIs, PTL
  <2>4. ValuesFrom'[new] = <<nodes'[new].value>> \o ValuesFrom'[nodes'[new].next]
    BY <2>1, <2>3 DEF Walks
  <2>5. ValuesFrom'[nodes'[new].next] = ValuesFrom[old]
    BY <1>1, <1>6, <1>7
  <2> QED
    BY <1>4, <1>8, <2>2, <2>4, <2>5
<1>10. ASSUME NEW i \in 1 .. MaxIndex, i # index PROVE ListOf(i)' = ListOf(i)
  <2> DEFINE head == IF i <= Len(heads) THEN heads[i] ELSE null
             head2 == IF i <= Len(heads') THEN heads'[i] ELSE null
  <2>1. head \in 0 .. Len(nodes)
    BY <1>3 DEF Heads, null
  <2>2. head2 = head
    <3>1. CASE i <= Len(heads')
      <4>1. i \in 1 .. Len(heads')
        BY <1>1, <1>2, <3>1
      <4>2. heads'[i] = IF i \in Heads THEN heads[i] ELSE null
        BY <1>1, <1>10, <4>1
      <4> QED
        BY <1>3, <3>1, <4>2 DEF Heads
    <3>2. CASE ~(i <= Len(heads'))
      <4>1. Len(heads') \in Nat /\ Len(heads) <= Len(heads')
        BY <1>1, <1>2
      <4>2. ~(i <= Len(heads))
        BY <1>3, <3>2, <4>1
      <4> QED
        BY <3>2, <4>2
    <3> QED
      BY <3>1, <3>2
  <2>3. ListOf(i) = ValuesFrom[head] /\ ListOf(i)' = ValuesFrom'[head2]
    BY DEF ListOf
  <2> QED
    BY <1>6, <2>1, <2>2, <2>3
<1> HIDE DEF Add
<1>11. ListsNow' = [i \in 1 .. MaxIndex |-> IF i = index THEN <<value>> \o ListOf(i) ELSE ListOf(i)]
  <2>1. ListsNow' = [i \in 1 .. MaxIndex |-> ListOf(i)']
    BY DEF ListsNow
  <2>2. \A i \in 1 .. MaxIndex :
          ListOf(i)' = IF i = index THEN <<value>> \o ListOf(i) ELSE ListOf(i)
    BY <1>9, <1>10
  <2> QED
    BY <2>1, <2>2
<1>12. [ListsNow EXCEPT ![index] = <<value>> \o @] =
         [i \in 1 .. MaxIndex |-> IF i = index THEN <<value>> \o ListOf(i) ELSE ListOf(i)]
  BY DEF ListsNow
<1> QED
  BY <1>11, <1>12

(* A value that is found nowhere gets a place of its own; another push     *)
(* changes nothing of what is found.                                       *)
LEMMA HashedRefines ==
  ASSUME TypeOK, NEW value \in Values, HashedPush(value)
  PROVE  \/ PlacesNow' = PlacesNow
         \/ /\ PlacesNow[value] = {}
            /\ PlacesNow'[value] # {}
            /\ PlacesNow' = [PlacesNow EXCEPT ![value] = PlacesNow'[value]]
            /\ \A w \in Values \ {value} : PlacesNow[w] \cap PlacesNow'[value] = {}
<1> DEFINE new == Len(vector) + 1
<1>1. vector \in Seq(Values) /\ Len(vector) \in Nat /\ set \subseteq 1 .. Len(vector)
  BY DEF TypeOK, Positions
<1>2. vector' = Append(vector, value)
  BY DEF HashedPush
<1>3. (\A i \in set : vector'[i] = vector[i]) /\ vector'[new] = value /\ new \notin set
  BY <1>1, <1>2
<1>4. set' = IF Matches(value) = {} THEN set \cup {new} ELSE set
  BY DEF HashedPush
<1> HIDE DEF new
<1>5. CASE Matches(value) # {}
  <2>1. set' = set
    BY <1>4, <1>5
  <2>2. \A v \in Values : Matches(v)' = Matches(v)
    BY <1>3, <2>1 DEF Matches
  <2> QED
    BY <2>2 DEF PlacesNow
<1>6. CASE Matches(value) = {}
  <2>1. set' = set \cup {new}
    BY <1>4, <1>6
  <2>2. ASSUME NEW v \in Values, v # value PROVE Matches(v)' = Matches(v)
    BY <1>3, <2>1, <2>2 DEF Matches
  <2>3. Matches(value)' = {new}
    BY <1>3, <1>6, <2>1 DEF Matches
  <2>4. \A w \in Values : new \notin Matches(w)
    BY <1>3 DEF Matches
  <2>5. PlacesNow' = [v \in Values |-> IF v = value THEN {new} ELSE Matches(v)]
    <3>1. PlacesNow' = [v \in Values |-> Matches(v)']
      BY DEF PlacesNow
    <3>2. \A v \in Values : Matches(v)' = IF v = value THEN {new} ELSE Matches(v)
      BY <2>2, <2>3
    <3> QED
      BY <3>1, <3>2
  <2>6. PlacesNow[value] = {} /\ PlacesNow'[value] = {new}
    BY <1>6, <2>5 DEF PlacesNow
  <2>7. PlacesNow' = [PlacesNow EXCEPT ![value] = {new}]
    BY <2>5 DEF PlacesNow
  <2>8. \A w \in Values \ {value} : PlacesNow[w] \cap {new} = {}
    BY <2>4 DEF PlacesNow
  <2> QED
    BY <2>6, <2>7, <2>8
<1> QED
  BY <1>5, <1>6

(* Empty structures stand for empty contents.                              *)
LEMMA InitRefines == Init => Contents!Init
<1> SUFFICES ASSUME Init PROVE Contents!Init
  OBVIOUS
<1>1. Inv
  BY InitInv
<1>2. SizesNow = <<>>
  <2>1. Size = 0
    BY DEF Init, Size
  <2> QED
    BY <2>1 DEF SizesNow
<1>3. ListsNow = [i \in 1 .. MaxIndex |-> <<>>]
  <2>1. Len(nodes) = 0 /\ Len(heads) = 0
    BY DEF Init
  <2>2. ValuesFrom[null] = <<>>
    BY <1>1, <2>1, ValuesFromIs DEF Walks, Inv, null
  <2>3. \A i \in 1 .. MaxIndex : ListOf(i) = <<>>
    BY <2>1, <2>2 DEF ListOf
  <2> QED
    BY <2>3 DEF ListsNow
<1>4. PlacesNow = [v \in Values |-> {}]
  BY DEF Init, PlacesNow, Matches
<1> QED
  BY <1>2, <1>3, <1>4 DEF Contents!Init, SizesNow, ListsNow, PlacesNow

(* Every step of the structures is a step of what they stand for.          *)
LEMMA NextRefines == Inv /\ Inv' /\ [Next]_vars => [Contents!Next]_(Contents!vars)
<1> SUFFICES ASSUME Inv, Inv', [Next]_vars PROVE Contents!Next \/ UNCHANGED Contents!vars
  OBVIOUS
<1>1. TypeOK /\ TypeOK'
  BY DEF Inv
<1>2. ASSUME NEW n \in Sizes, PushBack(n) PROVE Contents!Next
  <2>1. UNCHANGED linked /\ UNCHANGED hashed
    BY <1>2 DEF PushBack
  <2>2. SizesNow' = Append(SizesNow, n)
    BY <1>1, <1>2, LenRefines
  <2> QED
    BY <1>1, <2>1, <2>2, SameLists, SamePlaces, ContentsNext
<1>3. ASSUME NEW n \in 0 .. Size, Truncate(n) PROVE Contents!Next
  <2>1. UNCHANGED linked /\ UNCHANGED hashed
    BY <1>3 DEF Truncate
  <2>2. n \in 0 .. Len(SizesNow) /\ SizesNow' = SubSeq(SizesNow, 1, n)
    BY <1>1, <1>3, LenRefines
  <2> QED
    BY <1>1, <2>1, <2>2, SameLists, SamePlaces, ContentsNext
<1>4. ASSUME NEW index \in 1 .. MaxIndex, NEW value \in Values, Add(index, value)
      PROVE  Contents!Next
  <2>1. offset_' = offset_ /\ UNCHANGED hashed
    BY <1>4 DEF Add
  <2>2. ListsNow' = [ListsNow EXCEPT ![index] = <<value>> \o @]
    BY <1>1, <1>4, AddRefines
  <2> QED
    BY <2>1, <2>2, SameSizes, SamePlaces, ContentsNext
<1>5. ASSUME NEW value \in Values, HashedPush(value)
      PROVE  Contents!Next \/ UNCHANGED Contents!vars
  <2>1. offset_' = offset_ /\ UNCHANGED linked
    BY <1>5 DEF HashedPush
  <2>2. SizesNow' = SizesNow /\ ListsNow' = ListsNow
    BY <1>1, <2>1, SameSizes, SameLists
  <2>3. \/ PlacesNow' = PlacesNow
        \/ /\ PlacesNow[value] = {}
           /\ PlacesNow'[value] # {}
           /\ PlacesNow' = [PlacesNow EXCEPT ![value] = PlacesNow'[value]]
           /\ \A w \in Values \ {value} : PlacesNow[w] \cap PlacesNow'[value] = {}
    BY <1>1, <1>5, HashedRefines
  <2> QED
    BY <2>2, <2>3, ContentsNext, ContentsVars
<1>6. ASSUME UNCHANGED vars PROVE UNCHANGED Contents!vars
  <2>1. offset_' = offset_ /\ UNCHANGED linked /\ UNCHANGED hashed
    BY <1>6 DEF vars, linked, hashed
  <2> QED
    BY <1>1, <2>1, SameSizes, SameLists, SamePlaces, ContentsVars
<1> QED
  BY <1>2, <1>3, <1>4, <1>5, <1>6 DEF Next

(* The structures implement the list of sizes, the lists of values and the *)
(* places that Containers describes.                                       *)
THEOREM KeepsContentsAlways == Spec => KeepsContents
<1>1. Init => Contents!Init
  BY InitRefines
<1>2. Inv /\ Inv' /\ [Next]_vars => [Contents!Next]_(Contents!vars)
  BY NextRefines
<1> QED
  BY <1>1, <1>2, Invariance, PTL DEF Spec, KeepsContents, Contents!Spec
=============================================================================
