-------------------------- MODULE BlockCacheProofs --------------------------
(***************************************************************************)
(* Theorems about BlockCache, for any ledgers, heights and number of       *)
(* faults.                                                                 *)
(*                                                                         *)
(* Inv says what the process keeps true about memory, file and buffer:     *)
(* Counters and Writing what each phase has done so far, OnDisk what is in *)
(* the file, and OneLedger that all cells, wherever they are, come from    *)
(* one ledger, and are where they belong unless a write was cut short.     *)
(***************************************************************************)
EXTENDS BlockCache, SequenceTheorems, Numbers, TLAPS

(* The cell at a position of a file that holds a ledger. *)
CellAt(ledger, i) ==
  LET block == BlockAt(ledger, (i + 1) \div 2)
  IN IF i % 2 = 1 THEN HeadOf(block) ELSE TailOf(block)

(* The cells a file can have when it was written from one ledger.          *)
From(ledger) == {CellAt(ledger, i) : i \in 1 .. 2 * MaxHeight} \cup {Junk}

(* Cells are damaged at most, but not misplaced. *)
Placed(ledger, cells) ==
  \A i \in 1 .. Len(cells) : cells[i] \in {CellAt(ledger, i), Junk}

(* A drop is not yet followed by the exit: memory is empty, the counter is *)
(* not.                                                                    *)
Dropping == phase \in {"trunc", "rewrite", "dropped"} /\ next = "dropped"

(* The number of blocks in memory and of those indexed, phase by phase.    *)
Counters ==
  /\ Len(bytes) = 2 * size
  /\ phase \in {"down", "load"} => size = 0 /\ block_count = 0
  /\ phase = "parse" => block_count <= size
  /\ phase \in {"opening", "check", "serve", "sync"} => block_count = size
  /\ phase = "append" => size = block_count + 1 /\ block_count < peer_height
  /\ phase = "sync" => block_count <= peer_height
  /\ phase \in {"trunc", "rewrite"} =>
       /\ next = "parse" => block_count = 0
       /\ next = "opening" => block_count = size
  /\ phase = "dropped" => next = "dropped"
  /\ Dropping => size = 0

(* What is buffered and which writes may have failed, phase by phase.      *)
Writing ==
  /\ phase \notin {"sync", "append"} =>
       buffer = <<>> /\ spilled = 0 /\ "append" \notin failed
  /\ phase = "sync" => spilled = 0
  /\ phase \in {"down", "load"} => failed = {}
  /\ phase = "rewrite" => file = <<>>
  /\ "rewrite" \in failed => torn

StartsWith(cells, start) == Len(start) <= Len(cells) /\ start = Cut(cells, Len(start))

(* The file and what is still buffered, against memory.                    *)
OnDisk ==
  /\ phase \in {"parse", "opening", "check", "serve"} => StartsWith(bytes, file)
  /\ phase \in {"parse", "opening", "check", "serve", "sync", "append"} /\ failed = {} =>
       file \o Rest(buffer, spilled) = bytes
  /\ failed = {"append"} => StartsWith(bytes, file)

(* A ledger explains the cells of file, memory and buffer.                 *)
Holds(ledger) ==
  /\ file \in Seq(From(ledger))
  /\ bytes \in Seq(From(ledger))
  /\ buffer \in Seq(From(ledger))
  /\ ~torn => Placed(ledger, file) /\ Placed(ledger, bytes)
  /\ ~Dropping => \A i \in 1 .. 2 * block_count : bytes[i] = CellAt(ledger, i)
  /\ phase \in {"sync", "append"} =>
       /\ ledger = peer
       /\ \A i \in 1 .. 2 * size : bytes[i] = CellAt(ledger, i)

(* There is such a ledger, which a model of one process cannot know: the   *)
(* file was written by earlier processes.                                  *)
OneLedger == \E ledger \in Ledgers : Holds(ledger)

Inv == TypeOK /\ Counters /\ Writing /\ OnDisk /\ OneLedger
-----------------------------------------------------------------------------
(* Lemmas about numbers.                                                   *)

(* The conversion to int never gives more, and gives the same up to IntMax. *)
LEMMA AsIntBelow ==
  ASSUME NEW n \in Nat
  PROVE  /\ AsInt(n) \in Int /\ AsInt(n) <= n
         /\ n <= IntMax => AsInt(n) = n
<1> DEFINE range == 2 * (IntMax + 1)
<1>1. range \in Nat /\ range > 0 /\ IntMax \in Nat /\ IntMax < range
  BY ConstantsAssumption DEF ConstantsAssumption
<1>2. n % range \in 0 .. range - 1
  BY <1>1
<1>3. n < range => n % range = n
  BY <1>1
<1>4. n % range \in Int /\ n % range <= n
  BY <1>1, <1>2, <1>3
<1>5. AsInt(n) = IF n % range > IntMax THEN (n % range) - range ELSE n % range
  BY DEF AsInt
<1> HIDE DEF range
<1> QED
  BY <1>1, <1>3, <1>4, <1>5
-----------------------------------------------------------------------------
(* Lemmas about cells and sequences of them.                               *)

(* Cut gives the first cells. *)
LEMMA CutSeq ==
  ASSUME NEW S, NEW s \in Seq(S), NEW n \in 0 .. Len(s)
  PROVE  /\ Cut(s, n) \in Seq(S)
         /\ Len(Cut(s, n)) = n
         /\ \A i \in 1 .. n : Cut(s, n)[i] = s[i]
BY DEF Cut

(* Rest gives the others. *)
LEMMA RestSeq ==
  ASSUME NEW S, NEW s \in Seq(S), NEW n \in 0 .. Len(s)
  PROVE  /\ Rest(s, n) \in Seq(S)
         /\ Len(Rest(s, n)) = Len(s) - n
         /\ \A i \in 1 .. Len(s) - n : Rest(s, n)[i] = s[n + i]
BY DEF Rest

(* Together they are the whole. *)
LEMMA CutAndRest ==
  ASSUME NEW S, NEW s \in Seq(S), NEW n \in 0 .. Len(s)
  PROVE  Cut(s, n) \o Rest(s, n) = s
<1>1. SubSeq(s, 1, n) \o SubSeq(s, n + 1, Len(s)) = SubSeq(s, 1, Len(s))
  <2>1. 1 \in 1 .. Len(s) + 1 /\ n \in (1 - 1) .. Len(s) /\ Len(s) \in n .. Len(s)
    OBVIOUS
  <2> QED
    BY <2>1, ConcatAdjacentSubSeq, Zenon
<1> QED
  BY <1>1, SubSeqFull DEF Cut, Rest

(* Nothing is cut off. *)
LEMMA CutAll ==
  ASSUME NEW S, NEW s \in Seq(S)
  PROVE  Cut(s, Len(s)) = s
BY DEF Cut

(* Cells at even and at odd positions. *)
LEMMA CellAtBlock ==
  ASSUME NEW ledger, NEW h \in Nat
  PROVE  /\ CellAt(ledger, 2 * h + 1) = HeadOf(BlockAt(ledger, h + 1))
         /\ CellAt(ledger, 2 * h + 2) = TailOf(BlockAt(ledger, h + 1))
<1>1. (2 * h + 1 + 1) \div 2 = h + 1 /\ (2 * h + 1) % 2 = 1
  OBVIOUS
<1>2. (2 * h + 2 + 1) \div 2 = h + 1 /\ (2 * h + 2) % 2 # 1
  OBVIOUS
<1> QED
  BY <1>1, <1>2 DEF CellAt

(* A cell of a ledger is damaged, or the head or the tail of a block. *)
LEMMA FromBlocks ==
  ASSUME NEW ledger, NEW cell \in From(ledger)
  PROVE  \/ cell = Junk
         \/ \E h \in 1 .. MaxHeight :
              cell \in {HeadOf(BlockAt(ledger, h)), TailOf(BlockAt(ledger, h))}
<1> SUFFICES ASSUME NEW i \in 1 .. 2 * MaxHeight, cell = CellAt(ledger, i)
             PROVE  \E h \in 1 .. MaxHeight :
                      cell \in {HeadOf(BlockAt(ledger, h)), TailOf(BlockAt(ledger, h))}
  BY DEF From
<1>1. MaxHeight \in Nat
  BY ConstantsAssumption DEF ConstantsAssumption
<1>2. (i + 1) \div 2 \in 1 .. MaxHeight
  BY <1>1
<1> QED
  BY <1>2 DEF CellAt

(* Cells of a ledger are cells. *)
LEMMA FromIsCells ==
  ASSUME NEW ledger \in Ledgers
  PROVE  From(ledger) \subseteq Cells
<1> SUFFICES ASSUME NEW cell \in From(ledger) PROVE cell \in Cells
  OBVIOUS
<1>1. CASE cell = Junk
  BY <1>1 DEF Cells
<1>2. CASE \E h \in 1 .. MaxHeight :
             cell \in {HeadOf(BlockAt(ledger, h)), TailOf(BlockAt(ledger, h))}
  BY <1>2 DEF Cells
<1> QED
  BY <1>1, <1>2, FromBlocks

(* A damaged cell may be of any ledger. *)
LEMMA JunkFrom ==
  ASSUME NEW ledger
  PROVE  Junk \in From(ledger)
BY DEF From

(* Head and tail of a block are cells of its ledger. *)
LEMMA CellAtFrom ==
  ASSUME NEW ledger, NEW h \in 1 .. MaxHeight
  PROVE  /\ HeadOf(BlockAt(ledger, h)) \in From(ledger)
         /\ TailOf(BlockAt(ledger, h)) \in From(ledger)
<1>1. MaxHeight \in Nat
  BY ConstantsAssumption DEF ConstantsAssumption
<1>2. 2 * (h - 1) + 1 \in 1 .. 2 * MaxHeight /\ 2 * (h - 1) + 2 \in 1 .. 2 * MaxHeight
  BY <1>1
<1>3. h - 1 \in Nat /\ h - 1 + 1 = h
  BY <1>1
<1> QED
  BY <1>2, <1>3, CellAtBlock DEF From

(* A record that parses is a block of the ledger that its cells are from.  *)
LEMMA RecordIsBlock ==
  ASSUME NEW ledger, NEW head \in From(ledger), NEW tail \in From(ledger),
         Parses(head, tail)
  PROVE  \E h \in 1 .. MaxHeight :
           head = HeadOf(BlockAt(ledger, h)) /\ tail = TailOf(BlockAt(ledger, h))
<1>1. \A block : /\ HeadOf(block).part = "head" /\ HeadOf(block).block = block
                 /\ TailOf(block).part = "tail" /\ TailOf(block).block = block
  BY DEF HeadOf, TailOf
<1>2. Junk.part = "junk"
  BY DEF Junk
<1>3. head.part = "head" /\ tail.part = "tail" /\ head.block = tail.block
  BY DEF Parses
<1>4. PICK h \in 1 .. MaxHeight : head = HeadOf(BlockAt(ledger, h))
  BY <1>1, <1>2, <1>3, FromBlocks
<1>5. PICK g \in 1 .. MaxHeight : tail = TailOf(BlockAt(ledger, g))
  BY <1>1, <1>2, <1>3, FromBlocks
<1>6. BlockAt(ledger, h) = BlockAt(ledger, g)
  BY <1>1, <1>3, <1>4, <1>5
<1> QED
  BY <1>4, <1>5, <1>6

(* splitPb finds no more than there is, and no less than there is whole.   *)
LEMMA CompleteRecords ==
  ASSUME NEW S, NEW f \in Seq(S)
  PROVE  /\ Complete(f) \in 0 .. Len(f)
         /\ 2 * Complete(f) <= Len(f)
         /\ \A k \in 0 .. Len(f) :
              /\ k = 0 \/ 2 * k <= AsInt(Len(f))
              /\ \A j \in 1 .. k : f[2 * j - 1].part = "head"
              => k <= Complete(f)
<1> DEFINE K == {k \in 0 .. Len(f) :
                   /\ k = 0 \/ 2 * k <= AsInt(Len(f))
                   /\ \A j \in 1 .. k : f[2 * j - 1].part = "head"}
<1>1. Len(f) \in Nat /\ K \subseteq 0 .. Len(f)
  OBVIOUS
<1>2. 0 \in K
  BY <1>1
<1>3. Max(K) \in K /\ \A k \in K : k <= Max(K)
  BY <1>1, <1>2, MaxUpTo
<1>4. Complete(f) = Max(K)
  BY DEF Complete
<1>5. Max(K) \in 0 .. Len(f) /\ (Max(K) = 0 \/ 2 * Max(K) <= AsInt(Len(f)))
  BY <1>3
<1>6. AsInt(Len(f)) \in Int /\ AsInt(Len(f)) <= Len(f)
  BY <1>1, AsIntBelow
<1>7. 2 * Max(K) <= Len(f)
  BY <1>1, <1>5, <1>6
<1> QED
  BY <1>3, <1>4, <1>5, <1>7
-----------------------------------------------------------------------------
(* The next-state relation, one disjunct per action.                       *)
LEMMA Steps ==
  ASSUME [Next]_vars
  PROVE  \/ PeerCommit \/ ReplacePeer \/ Damage \/ TruncateFails \/ AppendFails
         \/ Exit \/ ExitInWrite \/ Crash
         \/ LoadConfig \/ LoadFile \/ TruncateOpen \/ TruncateWrite \/ LoadBlock
         \/ LoadCorrupt \/ OpenAppender \/ Serve \/ StartSync \/ Drop \/ DropExit
         \/ AddBlock \/ Appended \/ Spill \/ UNCHANGED vars
BY DEF Next, Environment, Process

(* What TypeOK says of the variables that most proofs need. *)
LEMMA Typed ==
  ASSUME TypeOK
  PROVE  /\ peer \in Ledgers /\ peer_height \in 0 .. MaxHeight /\ MaxHeight \in Nat
         /\ phase \in {"down", "load", "parse", "trunc", "rewrite", "opening", "check",
                       "serve", "dropped", "sync", "append"}
         /\ next \in {"parse", "opening", "dropped"}
         /\ size \in Nat /\ block_count \in Nat /\ block_count <= MaxHeight
         /\ file \in Seq(Cells) /\ bytes \in Seq(Cells) /\ buffer \in Seq(Cells)
         /\ Len(file) \in Nat /\ Len(bytes) \in Nat /\ Len(buffer) \in Nat
         /\ spilled \in 0 .. Len(buffer)
BY ConstantsAssumption DEF TypeOK, ConstantsAssumption

(* LoadFile keeps the complete records of the file.                        *)
LEMMA LoadFileReads ==
  ASSUME TypeOK, LoadFile
  PROVE  /\ size' \in Nat /\ Len(bytes') = 2 * size' /\ 2 * size' <= Len(file)
         /\ bytes' = Cut(file, 2 * size')
         /\ \/ phase' = "trunc" /\ next' = "parse"
            \/ phase' = "parse" /\ next' = next /\ bytes' = file
<1>1. file \in Seq(Cells) /\ Len(file) \in Nat
  BY Typed
<1>2. Complete(file) \in Nat /\ 2 * Complete(file) <= Len(file)
  BY <1>1, CompleteRecords
<1>3. Len(Cut(file, 2 * Complete(file))) = 2 * Complete(file)
  BY <1>1, <1>2, CutSeq
<1>4. CASE 2 * Complete(file) < Len(file)
  BY <1>2, <1>3, <1>4 DEF LoadFile, Truncate
<1>5. CASE ~(2 * Complete(file) < Len(file))
  <2>1. 2 * Complete(file) = Len(file) /\ Cut(file, 2 * Complete(file)) = file
    BY <1>1, <1>2, <1>5, CutAll
  <2>2. bytes' = file /\ size' = Complete(file) /\ phase' = "parse" /\ next' = next
    BY <1>5 DEF LoadFile
  <2> QED
    BY <1>2, <2>1, <2>2
<1> QED
  BY <1>4, <1>5

(* What a truncation in memory leaves.                                     *)
LEMMA TruncateCuts ==
  ASSUME TypeOK, NEW n \in Nat, 2 * n <= Len(bytes), NEW continue,
         Truncate(bytes, n, continue)
  PROVE  /\ bytes' \in Seq(Cells) /\ Len(bytes') = 2 * n
         /\ \A i \in 1 .. 2 * n : bytes'[i] = bytes[i]
<1>1. bytes \in Seq(Cells) /\ Len(bytes) \in Nat /\ 2 * n \in 0 .. Len(bytes)
  BY Typed
<1> QED
  BY <1>1, CutSeq DEF Truncate

(* Counters stay in step with memory.                                      *)
LEMMA CountersKept ==
  ASSUME TypeOK, Counters, [Next]_vars
  PROVE  Counters'
<1> USE DEF Counters, Dropping
<1>0. /\ peer_height \in Nat /\ size \in Nat /\ block_count \in Nat
      /\ bytes \in Seq(Cells) /\ Len(bytes) \in Nat
      /\ next \in {"parse", "opening", "dropped"}
  BY Typed
<1>1. CASE PeerCommit
  BY <1>0, <1>1 DEF PeerCommit, memory
<1>2. CASE ReplacePeer
  BY <1>0, <1>2 DEF ReplacePeer, memory
<1>3. CASE Damage
  BY <1>0, <1>3 DEF Damage, memory, peerVars
<1>4. CASE TruncateFails
  BY <1>0, <1>4 DEF TruncateFails, memory, peerVars
<1>5. CASE AppendFails
  BY <1>0, <1>5 DEF AppendFails, peerVars
<1>6. CASE Gone
  BY <1>6 DEF Gone
<1>7. CASE LoadConfig
  BY <1>0, <1>7 DEF LoadConfig, memory
<1>8. CASE LoadFile
  <2>1. block_count = 0 /\ block_count' = 0 /\ next' \in {"parse", "opening", "dropped"}
    BY <1>0, <1>8, LoadFileReads DEF LoadFile
  <2> QED
    BY <1>8, <2>1, LoadFileReads
<1>9. CASE TruncateOpen
  BY <1>0, <1>9 DEF TruncateOpen, memory, peerVars
<1>10. CASE TruncateWrite
  BY <1>0, <1>10 DEF TruncateWrite, memory, peerVars
<1>11. CASE LoadBlock
  BY <1>0, <1>6, <1>11 DEF LoadBlock, peerVars
<1>12. CASE LoadCorrupt
  <2>1. Truncate(bytes, block_count, "opening") /\ 2 * block_count <= Len(bytes)
    BY <1>0, <1>12 DEF LoadCorrupt
  <2>2. Len(bytes') = 2 * block_count
    BY <1>0, <2>1, TruncateCuts
  <2> QED
    BY <1>0, <1>12, <2>2 DEF LoadCorrupt, Truncate
<1>13. CASE OpenAppender
  BY <1>0, <1>13 DEF OpenAppender, memory, peerVars
<1>14. CASE Serve
  BY <1>0, <1>14 DEF Serve, memory, peerVars
<1>15. CASE StartSync
  BY <1>0, <1>15 DEF StartSync, memory, peerVars, LastBlockMatches
<1>16. CASE Drop
  <2>1. Truncate(bytes, 0, "dropped")
    BY <1>16 DEF Drop
  <2>2. Len(bytes') = 2 * 0
    BY <1>0, <2>1, TruncateCuts
  <2> QED
    BY <1>0, <1>16, <2>2 DEF Drop, Truncate
<1>17. CASE AddBlock
  <2> DEFINE block == BlockAt(peer, block_count + 1)
             cells == <<HeadOf(block), TailOf(block)>>
  <2>1. bytes' = bytes \o cells
    BY <1>17 DEF AddBlock
  <2>2. cells \in Seq({HeadOf(block), TailOf(block)}) /\ Len(cells) = 2
    OBVIOUS
  <2>3. Len(bytes \o cells) = Len(bytes) + Len(cells)
    <3> DEFINE S == Cells \cup {HeadOf(block), TailOf(block)}
    <3>1. bytes \in Seq(S) /\ cells \in Seq(S)
      BY <1>0, <2>2, SeqMonotonic
    <3> HIDE DEF S, cells
    <3> QED
      BY <3>1, ConcatProperties
  <2> HIDE DEF cells
  <2>4. Len(bytes') = Len(bytes) + 2
    BY <2>1, <2>2, <2>3
  <2> QED
    BY <1>0, <1>17, <2>4 DEF AddBlock, peerVars
<1>18. CASE Appended
  BY <1>0, <1>18 DEF Appended, peerVars
<1>19. CASE Spill
  BY <1>0, <1>19 DEF Spill, memory, peerVars
<1>20. CASE UNCHANGED vars
  BY <1>20 DEF vars, memory, peerVars
<1> QED
  BY Steps, <1>1, <1>2, <1>3, <1>4, <1>5, <1>6, <1>7, <1>8, <1>9, <1>10, <1>11,
     <1>12, <1>13, <1>14, <1>15, <1>16, <1>17, <1>18, <1>19, <1>20
     DEF Exit, ExitInWrite, Crash, DropExit

(* The buffer is empty but while blocks are added, and a failed truncation *)
(* is remembered in torn.                                                  *)
LEMMA WritingKept ==
  ASSUME TypeOK, Writing, [Next]_vars
  PROVE  Writing'
<1> USE DEF Writing
<1>1. next \in {"parse", "opening", "dropped"}
  BY Typed
<1>2. CASE Exit \/ ExitInWrite \/ Crash \/ DropExit
  BY <1>2 DEF Exit, ExitInWrite, Crash, DropExit, Gone
<1>3. CASE PeerCommit \/ ReplacePeer
  BY <1>3 DEF PeerCommit, ReplacePeer, Fault, appender, history
<1>4. CASE Damage
  BY <1>4 DEF Damage, Fault, appender
<1>5. CASE TruncateFails
  BY <1>1, <1>5 DEF TruncateFails, history
<1>6. CASE AppendFails
  BY <1>6 DEF AppendFails, Fault
<1>7. CASE LoadConfig
  BY <1>7 DEF LoadConfig, appender, history
<1>8. CASE LoadFile
  BY <1>8 DEF LoadFile, Truncate, appender, history
<1>9. CASE TruncateOpen \/ TruncateWrite
  BY <1>1, <1>9 DEF TruncateOpen, TruncateWrite, appender, history
<1>10. CASE LoadBlock
  BY <1>10 DEF LoadBlock, Gone, appender, history
<1>11. CASE LoadCorrupt
  BY <1>11 DEF LoadCorrupt, Truncate, appender, history
<1>12. CASE OpenAppender
  BY <1>12 DEF OpenAppender, appender, history
<1>13. CASE Serve \/ StartSync
  BY <1>13 DEF Serve, StartSync, appender, history
<1>14. CASE Drop
  BY <1>14 DEF Drop, Truncate, appender, history
<1>15. CASE AddBlock
  BY <1>15 DEF AddBlock, history
<1>16. CASE Appended
  BY <1>16 DEF Appended, history
<1>17. CASE Spill
  BY <1>17 DEF Spill, history
<1>18. CASE UNCHANGED vars
  BY <1>18 DEF vars, appender, history
<1> QED
  BY Steps, <1>2, <1>3, <1>4, <1>5, <1>6, <1>7, <1>8, <1>9, <1>10, <1>11,
     <1>12, <1>13, <1>14, <1>15, <1>16, <1>17, <1>18
-----------------------------------------------------------------------------
(* Lemmas about beginnings of sequences.                                   *)

(* A concatenation starts with its first part. *)
LEMMA ConcatStarts ==
  ASSUME NEW S, NEW s \in Seq(S), NEW t \in Seq(S)
  PROVE  /\ s \o t \in Seq(S) /\ Len(s \o t) = Len(s) + Len(t)
         /\ StartsWith(s \o t, s)
<1>1. /\ s \o t \in Seq(S) /\ Len(s \o t) = Len(s) + Len(t)
      /\ \A i \in 1 .. Len(s) + Len(t) :
           (s \o t)[i] = IF i <= Len(s) THEN s[i] ELSE t[i - Len(s)]
  BY ConcatProperties
<1>2. Len(s) \in Nat /\ Len(t) \in Nat
  OBVIOUS
<1>3. Len(s) \in 0 .. Len(s \o t)
  BY <1>1, <1>2
<1>4. /\ Cut(s \o t, Len(s)) \in Seq(S) /\ Len(Cut(s \o t, Len(s))) = Len(s)
      /\ \A i \in 1 .. Len(s) : Cut(s \o t, Len(s))[i] = (s \o t)[i]
  BY <1>1, <1>3, CutSeq
<1>5. \A i \in 1 .. Len(s) : s[i] = Cut(s \o t, Len(s))[i]
  BY <1>1, <1>2, <1>4
<1>6. s = Cut(s \o t, Len(s))
  BY <1>4, <1>5, SeqEqual
<1> QED
  BY <1>1, <1>2, <1>6 DEF StartsWith

(* Nothing is added by an empty buffer. *)
LEMMA StartsWithItself ==
  ASSUME NEW S, NEW s \in Seq(S)
  PROVE  StartsWith(s, s) /\ s \o Rest(<<>>, 0) = s
<1>1. Rest(<<>>, 0) = <<>>
  BY DEF Rest
<1>2. s \o <<>> = s
  BY ConcatEmptySeq
<1>3. Len(s) \in Nat
  OBVIOUS
<1> QED
  BY <1>1, <1>2, <1>3, CutAll DEF StartsWith

(* A beginning stays one when something is appended. *)
LEMMA StartsWithMore ==
  ASSUME NEW S, NEW s \in Seq(S), NEW t \in Seq(S), NEW start \in Seq(S),
         StartsWith(s, start)
  PROVE  StartsWith(s \o t, start)
<1>0. Len(start) \in 0 .. Len(s) /\ start = Cut(s, Len(start))
  BY DEF StartsWith
<1>1. start \o Rest(s, Len(start)) = s /\ Rest(s, Len(start)) \in Seq(S)
  <2>1. Cut(s, Len(start)) \o Rest(s, Len(start)) = s
    BY <1>0, CutAndRest
  <2>2. Rest(s, Len(start)) \in Seq(S)
    BY <1>0, RestSeq
  <2> QED
    BY <1>0, <2>1, <2>2, Zenon
<1>2. s \o t = start \o (Rest(s, Len(start)) \o t)
  <2> DEFINE rest == Rest(s, Len(start))
  <2>1. rest \in Seq(S)
    BY <1>1
  <2>2. start \o rest = s
    BY <1>1
  <2> HIDE DEF rest
  <2>3. (start \o rest) \o t = start \o (rest \o t)
    BY <2>1, ConcatAssociative
  <2> QED
    BY <2>2, <2>3 DEF rest
<1>3. Rest(s, Len(start)) \o t \in Seq(S)
  BY <1>1, ConcatProperties
<1> QED
  BY <1>2, <1>3, ConcatStarts

(* Appending twice is appending once. *)
LEMMA Reassociate ==
  ASSUME NEW S, NEW s \in Seq(S), NEW t \in Seq(S), NEW u \in Seq(S),
         NEW v \in Seq(S), v = t \o u
  PROVE  (s \o t) \o u = s \o v
<1>1. (s \o t) \o u = s \o (t \o u)
  BY ConcatAssociative
<1> QED
  BY <1>1

(* A buffer written piece by piece gives the same as at once.              *)
LEMMA WritePart ==
  ASSUME NEW S, NEW s \in Seq(S), NEW b \in Seq(S),
         NEW k \in 0 .. Len(b), NEW n \in k .. Len(b)
  PROVE  LET part == SubSeq(b, k + 1, n)
         IN /\ part \in Seq(S) /\ s \o part \in Seq(S)
            /\ (s \o part) \o Rest(b, n) = s \o Rest(b, k)
            /\ StartsWith(s \o Rest(b, k), s \o part)
<1>1. Len(b) \in Nat /\ k \in Nat /\ n \in Nat
  OBVIOUS
<1> DEFINE part == SubSeq(b, k + 1, n)
           rest == Rest(b, n)
           all == Rest(b, k)
<1>2. all = part \o rest
  <2> DEFINE m == k + 1
  <2>1. m \in 1 .. Len(b) + 1 /\ n \in (m - 1) .. Len(b) /\ Len(b) \in n .. Len(b)
    BY <1>1
  <2> HIDE DEF m
  <2>2. SubSeq(b, m, n) \o SubSeq(b, n + 1, Len(b)) = SubSeq(b, m, Len(b))
    BY <2>1, ConcatAdjacentSubSeq
  <2> QED
    BY <2>2 DEF m, Rest
<1>3. part \in Seq(S)
  <2>1. k + 1 \in Int /\ n \in Int /\ \A i \in k + 1 .. n : b[i] \in S
    BY <1>1
  <2> QED
    BY <2>1, SubSeqProperties
<1>4. rest \in Seq(S) /\ all \in Seq(S)
  BY <1>1, RestSeq
<1> HIDE DEF part, rest, all
<1>5. (s \o part) \o rest = s \o all
  BY <1>2, <1>3, <1>4, Reassociate
<1>6. s \o part \in Seq(S)
  BY <1>3, ConcatProperties
<1>7. StartsWith((s \o part) \o rest, s \o part)
  BY <1>4, <1>6, ConcatStarts
<1> QED
  BY <1>3, <1>5, <1>6, <1>7 DEF part, rest, all

(* A buffer of which the first cells are written. *)
LEMMA WriteStart ==
  ASSUME NEW S, NEW s \in Seq(S), NEW b \in Seq(S), NEW n \in 0 .. Len(b)
  PROVE  /\ (s \o Cut(b, n)) \o Rest(b, n) = s \o b
         /\ StartsWith(s \o b, s \o Cut(b, n))
<1> DEFINE start == Cut(b, n)
           rest == Rest(b, n)
<1>1. start \in Seq(S) /\ rest \in Seq(S)
  BY CutSeq, RestSeq
<1>2. b = start \o rest
  BY CutAndRest
<1> HIDE DEF start, rest
<1>3. (s \o start) \o rest = s \o b
  BY <1>1, <1>2, Reassociate
<1>4. s \o start \in Seq(S)
  BY <1>1, ConcatProperties
<1>5. StartsWith((s \o start) \o rest, s \o start)
  BY <1>1, <1>4, ConcatStarts
<1> QED
  BY <1>3, <1>5 DEF start, rest

(* What is left when nothing is written. *)
LEMMA RestNone ==
  ASSUME NEW S, NEW s \in Seq(S)
  PROVE  Rest(s, 0) = s
BY SubSeqFull DEF Rest

(* Cut with a number that may be negative, as in ExitInWrite. *)
LEMMA CutAny ==
  ASSUME NEW S, NEW s \in Seq(S), NEW n \in Int, n <= Len(s)
  PROVE  Cut(s, n) \in Seq(S)
<1>1. 1 \in Int /\ \A i \in 1 .. n : s[i] \in S
  OBVIOUS
<1> QED
  BY <1>1, SubSeqProperties DEF Cut

(* The cells of the block that AddBlock takes.                             *)
LEMMA NextCells ==
  ASSUME NEW ledger \in Ledgers, NEW h \in 1 .. MaxHeight
  PROVE  LET block == BlockAt(ledger, h)
         IN /\ <<HeadOf(block), TailOf(block)>> \in Seq(From(ledger))
            /\ <<HeadOf(block), TailOf(block)>> \in Seq(Cells)
            /\ Len(<<HeadOf(block), TailOf(block)>>) = 2
<1> DEFINE head == HeadOf(BlockAt(ledger, h))
           tail == TailOf(BlockAt(ledger, h))
<1>1. head \in From(ledger) /\ tail \in From(ledger)
  BY CellAtFrom
<1>2. head \in Cells /\ tail \in Cells
  BY <1>1, FromIsCells
<1> HIDE DEF head, tail
<1>3. <<head, tail>> \in Seq(From(ledger)) /\ <<head, tail>> \in Seq(Cells)
  BY <1>1, <1>2
<1>4. Len(<<head, tail>>) = 2
  OBVIOUS
<1> QED
  BY <1>3, <1>4 DEF head, tail
-----------------------------------------------------------------------------
(* Between the writes the file and the buffer together are the memory.     *)
LEMMA OnDiskKept ==
  ASSUME TypeOK, Counters, Writing, OnDisk, [Next]_vars
  PROVE  OnDisk'
<1> USE DEF OnDisk
<1>0. /\ file \in Seq(Cells) /\ bytes \in Seq(Cells) /\ buffer \in Seq(Cells)
      /\ next \in {"parse", "opening", "dropped"}
      /\ spilled \in 0 .. Len(buffer) /\ Len(buffer) \in Nat
      /\ block_count \in Nat /\ peer_height \in 0 .. MaxHeight /\ MaxHeight \in Nat
      /\ peer \in Ledgers
  BY Typed
<1>1. CASE PeerCommit
  BY <1>1 DEF PeerCommit, memory, appender
<1>2. CASE ReplacePeer \/ Damage
  BY <1>2 DEF ReplacePeer, Damage, appender, Writing
<1>3. CASE TruncateFails
  <2>1. PICK n \in 0 .. Len(bytes) - 1 : file' = Cut(bytes, n)
    BY <1>3 DEF TruncateFails
  <2>2. Len(file') = n /\ n <= Len(bytes) /\ file' = Cut(bytes, Len(file'))
    <3>1. n \in 0 .. Len(bytes) /\ n <= Len(bytes)
      BY <1>0
    <3>2. Len(Cut(bytes, n)) = n
      BY <1>0, <3>1, CutSeq
    <3> QED
      BY <2>1, <3>1, <3>2
  <2>3. StartsWith(bytes', file')
    BY <1>3, <2>2 DEF TruncateFails, memory, StartsWith
  <2>4. failed' # {} /\ failed' # {"append"}
    BY <1>3 DEF TruncateFails
  <2> QED
    BY <2>3, <2>4
<1>4. CASE AppendFails
  <2>1. PICK n \in spilled .. Len(buffer) - 1 : file' = file \o SubSeq(buffer, spilled + 1, n)
    BY <1>4 DEF AppendFails
  <2>2. n \in spilled .. Len(buffer)
    BY <1>0, <2>1
  <2>3. phase' = "sync" /\ failed' # {} /\ bytes' = bytes /\ phase = "append"
    BY <1>4 DEF AppendFails
  <2>4. ASSUME failed' = {"append"} PROVE StartsWith(bytes, file')
    <3>1. failed = {}
      BY <1>4, <2>4 DEF AppendFails
    <3>2. file \o Rest(buffer, spilled) = bytes
      BY <2>3, <3>1
    <3> QED
      BY <1>0, <2>1, <2>2, <3>2, WritePart
  <2> QED
    BY <2>3, <2>4
<1>5. CASE Gone
  BY <1>5 DEF Gone
<1>6. CASE LoadConfig
  BY <1>6 DEF LoadConfig, appender, Writing
<1>7. CASE LoadFile
  <2>1. failed' = {} /\ buffer' = <<>> /\ spilled' = 0 /\ file' = file
    BY <1>7 DEF LoadFile, appender, Writing
  <2>2. StartsWith(file, file) /\ file \o Rest(<<>>, 0) = file
    BY <1>0, StartsWithItself
  <2>3. phase' = "trunc" \/ (phase' = "parse" /\ bytes' = file)
    BY <1>7, LoadFileReads
  <2> QED
    BY <2>1, <2>2, <2>3
<1>8. CASE TruncateOpen
  BY <1>8 DEF TruncateOpen, appender, Writing
<1>9. CASE TruncateWrite
  <2>1. /\ file' = bytes /\ bytes' = bytes /\ buffer' = <<>> /\ spilled' = 0
        /\ "append" \notin failed'
    BY <1>9 DEF TruncateWrite, memory, appender, Writing
  <2>2. StartsWith(bytes, bytes) /\ bytes \o Rest(<<>>, 0) = bytes
    BY <1>0, StartsWithItself
  <2> QED
    BY <2>1, <2>2
<1>10. CASE LoadBlock
  BY <1>5, <1>10 DEF LoadBlock, appender
<1>11. CASE LoadCorrupt \/ Drop
  BY <1>11 DEF LoadCorrupt, Drop, Truncate, appender, Writing
<1>12. CASE OpenAppender \/ Serve \/ StartSync
  BY <1>12 DEF OpenAppender, Serve, StartSync, memory, appender
<1>13. CASE AddBlock
  <2> DEFINE block == BlockAt(peer, block_count + 1)
             cells == <<HeadOf(block), TailOf(block)>>
  <2>1. /\ bytes' = bytes \o cells /\ file' = file /\ spilled' = spilled
        /\ failed' = failed /\ phase = "sync" /\ phase' = "append"
        /\ block_count < peer_height
        /\ buffer' = IF "append" \in failed THEN buffer ELSE buffer \o cells
    BY <1>13 DEF AddBlock
  <2>2. block_count + 1 \in 1 .. MaxHeight
    BY <1>0, <2>1
  <2>3. cells \in Seq(Cells)
    BY <1>0, <2>2, NextCells
  <2> HIDE DEF cells
  <2>4. ASSUME failed = {} PROVE file \o Rest(buffer', spilled) = bytes \o cells
    <3>1. spilled = 0 /\ buffer' = buffer \o cells
      BY <2>1, <2>4 DEF Writing
    <3>2. file \o buffer = bytes
      BY <1>0, <2>1, <2>4, <3>1, RestNone
    <3>3. buffer' \in Seq(Cells) /\ Rest(buffer', 0) = buffer'
      BY <1>0, <2>3, <3>1, ConcatProperties, RestNone
    <3>4. (file \o buffer) \o cells = file \o (buffer \o cells)
      <4>1. file \in Seq(Cells) /\ buffer \in Seq(Cells)
        BY <1>0
      <4> QED
        BY <4>1, <2>3, ConcatAssociative, SMT
    <3> QED
      BY <3>1, <3>2, <3>3, <3>4
  <2>5. ASSUME failed = {"append"} PROVE StartsWith(bytes \o cells, file)
    BY <1>0, <2>3, <2>5, StartsWithMore
  <2> QED
    BY <2>1, <2>4, <2>5
<1>14. CASE Appended
  <2>1. /\ buffer' = Rest(buffer, spilled) /\ spilled' = 0 /\ failed' = failed
        /\ phase = "append" /\ phase' = "sync" /\ file' = file /\ bytes' = bytes
    BY <1>14 DEF Appended
  <2>2. Rest(buffer', 0) = Rest(buffer, spilled)
    BY <1>0, <2>1, RestSeq, RestNone
  <2> QED
    BY <2>1, <2>2
<1>15. CASE Spill
  <2>1. PICK n \in 1 .. Len(buffer) : spilled' = n /\ file' = file \o Cut(buffer, n)
    BY <1>15 DEF Spill
  <2>2. /\ phase' = phase /\ phase = "append" /\ spilled = 0 /\ "append" \notin failed
        /\ failed' = failed /\ bytes' = bytes /\ buffer' = buffer
    BY <1>15 DEF Spill, memory
  <2>3. 0 \in 0 .. Len(buffer) /\ n \in 0 .. Len(buffer)
    BY <1>0
  <2>4. file \in Seq(Cells) /\ buffer \in Seq(Cells)
    BY <1>0
  <2>5. file' \o Rest(buffer, n) = file \o Rest(buffer, 0)
    BY <2>1, <2>3, <2>4, WriteStart, RestNone
  <2> QED
    BY <2>1, <2>2, <2>5
<1>16. CASE UNCHANGED vars
  BY <1>16 DEF vars, memory, appender
<1> QED
  BY Steps, <1>1, <1>2, <1>3, <1>4, <1>5, <1>6, <1>7, <1>8, <1>9, <1>10, <1>11,
     <1>12, <1>13, <1>14, <1>15, <1>16 DEF Exit, ExitInWrite, Crash, DropExit
-----------------------------------------------------------------------------
(* Lemmas about cells that are in their places.                            *)

(* A beginning of cells in their places. *)
LEMMA PlacedStart ==
  ASSUME NEW S, NEW ledger, NEW cells \in Seq(S), Placed(ledger, cells),
         NEW start, StartsWith(cells, start)
  PROVE  Placed(ledger, start)
<1>1. Len(start) \in 0 .. Len(cells) /\ start = Cut(cells, Len(start))
  BY DEF StartsWith, Cut
<1>2. \A i \in 1 .. Len(start) : start[i] = cells[i] /\ i \in 1 .. Len(cells)
  BY <1>1, CutSeq
<1> QED
  BY <1>2 DEF Placed

(* What is left when cells are cut off. *)
LEMMA CutPlaced ==
  ASSUME NEW S, NEW ledger, NEW cells \in Seq(S), NEW n \in 0 .. Len(cells)
  PROVE  /\ Cut(cells, n) \in Seq(S)
         /\ Placed(ledger, cells) => Placed(ledger, Cut(cells, n))
<1>1. /\ Cut(cells, n) \in Seq(S) /\ Len(Cut(cells, n)) = n
      /\ \A i \in 1 .. n : Cut(cells, n)[i] = cells[i]
  BY CutSeq
<1>2. n <= Len(cells) /\ Len(cells) \in Nat
  OBVIOUS
<1> QED
  BY <1>1, <1>2 DEF Placed

(* The empty file is from every ledger. *)
LEMMA EmptyPlaced ==
  ASSUME NEW ledger
  PROVE  <<>> \in Seq(From(ledger)) /\ Placed(ledger, <<>>)
BY DEF Placed

(* Damage misplaces no cell. *)
LEMMA DamagedPlaced ==
  ASSUME NEW ledger, NEW cells \in Seq(From(ledger)), NEW i \in 1 .. Len(cells)
  PROVE  /\ [cells EXCEPT ![i] = Junk] \in Seq(From(ledger))
         /\ Placed(ledger, cells) => Placed(ledger, [cells EXCEPT ![i] = Junk])
<1> DEFINE damaged == [cells EXCEPT ![i] = Junk]
<1>1. Junk \in From(ledger)
  BY JunkFrom
<1>2. damaged \in Seq(From(ledger)) /\ Len(damaged) = Len(cells)
  BY <1>1, ExceptSeq
<1>3. \A j \in 1 .. Len(cells) : damaged[j] = IF j = i THEN Junk ELSE cells[j]
  OBVIOUS
<1> HIDE DEF damaged
<1>4. Placed(ledger, cells) => Placed(ledger, damaged)
  BY <1>2, <1>3 DEF Placed
<1> QED
  BY <1>2, <1>4 DEF damaged

(* When the process ends only the file remains.                            *)
LEMMA GoneHolds ==
  ASSUME Gone, NEW ledger \in Ledgers,
         file' \in Seq(From(ledger)), ~torn' => Placed(ledger, file')
  PROVE  Holds(ledger)'
<1>1. /\ bytes' = <<>> /\ buffer' = <<>> /\ block_count' = 0 /\ phase' = "down"
  BY DEF Gone
<1>2. <<>> \in Seq(From(ledger)) /\ Placed(ledger, <<>>)
  BY EmptyPlaced
<1>3. \A i \in 1 .. 2 * 0 : bytes'[i] = CellAt(ledger, i)
  OBVIOUS
<1> QED
  BY <1>1, <1>2, <1>3 DEF Holds

(* A buffer that is written, wholly or in part, stays with its ledger.     *)
LEMMA WrittenFrom ==
  ASSUME NEW ledger, Holds(ledger), NEW n \in Int, n <= Len(buffer)
  PROVE  file \o Cut(buffer, n) \in Seq(From(ledger))
<1>1. file \in Seq(From(ledger)) /\ buffer \in Seq(From(ledger))
  BY DEF Holds
<1>2. Cut(buffer, n) \in Seq(From(ledger))
  BY <1>1, CutAny
<1> HIDE DEF Cut
<1> QED
  BY <1>1, <1>2, ConcatProperties

(* Unless a write was cut short, an exit leaves a file in its place.       *)
LEMMA ExitPlaced ==
  ASSUME TypeOK, Writing, OnDisk, NEW ledger, Holds(ledger), Exit, ~torn'
  PROVE  Placed(ledger, file')
<1>1. PICK n \in 0 .. Len(buffer) :
        /\ "append" \notin failed => n = Len(buffer)
        /\ file' = file \o Cut(buffer, n)
  BY DEF Exit
<1>2. ~torn /\ "append" \notin failed /\ phase # "append"
  BY DEF Exit
<1>3. failed = {}
  BY <1>2 DEF Writing, TypeOK
<1>4. /\ file \in Seq(Cells) /\ bytes \in Seq(Cells) /\ buffer \in Seq(Cells)
  BY Typed
<1>5. file' = file \o buffer
  BY <1>1, <1>2, <1>4, CutAll
<1>6. CASE phase = "sync"
  <2>1. file \o Rest(buffer, 0) = bytes
    BY <1>3, <1>6 DEF OnDisk, Writing
  <2>2. file' = bytes
    BY <1>4, <1>5, <2>1, RestNone
  <2> QED
    BY <1>2, <2>2 DEF Holds
<1>7. CASE phase # "sync"
  <2>1. buffer = <<>>
    BY <1>2, <1>7 DEF Writing
  <2>2. file' = file
    BY <1>4, <1>5, <2>1, ConcatEmptySeq
  <2> QED
    BY <1>2, <2>2 DEF Holds
<1> QED
  BY <1>6, <1>7

(* However the process ends, the file stays with its ledger. *)
LEMMA EndHolds ==
  ASSUME TypeOK, Writing, OnDisk, NEW ledger \in Ledgers, Holds(ledger),
         Exit \/ ExitInWrite \/ Crash \/ DropExit
  PROVE  Holds(ledger)'
<1>0. /\ buffer \in Seq(Cells) /\ Len(buffer) \in Nat /\ spilled \in 0 .. Len(buffer)
      /\ file \in Seq(From(ledger))
  BY Typed DEF Holds
<1>1. CASE Exit
  <2>1. PICK n \in 0 .. Len(buffer) : file' = file \o Cut(buffer, n)
    BY <1>1 DEF Exit
  <2>2. n \in Int /\ n <= Len(buffer)
    BY <1>0
  <2>3. file' \in Seq(From(ledger))
    BY <2>1, <2>2, WrittenFrom
  <2>4. Gone
    BY <1>1 DEF Exit
  <2> QED
    BY <1>1, <2>3, <2>4, ExitPlaced, GoneHolds
<1>2. CASE ExitInWrite
  <2>1. PICK n \in (Len(buffer) - 2) .. Len(buffer) :
          file' = file \o Cut(buffer, IF spilled = 0 THEN n ELSE spilled)
    BY <1>2 DEF ExitInWrite
  <2> DEFINE m == IF spilled = 0 THEN n ELSE spilled
  <2>2. m \in Int /\ m <= Len(buffer)
    BY <1>0
  <2>3. file' = file \o Cut(buffer, m)
    BY <2>1
  <2> HIDE DEF m
  <2>4. file' \in Seq(From(ledger))
    BY <2>2, <2>3, WrittenFrom
  <2>5. Gone /\ torn'
    BY <1>2 DEF ExitInWrite
  <2> QED
    BY <2>4, <2>5, GoneHolds
<1>3. CASE Crash
  <2>1. PICK n \in 0 .. Len(file) : file' = Cut(file, n)
    BY <1>3 DEF Crash
  <2>2. Gone /\ torn' = torn
    BY <1>3 DEF Crash, Fault
  <2>3. file' \in Seq(From(ledger)) /\ (Placed(ledger, file) => Placed(ledger, file'))
    BY <1>0, <2>1, CutPlaced
  <2>4. ~torn => Placed(ledger, file)
    BY DEF Holds
  <2> QED
    BY <2>2, <2>3, <2>4, GoneHolds
<1>4. CASE DropExit
  <2>1. Gone /\ torn' = torn /\ file' = file \o buffer /\ buffer = <<>>
    BY <1>4 DEF DropExit, history, Writing
  <2>2. file' = file
    BY <1>0, <2>1, ConcatEmptySeq
  <2>3. ~torn => Placed(ledger, file)
    BY DEF Holds
  <2> QED
    BY <1>0, <2>1, <2>2, <2>3, GoneHolds
<1> QED
  BY <1>1, <1>2, <1>3, <1>4

(* What the environment does to the peer and to the file.                  *)
LEMMA EnvironmentHolds ==
  ASSUME TypeOK, Counters, Writing, OnDisk, NEW ledger \in Ledgers, Holds(ledger),
         PeerCommit \/ ReplacePeer \/ Damage \/ TruncateFails \/ AppendFails
  PROVE  Holds(ledger)'
<1>0. /\ bytes \in Seq(Cells) /\ file \in Seq(Cells) /\ buffer \in Seq(Cells)
      /\ Len(bytes) \in Nat /\ Len(buffer) \in Nat /\ spilled \in 0 .. Len(buffer)
      /\ next \in {"parse", "opening", "dropped"}
      /\ size \in Nat /\ block_count \in Nat
  BY Typed
<1>1. /\ file \in Seq(From(ledger)) /\ bytes \in Seq(From(ledger))
      /\ buffer \in Seq(From(ledger))
      /\ ~torn => Placed(ledger, file) /\ Placed(ledger, bytes)
  BY DEF Holds
<1>2. CASE PeerCommit
  BY <1>2 DEF PeerCommit, Holds, Dropping, memory, appender, history
<1>3. CASE ReplacePeer
  BY <1>3 DEF ReplacePeer, Fault, Holds, Dropping, memory, appender
<1>4. CASE Damage
  <2>1. PICK i \in 1 .. Len(file) : file' = [file EXCEPT ![i] = Junk]
    BY <1>4 DEF Damage
  <2>2. file' \in Seq(From(ledger)) /\ (Placed(ledger, file) => Placed(ledger, file'))
    BY <1>1, <2>1, DamagedPlaced
  <2> QED
    BY <1>4, <2>2 DEF Damage, Fault, Holds, Dropping, memory, appender, peerVars
<1>5. CASE TruncateFails
  <2>1. PICK n \in 0 .. Len(bytes) - 1 : file' = Cut(bytes, n)
    BY <1>5 DEF TruncateFails
  <2>2. file' \in Seq(From(ledger))
    <3>1. n \in 0 .. Len(bytes)
      BY <1>0
    <3> QED
      BY <1>1, <2>1, <3>1, CutPlaced
  <2>3. torn' /\ phase' = next /\ phase = "rewrite"
    BY <1>5 DEF TruncateFails
  <2>4. Dropping' <=> Dropping
    BY <1>0, <1>5, <2>3 DEF TruncateFails, Dropping
  <2>5. bytes' = bytes /\ buffer' = buffer /\ block_count' = block_count
    BY <1>5 DEF TruncateFails, memory
  <2>6. phase' \notin {"sync", "append"}
    BY <1>0, <2>3
  <2> QED
    BY <1>1, <2>2, <2>3, <2>4, <2>5, <2>6 DEF Holds
<1>6. CASE AppendFails
  <2>1. PICK n \in spilled .. Len(buffer) - 1 : file' = file \o SubSeq(buffer, spilled + 1, n)
    BY <1>6 DEF AppendFails
  <2>2. n \in spilled .. Len(buffer)
    BY <1>0, <2>1
  <2>3. file' \in Seq(From(ledger))
    BY <1>0, <1>1, <2>1, <2>2, WritePart
  <2>4. ASSUME ~torn PROVE Placed(ledger, file')
    <3>1. failed = {} /\ phase = "append"
      BY <1>6, <2>4 DEF AppendFails, Writing, TypeOK
    <3>2. file \o Rest(buffer, spilled) = bytes
      BY <3>1 DEF OnDisk
    <3>3. StartsWith(bytes, file')
      BY <1>0, <2>1, <2>2, <3>2, WritePart
    <3> QED
      BY <1>1, <2>4, <3>3, PlacedStart
  <2>5. /\ torn' = torn /\ bytes' = bytes /\ buffer' = buffer /\ phase' = "sync"
        /\ size' = size /\ block_count' = block_count + 1 /\ phase = "append"
        /\ peer' = peer
    BY <1>6 DEF AppendFails, Fault, peerVars
  <2>6. size = block_count'
    BY <1>0, <2>5 DEF Counters
  <2>7. ledger = peer /\ \A i \in 1 .. 2 * size : bytes[i] = CellAt(ledger, i)
    BY <2>5 DEF Holds
  <2> QED
    BY <1>1, <2>3, <2>4, <2>5, <2>6, <2>7 DEF Holds
<1> QED
  BY <1>2, <1>3, <1>4, <1>5, <1>6

(* A loaded block is the one of the ledger at that height.                 *)
LEMMA BlockHolds ==
  ASSUME TypeOK, Counters, NEW ledger \in Ledgers, Holds(ledger), LoadBlock,
         Expected(block_count + 1)
  PROVE  /\ block_count + 1 \in 1 .. MaxHeight
         /\ \A i \in 1 .. 2 * (block_count + 1) : bytes[i] = CellAt(ledger, i)
<1>1. block_count \in Nat /\ size \in Nat /\ bytes \in Seq(From(ledger))
  BY Typed DEF Holds
<1>2. Len(bytes) = 2 * size /\ block_count < size /\ phase = "parse"
  BY DEF LoadBlock, Counters
<1>3. /\ 2 * (block_count + 1) - 1 = 2 * block_count + 1
      /\ 2 * (block_count + 1) = 2 * block_count + 2
      /\ 2 * block_count + 1 \in 1 .. Len(bytes)
      /\ 2 * block_count + 2 \in 1 .. Len(bytes)
  BY <1>1, <1>2
<1> DEFINE head == bytes[2 * block_count + 1]
           tail == bytes[2 * block_count + 2]
<1>4. head \in From(ledger) /\ tail \in From(ledger)
  BY <1>1, <1>3
<1>5. Parses(head, tail)
  BY <1>3 DEF LoadBlock, RecordParses
<1>6. head.block.height = block_count + 1
  BY <1>3 DEF Expected, HeightOf
<1> HIDE DEF head, tail
<1>7. PICK h \in 1 .. MaxHeight :
        head = HeadOf(BlockAt(ledger, h)) /\ tail = TailOf(BlockAt(ledger, h))
  BY <1>4, <1>5, RecordIsBlock
<1>8. head.block.height = h
  BY <1>7 DEF HeadOf, BlockAt
<1>9. /\ head = CellAt(ledger, 2 * block_count + 1)
      /\ tail = CellAt(ledger, 2 * block_count + 2)
  BY <1>1, <1>6, <1>7, <1>8, CellAtBlock
<1>10. ~Dropping
  BY <1>2 DEF Dropping
<1>11. \A i \in 1 .. 2 * block_count : bytes[i] = CellAt(ledger, i)
  BY <1>10 DEF Holds
<1>12. ASSUME NEW i \in 1 .. 2 * (block_count + 1)
       PROVE  bytes[i] = CellAt(ledger, i)
  <2>1. i \in 1 .. 2 * block_count \/ i = 2 * block_count + 1 \/ i = 2 * block_count + 2
    BY <1>1
  <2> QED
    BY <1>9, <1>11, <2>1 DEF head, tail
<1> QED
  BY <1>6, <1>8, <1>12

(* Loading a file, truncating it and opening it again.                     *)
LEMMA LoadHolds ==
  ASSUME TypeOK, Counters, Writing, OnDisk, NEW ledger \in Ledgers, Holds(ledger),
         \/ LoadConfig \/ LoadFile \/ TruncateOpen \/ TruncateWrite \/ LoadBlock
         \/ LoadCorrupt \/ OpenAppender \/ Serve \/ Drop
  PROVE  Holds(ledger)'
<1>0. /\ bytes \in Seq(Cells) /\ file \in Seq(Cells)
      /\ Len(bytes) \in Nat /\ Len(file) \in Nat
      /\ next \in {"parse", "opening", "dropped"}
      /\ size \in Nat /\ block_count \in Nat
  BY Typed
<1>1. /\ file \in Seq(From(ledger)) /\ bytes \in Seq(From(ledger))
      /\ buffer \in Seq(From(ledger))
      /\ ~torn => Placed(ledger, file) /\ Placed(ledger, bytes)
  BY DEF Holds
<1>2. ~Dropping => \A i \in 1 .. 2 * block_count : bytes[i] = CellAt(ledger, i)
  BY DEF Holds
<1>3. CASE LoadConfig
  BY <1>3 DEF LoadConfig, Holds, Dropping, memory, appender, history
<1>4. CASE LoadFile
  <2>1. 2 * size' \in 0 .. Len(file) /\ bytes' = Cut(file, 2 * size')
    BY <1>0, <1>4, LoadFileReads
  <2>2. bytes' \in Seq(From(ledger)) /\ (Placed(ledger, file) => Placed(ledger, bytes'))
    BY <1>1, <2>1, CutPlaced
  <2>3. phase' \notin {"sync", "append"}
    BY <1>4, LoadFileReads
  <2>4. block_count' = 0 /\ file' = file /\ buffer' = buffer /\ torn' = torn
    BY <1>4 DEF LoadFile, Counters, appender, history
  <2>5. \A i \in 1 .. 2 * 0 : bytes'[i] = CellAt(ledger, i)
    OBVIOUS
  <2> QED
    BY <1>1, <2>2, <2>3, <2>4, <2>5 DEF Holds
<1>5. CASE TruncateOpen
  <2>1. <<>> \in Seq(From(ledger)) /\ Placed(ledger, <<>>)
    BY EmptyPlaced
  <2> QED
    BY <1>1, <1>2, <1>5, <2>1
       DEF TruncateOpen, Holds, Dropping, memory, appender, history, peerVars
<1>6. CASE TruncateWrite
  <2>1. Dropping' <=> Dropping
    BY <1>0, <1>6 DEF TruncateWrite, Dropping
  <2>2. phase' \notin {"sync", "append"}
    BY <1>0, <1>6 DEF TruncateWrite
  <2> QED
    BY <1>1, <1>2, <1>6, <2>1, <2>2 DEF TruncateWrite, Holds, memory, appender, history
<1>7. CASE LoadBlock
  <2>1. CASE Expected(block_count + 1)
    <3>1. \A i \in 1 .. 2 * (block_count + 1) : bytes[i] = CellAt(ledger, i)
      BY <1>7, <2>1, BlockHolds
    <3>2. /\ block_count' = block_count + 1 /\ phase' = "parse" /\ bytes' = bytes
          /\ buffer' = buffer /\ file' = file /\ torn' = torn
      BY <1>7, <2>1 DEF LoadBlock, appender, history
    <3> QED
      BY <1>1, <3>1, <3>2 DEF Holds
  <2>2. CASE ~Expected(block_count + 1)
    <3>1. Gone /\ file' = file /\ torn' = torn
      BY <1>7, <2>2 DEF LoadBlock, history
    <3> QED
      BY <1>1, <3>1, GoneHolds
  <2> QED
    BY <2>1, <2>2
<1>8. CASE LoadCorrupt
  <2>1. Truncate(bytes, block_count, "opening") /\ phase = "parse" /\ 2 * block_count <= Len(bytes)
    BY <1>0, <1>8 DEF LoadCorrupt, Counters
  <2>2. bytes' = Cut(bytes, 2 * block_count) /\ phase' = "trunc" /\ next' = "opening"
    BY <2>1 DEF Truncate
  <2>3. /\ bytes' \in Seq(From(ledger)) /\ (Placed(ledger, bytes) => Placed(ledger, bytes'))
    <3>1. 2 * block_count \in 0 .. Len(bytes)
      BY <1>0, <2>1
    <3> QED
      BY <1>1, <2>2, <3>1, CutPlaced
  <2>4. \A i \in 1 .. 2 * block_count : bytes'[i] = bytes[i]
    BY <1>0, <2>1, TruncateCuts
  <2>5. \A i \in 1 .. 2 * block_count : bytes'[i] = CellAt(ledger, i)
    BY <1>2, <2>1, <2>4 DEF Dropping
  <2>6. block_count' = block_count /\ file' = file /\ buffer' = buffer /\ torn' = torn
    BY <1>8 DEF LoadCorrupt, appender, history
  <2> QED
    BY <1>1, <2>2, <2>3, <2>5, <2>6 DEF Holds
<1>9. CASE OpenAppender \/ Serve
  BY <1>1, <1>2, <1>9 DEF OpenAppender, Serve, Holds, Dropping, memory, appender, history
<1>10. CASE Drop
  <2>1. bytes' = Cut(bytes, 2 * 0) /\ phase' = "trunc" /\ next' = "dropped"
    BY <1>10 DEF Drop, Truncate
  <2>2. 2 * 0 \in 0 .. Len(bytes)
    BY <1>0
  <2>3. bytes' \in Seq(From(ledger)) /\ (Placed(ledger, bytes) => Placed(ledger, bytes'))
    BY <1>1, <2>1, <2>2, CutPlaced
  <2>4. Dropping' /\ file' = file /\ buffer' = buffer /\ torn' = torn
    BY <1>10, <2>1 DEF Drop, Dropping, appender, history
  <2> QED
    BY <1>1, <2>1, <2>3, <2>4 DEF Holds
<1> QED
  BY <1>3, <1>4, <1>5, <1>6, <1>7, <1>8, <1>9, <1>10

(* Adding a block to memory and to the file.                               *)
LEMMA AddHolds ==
  ASSUME TypeOK, Counters, Writing, OnDisk, OnDisk', NEW ledger \in Ledgers,
         Holds(ledger), AddBlock \/ Appended \/ Spill
  PROVE  Holds(ledger)'
<1>0. /\ bytes \in Seq(Cells) /\ file \in Seq(Cells) /\ buffer \in Seq(Cells)
      /\ Len(bytes) \in Nat /\ Len(buffer) \in Nat /\ spilled \in 0 .. Len(buffer)
      /\ size \in Nat /\ block_count \in Nat
      /\ peer_height \in 0 .. MaxHeight /\ MaxHeight \in Nat
  BY Typed
<1>1. /\ file \in Seq(From(ledger)) /\ bytes \in Seq(From(ledger))
      /\ buffer \in Seq(From(ledger))
      /\ ~torn => Placed(ledger, file) /\ Placed(ledger, bytes)
  BY DEF Holds
<1>2. phase \in {"sync", "append"}
  BY DEF AddBlock, Appended, Spill
<1>3. ledger = peer /\ \A i \in 1 .. 2 * size : bytes[i] = CellAt(ledger, i)
  BY <1>2 DEF Holds
<1>4. CASE AddBlock
  <2> DEFINE block == BlockAt(peer, block_count + 1)
             cells == <<HeadOf(block), TailOf(block)>>
  <2>1. /\ bytes' = bytes \o cells /\ file' = file /\ peer' = peer
        /\ phase = "sync" /\ phase' = "append" /\ size' = size + 1
        /\ block_count' = block_count /\ block_count < peer_height
        /\ torn' = torn
        /\ buffer' = IF "append" \in failed THEN buffer ELSE buffer \o cells
    BY <1>4 DEF AddBlock, peerVars, history
  <2>2. block_count + 1 \in 1 .. MaxHeight
    BY <1>0, <2>1
  <2>3. cells \in Seq(From(ledger)) /\ Len(cells) = 2
    BY <1>3, <2>2, NextCells
  <2>4. cells[1] = CellAt(ledger, 2 * block_count + 1) /\ cells[2] = CellAt(ledger, 2 * block_count + 2)
    BY <1>0, <1>3, CellAtBlock
  <2> HIDE DEF cells
  <2>5. Len(bytes) = 2 * size /\ size = block_count
    BY <2>1 DEF Counters
  <2>6. /\ bytes' \in Seq(From(ledger)) /\ Len(bytes') = Len(bytes) + Len(cells)
        /\ \A i \in 1 .. Len(bytes) + Len(cells) :
             bytes'[i] = IF i <= Len(bytes) THEN bytes[i] ELSE cells[i - Len(bytes)]
    BY <1>1, <2>1, <2>3, ConcatProperties
  <2>7. buffer' \in Seq(From(ledger))
    BY <1>1, <2>1, <2>3, ConcatProperties
  <2>8. ASSUME NEW i \in 1 .. 2 * size'
        PROVE  bytes'[i] = CellAt(ledger, i)
    <3>1. i \in 1 .. 2 * size \/ i = 2 * size + 1 \/ i = 2 * size + 2
      BY <1>0, <2>1
    <3>2. CASE i \in 1 .. 2 * size
      BY <1>0, <1>3, <2>3, <2>5, <2>6, <3>2
    <3>3. CASE i = 2 * size + 1
      BY <1>0, <2>3, <2>4, <2>5, <2>6, <3>3
    <3>4. CASE i = 2 * size + 2
      BY <1>0, <2>3, <2>4, <2>5, <2>6, <3>4
    <3> QED
      BY <3>1, <3>2, <3>3, <3>4
  <2>9. Placed(ledger, bytes')
    BY <1>0, <2>1, <2>3, <2>5, <2>6, <2>8 DEF Placed
  <2>10. \A i \in 1 .. 2 * block_count : bytes'[i] = CellAt(ledger, i)
    BY <1>0, <2>1, <2>5, <2>8
  <2> QED
    BY <1>1, <1>3, <2>1, <2>6, <2>7, <2>8, <2>9, <2>10 DEF Holds
<1>5. CASE Appended
  <2>1. buffer' \in Seq(From(ledger))
    BY <1>0, <1>1, <1>5, RestSeq DEF Appended
  <2>2. /\ bytes' = bytes /\ file' = file /\ peer' = peer /\ torn' = torn
        /\ phase = "append" /\ phase' = "sync"
        /\ size' = size /\ block_count' = block_count + 1
    BY <1>5 DEF Appended, peerVars, history
  <2>3. size = block_count'
    BY <2>2 DEF Counters
  <2> QED
    BY <1>1, <1>3, <2>1, <2>2, <2>3 DEF Holds
<1>6. CASE Spill
  <2>1. PICK n \in 1 .. Len(buffer) : file' = file \o Cut(buffer, n)
    BY <1>6 DEF Spill
  <2>2. file' \in Seq(From(ledger))
    <3>1. n \in Int /\ n <= Len(buffer)
      BY <1>0
    <3> QED
      BY <2>1, <3>1, WrittenFrom
  <2>3. /\ bytes' = bytes /\ buffer' = buffer /\ peer' = peer /\ torn' = torn
        /\ phase' = phase /\ phase = "append" /\ "append" \notin failed
        /\ size' = size /\ block_count' = block_count
    BY <1>6 DEF Spill, peerVars, history, memory
  <2>4. ASSUME ~torn PROVE Placed(ledger, file')
    <3>1. failed = {} /\ spilled = 0
      BY <1>6, <2>3, <2>4 DEF Writing, TypeOK, Spill
    <3>2. file \o buffer = bytes
      BY <1>0, <2>3, <3>1, RestNone DEF OnDisk
    <3>3. n \in 0 .. Len(buffer)
      BY <1>0
    <3>4. StartsWith(bytes, file')
      BY <1>0, <2>1, <3>2, <3>3, WriteStart
    <3> QED
      BY <1>1, <2>4, <3>4, PlacedStart
  <2>5. ~Dropping /\ ~Dropping'
    BY <2>3 DEF Dropping
  <2>6. \A i \in 1 .. 2 * block_count : bytes[i] = CellAt(ledger, i)
    BY <2>5 DEF Holds
  <2> QED
    BY <1>1, <1>3, <2>2, <2>3, <2>4, <2>6 DEF Holds
<1> QED
  BY <1>4, <1>5, <1>6

(* Comparing the last cached block is enough: what a ledger has up to      *)
(* there, the peer has too.                                                *)
LEMMA SameStart ==
  ASSUME TypeOK, NEW ledger \in Ledgers, NEW h \in 1 .. MaxHeight,
         HeadOf(BlockAt(peer, h)) = HeadOf(BlockAt(ledger, h))
  PROVE  peer = ledger \/ \A i \in 1 .. 2 * h : CellAt(peer, i) = CellAt(ledger, i)
<1>1. BlockAt(peer, h).chain = BlockAt(ledger, h).chain
  BY DEF HeadOf
<1>2. CASE h > ForkHeight
  BY <1>1, <1>2, ConstantsAssumption DEF BlockAt, ConstantsAssumption
<1>3. CASE h <= ForkHeight
  <2> SUFFICES ASSUME NEW i \in 1 .. 2 * h
               PROVE  CellAt(peer, i) = CellAt(ledger, i)
    OBVIOUS
  <2>1. (i + 1) \div 2 <= h /\ h \in Nat /\ ForkHeight \in Nat
    BY ConstantsAssumption DEF ConstantsAssumption
  <2>2. (i + 1) \div 2 \in Nat
    BY <2>1
  <2>3. (i + 1) \div 2 <= ForkHeight
    BY <1>3, <2>1, <2>2
  <2> QED
    BY <2>3 DEF CellAt, BlockAt
<1>4. h \in Int /\ ForkHeight \in Int
  BY ConstantsAssumption DEF ConstantsAssumption
<1> QED
  BY <1>2, <1>3, <1>4

(* After the comparison the cells are from the ledger of the peer. *)
LEMMA StartHolds ==
  ASSUME TypeOK, Counters, Writing, OnDisk, NEW ledger \in Ledgers,
         Holds(ledger), StartSync
  PROVE  Holds(peer)'
<1>0. /\ bytes \in Seq(Cells) /\ Len(bytes) \in Nat
      /\ size \in Nat /\ block_count \in Nat /\ peer \in Ledgers
      /\ peer_height \in 0 .. MaxHeight /\ MaxHeight \in Nat
  BY Typed
<1>1. /\ phase = "check" /\ phase' = "sync" /\ LastBlockMatches
      /\ UNCHANGED <<peer, peer_height, file, bytes, size, block_count, buffer, torn>>
  BY DEF StartSync, peerVars, memory, appender, history
<1>2. size = block_count /\ Len(bytes) = 2 * block_count
  BY <1>1 DEF Counters
<1>3. buffer = <<>> /\ StartsWith(bytes, file)
  BY <1>1 DEF Writing, OnDisk
<1>4. /\ file \in Seq(From(ledger)) /\ bytes \in Seq(From(ledger))
      /\ ~torn => Placed(ledger, file) /\ Placed(ledger, bytes)
      /\ \A i \in 1 .. 2 * block_count : bytes[i] = CellAt(ledger, i)
  BY <1>1 DEF Holds, Dropping
<1>5. \/ peer = ledger
      \/ \A i \in 1 .. 2 * block_count : CellAt(peer, i) = CellAt(ledger, i)
  <2>1. CASE block_count = 0
    BY <2>1
  <2>2. CASE block_count > 0
    <3>1. /\ block_count \in 1 .. MaxHeight
          /\ HeadOf(BlockAt(peer, block_count)) = bytes[2 * block_count - 1]
      BY <1>0, <1>1, <2>2 DEF LastBlockMatches
    <3>2. bytes[2 * block_count - 1] = CellAt(ledger, 2 * (block_count - 1) + 1)
      BY <1>0, <1>4, <2>2
    <3>3. block_count - 1 \in Nat /\ block_count - 1 + 1 = block_count
      BY <1>0, <2>2
    <3>4. CellAt(ledger, 2 * (block_count - 1) + 1) = HeadOf(BlockAt(ledger, block_count))
      BY <3>3, CellAtBlock
    <3> QED
      BY <3>1, <3>2, <3>4, SameStart
  <2> QED
    BY <1>0, <2>1, <2>2
<1>6. \A i \in 1 .. 2 * block_count : bytes[i] = CellAt(peer, i)
  BY <1>4, <1>5
<1>7. bytes \in Seq(From(peer)) /\ Placed(peer, bytes)
  <2>1. block_count <= MaxHeight
    BY <1>0, <1>1 DEF LastBlockMatches
  <2>2. \A i \in 1 .. Len(bytes) : bytes[i] \in From(peer)
    BY <1>0, <1>2, <1>6, <2>1 DEF From
  <2>3. bytes \in Seq(From(peer))
    BY <1>0, <2>2
  <2> QED
    BY <1>2, <1>6, <2>3 DEF Placed
<1>8. file \in Seq(From(peer)) /\ Placed(peer, file)
  <2>1. Len(file) \in 0 .. Len(bytes) /\ file = Cut(bytes, Len(file))
    BY <1>3, <1>4 DEF StartsWith
  <2> QED
    BY <1>3, <1>7, <2>1, CutSeq, PlacedStart
<1>9. <<>> \in Seq(From(peer))
  BY EmptyPlaced
<1>10. \A i \in 1 .. 2 * size' : bytes'[i] = CellAt(peer, i)
  BY <1>1, <1>2, <1>6
<1>11. \A i \in 1 .. 2 * block_count' : bytes'[i] = CellAt(peer, i)
  BY <1>1, <1>6
<1> QED
  BY <1>1, <1>3, <1>7, <1>8, <1>9, <1>10, <1>11 DEF Holds

(* One ledger explains all cells, after every step.                        *)
LEMMA OneLedgerKept ==
  ASSUME TypeOK, Counters, Writing, OnDisk, OnDisk', OneLedger, [Next]_vars
  PROVE  OneLedger'
<1>1. PICK ledger \in Ledgers : Holds(ledger)
  BY DEF OneLedger
<1>2. CASE PeerCommit \/ ReplacePeer \/ Damage \/ TruncateFails \/ AppendFails
  BY <1>1, <1>2, EnvironmentHolds DEF OneLedger
<1>3. CASE Exit \/ ExitInWrite \/ Crash \/ DropExit
  BY <1>1, <1>3, EndHolds DEF OneLedger
<1>4. CASE \/ LoadConfig \/ LoadFile \/ TruncateOpen \/ TruncateWrite \/ LoadBlock
           \/ LoadCorrupt \/ OpenAppender \/ Serve \/ Drop
  BY <1>1, <1>4, LoadHolds DEF OneLedger
<1>5. CASE StartSync
  <2>1. Holds(peer)' /\ peer \in Ledgers /\ peer' = peer
    BY <1>1, <1>5, StartHolds, Typed DEF StartSync, peerVars
  <2> QED
    BY <2>1 DEF OneLedger
<1>6. CASE AddBlock \/ Appended \/ Spill
  BY <1>1, <1>6, AddHolds DEF OneLedger
<1>7. CASE UNCHANGED vars
  <2>1. Holds(ledger)'
    BY <1>1, <1>7 DEF vars, peerVars, memory, appender, history, Holds, Dropping
  <2> QED
    BY <2>1 DEF OneLedger
<1> QED
  BY Steps, <1>2, <1>3, <1>4, <1>5, <1>6, <1>7
-----------------------------------------------------------------------------
(* The invariant.                                                          *)

(* Cells of a ledger are cells. *)
LEMMA CellsTyped ==
  ASSUME OneLedger'
  PROVE  file' \in Seq(Cells) /\ bytes' \in Seq(Cells) /\ buffer' \in Seq(Cells)
<1>1. PICK ledger \in Ledgers : Holds(ledger)'
  BY DEF OneLedger
<1>2. /\ file' \in Seq(From(ledger)) /\ bytes' \in Seq(From(ledger))
      /\ buffer' \in Seq(From(ledger))
  BY <1>1 DEF Holds
<1>3. From(ledger) \subseteq Cells
  BY FromIsCells
<1> HIDE DEF From, Cells
<1> QED
  BY <1>2, <1>3

(* The counters stay in their ranges. *)
LEMMA CountersTyped ==
  ASSUME TypeOK, Counters, OneLedger, [Next]_vars
  PROVE  /\ peer' \in Ledgers /\ peer_height' \in 0 .. MaxHeight
         /\ size' \in Nat /\ block_count' \in 0 .. MaxHeight
<1>0. /\ peer \in Ledgers /\ peer_height \in 0 .. MaxHeight /\ MaxHeight \in Nat
      /\ size \in Nat /\ block_count \in Nat /\ block_count <= MaxHeight
      /\ 2 * size <= Len(bytes)
  BY Typed DEF TypeOK
<1>1. CASE PeerCommit \/ ReplacePeer
  BY <1>0, <1>1 DEF PeerCommit, ReplacePeer, memory
<1>2. CASE AppendFails \/ Appended
  BY <1>0, <1>2 DEF AppendFails, Appended, Counters, peerVars
<1>3. CASE Exit \/ ExitInWrite \/ Crash \/ DropExit
  BY <1>0, <1>3 DEF Exit, ExitInWrite, Crash, DropExit, Gone, peerVars
<1>4. CASE LoadFile
  BY <1>0, <1>4, LoadFileReads DEF LoadFile, peerVars
<1>5. CASE LoadCorrupt \/ Drop
  BY <1>0, <1>5 DEF LoadCorrupt, Drop, Truncate, peerVars
<1>6. CASE AddBlock
  BY <1>0, <1>6 DEF AddBlock, peerVars
<1>7. CASE \/ Damage \/ TruncateFails \/ LoadConfig \/ TruncateOpen \/ TruncateWrite
           \/ OpenAppender \/ Serve \/ StartSync \/ Spill \/ UNCHANGED vars
  BY <1>0, <1>7 DEF Damage, TruncateFails, LoadConfig, TruncateOpen, TruncateWrite,
     OpenAppender, Serve, StartSync, Spill, vars, memory, peerVars
<1>8. CASE LoadBlock
  <2>1. CASE Expected(block_count + 1)
    <3>1. block_count' = block_count + 1 /\ peer' = peer /\ peer_height' = peer_height /\ size' = size
      BY <1>8, <2>1 DEF LoadBlock, peerVars
    <3>2. block_count + 1 \in 1 .. MaxHeight
      BY <1>8, <2>1, BlockHolds DEF OneLedger
    <3> QED
      BY <1>0, <3>1, <3>2
  <2>2. CASE ~Expected(block_count + 1)
    BY <1>0, <1>8, <2>2 DEF LoadBlock, Gone, peerVars
  <2> QED
    BY <2>1, <2>2
<1> QED
  BY Steps, <1>1, <1>2, <1>3, <1>4, <1>5, <1>6, <1>7, <1>8

(* The phases stay in their ranges. *)
LEMMA PhasesTyped ==
  ASSUME TypeOK, [Next]_vars
  PROVE  /\ phase' \in {"down", "load", "parse", "trunc", "rewrite", "opening", "check",
                        "serve", "dropped", "sync", "append"}
         /\ next' \in {"parse", "opening", "dropped"}
         /\ disable_sync' \in BOOLEAN
         /\ failed' \subseteq {"append", "rewrite"}
<1>0. /\ phase \in {"down", "load", "parse", "trunc", "rewrite", "opening", "check",
                    "serve", "dropped", "sync", "append"}
      /\ next \in {"parse", "opening", "dropped"}
      /\ failed \subseteq {"append", "rewrite"}
      /\ disable_sync \in BOOLEAN
  BY DEF TypeOK
<1>1. CASE Gone /\ UNCHANGED disable_sync
  BY <1>0, <1>1 DEF Gone
<1>2. CASE PeerCommit \/ ReplacePeer \/ Damage
  BY <1>0, <1>2 DEF PeerCommit, ReplacePeer, Damage, appender
<1>3. CASE TruncateFails \/ AppendFails
  BY <1>0, <1>3 DEF TruncateFails, AppendFails
<1>4. CASE LoadConfig \/ LoadFile \/ TruncateOpen \/ TruncateWrite
  BY <1>0, <1>4 DEF LoadConfig, LoadFile, Truncate, TruncateOpen, TruncateWrite, appender
<1>5. CASE LoadBlock
  BY <1>0, <1>1, <1>5 DEF LoadBlock, appender
<1>6. CASE LoadCorrupt \/ OpenAppender \/ Serve \/ StartSync \/ Drop
  BY <1>0, <1>6 DEF LoadCorrupt, Drop, Truncate, OpenAppender, Serve, StartSync, appender
<1>7. CASE AddBlock \/ Appended \/ Spill \/ UNCHANGED vars
  BY <1>0, <1>7 DEF AddBlock, Appended, Spill, vars, appender
<1> QED
  BY Steps, <1>1, <1>2, <1>3, <1>4, <1>5, <1>6, <1>7
     DEF Exit, ExitInWrite, Crash, DropExit

(* The number of faults stays within its bound. *)
LEMMA HistoryTyped ==
  ASSUME TypeOK, [Next]_vars
  PROVE  torn' \in BOOLEAN /\ faults' \in 0 .. MaxFaults
<1> DEFINE Torn == torn' = torn \/ torn' = TRUE \/ torn' = (torn \/ "append" \in failed)
<1>1. (OneFault \/ UNCHANGED faults) /\ Torn
  BY Steps, Zenon DEF PeerCommit, ReplacePeer, Damage, TruncateFails, AppendFails, Exit,
     ExitInWrite, Crash, LoadConfig, LoadFile, TruncateOpen, TruncateWrite, LoadBlock,
     LoadCorrupt, OpenAppender, Serve, StartSync, Drop, DropExit, AddBlock, Appended,
     Spill, vars, history, Fault, OneFault
<1>2. torn' \in BOOLEAN
  BY <1>1, Zenon DEF TypeOK
<1>3. faults \in 0 .. MaxFaults /\ MaxFaults \in Nat
  BY ConstantsAssumption DEF TypeOK, ConstantsAssumption
<1>4. faults' \in 0 .. MaxFaults
  <2>1. OneFault \/ faults' = faults
    BY <1>1
  <2> QED
    BY <1>3, <2>1 DEF OneFault
<1> QED
  BY <1>2, <1>4

(* No more is spilled than is in the buffer. *)
LEMMA SpilledTyped ==
  ASSUME TypeOK, Writing, buffer' \in Seq(Cells), [Next]_vars
  PROVE  spilled' \in 0 .. Len(buffer')
<1>0. /\ spilled \in 0 .. Len(buffer) /\ Len(buffer) \in Nat
      /\ Len(buffer') \in Nat
  BY Typed
<1>1. CASE spilled' = 0
  BY <1>0, <1>1
<1>2. CASE UNCHANGED <<buffer, spilled>>
  BY <1>0, <1>2
<1>3. CASE Spill
  BY <1>0, <1>3 DEF Spill
<1>4. CASE AddBlock
  BY <1>0, <1>1, <1>4 DEF AddBlock, Writing
<1>5. CASE PeerCommit \/ ReplacePeer \/ Damage \/ TruncateFails \/ UNCHANGED vars
  BY <1>2, <1>5 DEF PeerCommit, ReplacePeer, Damage, TruncateFails, vars, appender
<1>6. CASE Exit \/ ExitInWrite \/ Crash \/ DropExit \/ AppendFails \/ Appended
  BY <1>1, <1>6 DEF Exit, ExitInWrite, Crash, DropExit, AppendFails, Appended, Gone
<1>7. CASE LoadConfig \/ LoadFile \/ TruncateOpen \/ TruncateWrite
  BY <1>2, <1>7 DEF LoadConfig, LoadFile, TruncateOpen, TruncateWrite, appender
<1>8. CASE LoadBlock
  BY <1>1, <1>2, <1>8 DEF LoadBlock, appender, Gone
<1>9. CASE LoadCorrupt \/ OpenAppender \/ Serve \/ StartSync \/ Drop
  BY <1>2, <1>9 DEF LoadCorrupt, OpenAppender, Serve, StartSync, Drop, appender
<1> QED
  BY Steps, <1>3, <1>4, <1>5, <1>6, <1>7, <1>8, <1>9

(* An empty cache and no process. *)
LEMMA InvInit ==
  ASSUME Init
  PROVE  Inv
<1>0. /\ peer \in Ledgers /\ peer_height \in 0 .. MaxHeight /\ file = <<>>
      /\ phase = "down" /\ next = "parse" /\ bytes = <<>> /\ size = 0
      /\ block_count = 0 /\ buffer = <<>> /\ spilled = 0 /\ failed = {}
      /\ faults = 0 /\ torn = FALSE /\ disable_sync = FALSE
  BY DEF Init
<1>1. TypeOK
  <2>1. MaxHeight \in Nat /\ MaxFaults \in Nat
    BY ConstantsAssumption DEF ConstantsAssumption
  <2>2. /\ <<>> \in Seq(Cells) /\ Len(<<>>) = 0
        /\ 0 \in 0 .. MaxHeight /\ 0 \in 0 .. MaxFaults /\ 0 \in 0 .. 0 /\ 2 * 0 <= 0
    BY <2>1
  <2>3. disable_sync \in BOOLEAN /\ torn \in BOOLEAN
    BY <1>0, Zenon
  <2> QED
    BY <1>0, <2>2, <2>3 DEF TypeOK
<1>2. Counters /\ Writing /\ OnDisk
  BY <1>0 DEF Counters, Dropping, Writing, OnDisk
<1>3. Holds(peer)
  <2>1. <<>> \in Seq(From(peer)) /\ Placed(peer, <<>>)
    BY EmptyPlaced
  <2>2. \A i \in 1 .. 2 * 0 : bytes[i] = CellAt(peer, i)
    OBVIOUS
  <2> QED
    BY <1>0, <2>1, <2>2 DEF Holds
<1> QED
  BY <1>0, <1>1, <1>2, <1>3 DEF Inv, OneLedger

(* Every step keeps the invariant. *)
LEMMA InvStep ==
  ASSUME Inv, [Next]_vars
  PROVE  Inv'
<1> USE DEF Inv
<1>1. Counters'
  BY CountersKept
<1>2. Writing'
  BY WritingKept
<1>3. OnDisk'
  BY OnDiskKept
<1>4. OneLedger'
  BY <1>3, OneLedgerKept
<1>5. file' \in Seq(Cells) /\ bytes' \in Seq(Cells) /\ buffer' \in Seq(Cells)
  BY <1>4, CellsTyped
<1>6. spilled' \in 0 .. Len(buffer')
  BY <1>5, SpilledTyped
<1>7. /\ peer' \in Ledgers /\ peer_height' \in 0 .. MaxHeight
      /\ size' \in Nat /\ block_count' \in 0 .. MaxHeight
  BY CountersTyped
<1>8. 2 * size' <= Len(bytes')
  <2>1. Len(bytes') = 2 * size'
    BY <1>1 DEF Counters
  <2>2. ASSUME NEW n \in Nat PROVE 2 * n <= 2 * n
    OBVIOUS
  <2>3. size' \in Nat
    BY <1>7, Zenon
  <2> QED
    BY <2>1, <2>2, <2>3, Zenon
<1>9. TypeOK'
  BY <1>5, <1>6, <1>7, <1>8, PhasesTyped, HistoryTyped DEF TypeOK
<1> QED
  BY <1>1, <1>2, <1>3, <1>4, <1>9

(* The invariant of memory, file and buffer.                               *)
THEOREM InvAlways == Spec => []Inv
<1>1. Init => Inv
  BY InvInit
<1>2. Inv /\ [Next]_vars => Inv'
  BY InvStep
<1> QED
  BY <1>1, <1>2, PTL DEF Spec
-----------------------------------------------------------------------------
(* What the properties follow from.                                        *)

(* CellsOf as a sequence. *)
LEMMA CellsOfLedger ==
  ASSUME NEW ledger, NEW n \in 0 .. MaxHeight
  PROVE  /\ CellsOf(ledger, n) \in Seq(From(ledger))
         /\ Len(CellsOf(ledger, n)) = 2 * n
         /\ \A i \in 1 .. 2 * n : CellsOf(ledger, n)[i] = CellAt(ledger, i)
<1>1. MaxHeight \in Nat /\ n \in Nat /\ 2 * n \in Nat
  BY ConstantsAssumption DEF ConstantsAssumption
<1>2. CellsOf(ledger, n) = [i \in 1 .. 2 * n |-> CellAt(ledger, i)]
  BY DEF CellsOf, CellAt
<1>3. \A i \in 1 .. 2 * n : CellAt(ledger, i) \in From(ledger)
  BY <1>1 DEF From
<1>4. [i \in 1 .. 2 * n |-> CellAt(ledger, i)] \in [1 .. 2 * n -> From(ledger)]
  BY <1>3
<1>5. CellsOf(ledger, n) \in [1 .. 2 * n -> From(ledger)]
  BY <1>2, <1>4
<1>6. CellsOf(ledger, n) \in Seq(From(ledger)) /\ Len(CellsOf(ledger, n)) = 2 * n
  BY <1>1, <1>5
<1> QED
  BY <1>2, <1>6

(* The indexed blocks are the first blocks of a ledger.                    *)
LEMMA IndexedBlocks ==
  ASSUME TypeOK, Counters, NEW ledger \in Ledgers, Holds(ledger),
         phase \notin {"trunc", "rewrite", "dropped"}
  PROVE  Cut(bytes, 2 * block_count) = CellsOf(ledger, block_count)
<1>1. /\ size \in Nat /\ block_count \in Nat /\ block_count \in 0 .. MaxHeight
      /\ bytes \in Seq(From(ledger)) /\ Len(bytes) = 2 * size
  BY Typed DEF Holds, Counters
<1>2. block_count <= size
  BY <1>1, Typed DEF Counters
<1>3. 2 * block_count \in 0 .. Len(bytes)
  BY <1>1, <1>2
<1>4. /\ Cut(bytes, 2 * block_count) \in Seq(From(ledger))
      /\ Len(Cut(bytes, 2 * block_count)) = 2 * block_count
      /\ \A i \in 1 .. 2 * block_count : Cut(bytes, 2 * block_count)[i] = bytes[i]
  BY <1>1, <1>3, CutSeq
<1>5. \A i \in 1 .. 2 * block_count : bytes[i] = CellAt(ledger, i)
  BY DEF Holds, Dropping
<1>6. /\ CellsOf(ledger, block_count) \in Seq(From(ledger))
      /\ Len(CellsOf(ledger, block_count)) = 2 * block_count
      /\ \A i \in 1 .. 2 * block_count :
           CellsOf(ledger, block_count)[i] = CellAt(ledger, i)
  BY <1>1, CellsOfLedger
<1> DEFINE s == Cut(bytes, 2 * block_count)
           t == CellsOf(ledger, block_count)
<1>7. /\ s \in Seq(From(ledger)) /\ t \in Seq(From(ledger)) /\ Len(s) = Len(t)
      /\ \A i \in 1 .. Len(s) : s[i] = t[i]
  BY <1>4, <1>5, <1>6
<1> HIDE DEF s, t
<1>8. s = t
  BY <1>7, SeqEqual
<1> QED
  BY <1>8 DEF s, t

(* The ledger that explains all cells is the one of LoadsOneLedger, and the *)
(* one of the peer while it is followed.                                   *)
LEMMA InvLoads ==
  ASSUME Inv
  PROVE  LoadsOneLedger /\ SyncsOwnLedger
<1>1. PICK ledger \in Ledgers : Holds(ledger)
  BY DEF Inv, OneLedger
<1>2. phase \notin {"trunc", "rewrite", "dropped"} =>
        Cut(bytes, 2 * block_count) = CellsOf(ledger, block_count)
  BY <1>1, IndexedBlocks DEF Inv
<1>3. phase \in {"sync", "append"} => ledger = peer
  BY <1>1 DEF Holds
<1> QED
  BY <1>2, <1>3 DEF LoadsOneLedger, SyncsOwnLedger

(* While nothing is written, the buffer is what the file is missing. *)
LEMMA InvExits ==
  ASSUME Inv
  PROVE  ExitKeepsAll
<1> SUFFICES ASSUME phase \in {"check", "serve", "sync"}
             PROVE  /\ failed = {} => file \o buffer = bytes
                    /\ failed = {"append"} => file = Cut(bytes, Len(file))
                    /\ size = block_count
                    /\ Len(bytes) = 2 * size
  BY DEF ExitKeepsAll
<1>1. spilled = 0
  BY DEF Inv, Writing
<1>2. Rest(buffer, 0) = buffer
  BY Typed, RestNone DEF Inv
<1>3. failed = {} => file \o Rest(buffer, spilled) = bytes
  BY DEF Inv, OnDisk
<1>4. failed = {"append"} => file = Cut(bytes, Len(file))
  BY DEF Inv, OnDisk, StartsWith
<1>5. size = block_count /\ Len(bytes) = 2 * size
  BY DEF Inv, Counters
<1> QED
  BY <1>1, <1>2, <1>3, <1>4, <1>5

(* A record in its place that parses has the height of its place. *)
LEMMA InvLoadFails ==
  ASSUME Inv
  PROVE  LoadFailsOnlyTorn
<1> SUFFICES ASSUME ~torn, phase = "parse", block_count < size,
                    RecordParses(block_count + 1)
             PROVE  Expected(block_count + 1)
  BY DEF LoadFailsOnlyTorn, LoadNeverFails
<1>1. PICK ledger \in Ledgers : Holds(ledger)
  BY DEF Inv, OneLedger
<1>2. block_count \in Nat /\ size \in Nat /\ Len(bytes) = 2 * size
  BY Typed DEF Inv, Counters
<1>3. 2 * (block_count + 1) - 1 = 2 * block_count + 1 /\ 2 * block_count + 1 \in 1 .. Len(bytes)
  BY <1>2
<1> DEFINE head == bytes[2 * block_count + 1]
<1>4. head \in {CellAt(ledger, 2 * block_count + 1), Junk}
  BY <1>1, <1>3 DEF Holds, Placed
<1>5. head.part = "head"
  BY <1>3 DEF RecordParses, Parses
<1>6. HeightOf(block_count + 1) = head.block.height
  BY <1>3 DEF HeightOf
<1> HIDE DEF head
<1>7. head = CellAt(ledger, 2 * block_count + 1)
  BY <1>4, <1>5 DEF Junk
<1>8. head = HeadOf(BlockAt(ledger, block_count + 1))
  BY <1>2, <1>7, CellAtBlock
<1>9. head.block.height = block_count + 1
  BY <1>8 DEF HeadOf, BlockAt
<1> QED
  BY <1>6, <1>9 DEF Expected

(* Only a drop makes memory smaller than the index. *)
LEMMA InvIndexed ==
  ASSUME Inv
  PROVE  IndexedInMemory
<1>1. /\ size \in Nat /\ block_count \in Nat /\ next \in {"parse", "opening", "dropped"}
      /\ phase \in {"down", "load", "parse", "trunc", "rewrite", "opening", "check",
                    "serve", "dropped", "sync", "append"}
  BY Typed DEF Inv
<1> QED
  BY <1>1 DEF Inv, Counters, IndexedInMemory

(* A file of whole blocks of a ledger is read whole, and all its records   *)
(* parse.                                                                  *)
LEMMA WholeBlocks ==
  ASSUME NEW ledger \in Ledgers, NEW n \in 0 .. MaxHeight, 2 * MaxHeight <= IntMax
  PROVE  /\ Len(CellsOf(ledger, n)) = 2 * n
         /\ n <= Complete(CellsOf(ledger, n))
         /\ \A j \in 1 .. n :
              Parses(CellsOf(ledger, n)[2 * j - 1], CellsOf(ledger, n)[2 * j])
<1> DEFINE f == CellsOf(ledger, n)
<1>0. MaxHeight \in Nat /\ IntMax \in Nat /\ n \in Nat /\ n <= MaxHeight
  BY ConstantsAssumption DEF ConstantsAssumption
<1>1. /\ f \in Seq(From(ledger)) /\ Len(f) = 2 * n
      /\ \A i \in 1 .. 2 * n : f[i] = CellAt(ledger, i)
  BY CellsOfLedger
<1> HIDE DEF f
<1>2. ASSUME NEW j \in 1 .. n
      PROVE  /\ f[2 * j - 1] = HeadOf(BlockAt(ledger, j))
             /\ f[2 * j] = TailOf(BlockAt(ledger, j))
  <2>1. /\ j - 1 \in Nat /\ j - 1 + 1 = j
        /\ 2 * j - 1 = 2 * (j - 1) + 1 /\ 2 * j = 2 * (j - 1) + 2
        /\ 2 * j - 1 \in 1 .. 2 * n /\ 2 * j \in 1 .. 2 * n
    BY <1>0
  <2>2. /\ CellAt(ledger, 2 * (j - 1) + 1) = HeadOf(BlockAt(ledger, j - 1 + 1))
        /\ CellAt(ledger, 2 * (j - 1) + 2) = TailOf(BlockAt(ledger, j - 1 + 1))
    BY <2>1, CellAtBlock
  <2>3. f[2 * j - 1] = CellAt(ledger, 2 * j - 1) /\ f[2 * j] = CellAt(ledger, 2 * j)
    BY <1>1, <2>1
  <2> QED
    BY <2>1, <2>2, <2>3
<1>3. \A block : HeadOf(block).part = "head" /\ Parses(HeadOf(block), TailOf(block))
  BY DEF HeadOf, TailOf, Parses
<1>4. \A j \in 1 .. n : f[2 * j - 1].part = "head" /\ Parses(f[2 * j - 1], f[2 * j])
  BY <1>2, <1>3, Zenon
<1>5. AsInt(Len(f)) = 2 * n
  <2>1. 2 * n \in Nat /\ 2 * n <= IntMax
    BY <1>0
  <2> QED
    BY <1>1, <2>1, AsIntBelow
<1>6. n \in 0 .. Len(f) /\ 2 * n <= AsInt(Len(f))
  BY <1>0, <1>1, <1>5
<1>7. n <= Complete(f)
  BY <1>1, <1>4, <1>6, CompleteRecords
<1> QED
  BY <1>1, <1>4, <1>7 DEF f

(* Neither truncation of load finds a file of whole blocks. *)
LEMMA OnlyCorruptedKept ==
  ASSUME Inv, OnlyCorruptedTruncated, [Next]_vars, 2 * MaxHeight <= IntMax
  PROVE  OnlyCorruptedTruncated'
<1> SUFFICES ASSUME phase' = "trunc", next' # "dropped", failed' = {},
                    NEW ledger \in Ledgers, NEW n \in 0 .. MaxHeight,
                    file' = CellsOf(ledger, n)
             PROVE  FALSE
  BY DEF OnlyCorruptedTruncated
<1>0. /\ file \in Seq(Cells) /\ Len(file) \in Nat /\ bytes \in Seq(Cells)
      /\ block_count \in Nat /\ size \in Nat /\ Len(bytes) = 2 * size
      /\ n \in Nat /\ next \in {"parse", "opening", "dropped"}
  BY Typed DEF Inv, Counters
<1>1. /\ Len(file') = 2 * n /\ n <= Complete(file')
      /\ \A j \in 1 .. n : Parses(file'[2 * j - 1], file'[2 * j])
  BY WholeBlocks
<1>2. CASE UNCHANGED <<phase, next, failed, file>>
  BY <1>2 DEF OnlyCorruptedTruncated
<1>3. CASE LoadFile
  <2>1. file' = file
    BY <1>3 DEF LoadFile
  <2>2. Complete(file) \in Nat
    BY <1>0, CompleteRecords
  <2>3. 2 * Complete(file) < Len(file)
    BY <1>3 DEF LoadFile
  <2> QED
    BY <1>0, <1>1, <2>1, <2>2, <2>3
<1>4. CASE LoadCorrupt
  <2>1. /\ phase = "parse" /\ block_count < size /\ file' = file /\ failed = {}
        /\ ~RecordParses(block_count + 1)
    BY <1>4 DEF LoadCorrupt, appender
  <2>2. bytes = file
    <3>1. file \o Rest(<<>>, 0) = bytes
      BY <2>1 DEF Inv, OnDisk, Writing
    <3> QED
      BY <1>0, <3>1, StartsWithItself
  <2>3. block_count + 1 \in 1 .. n
    BY <1>0, <1>1, <2>1, <2>2
  <2>4. Parses(bytes[2 * (block_count + 1) - 1], bytes[2 * (block_count + 1)])
    BY <1>1, <2>1, <2>2, <2>3
  <2> QED
    BY <2>1, <2>4 DEF RecordParses
<1>5. CASE PeerCommit \/ ReplacePeer \/ Damage \/ UNCHANGED vars
  BY <1>2, <1>5 DEF PeerCommit, ReplacePeer, Damage, vars, appender
<1>6. CASE \/ TruncateFails \/ AppendFails \/ Exit \/ ExitInWrite \/ Crash \/ DropExit
           \/ AddBlock \/ Appended \/ Spill
  BY <1>0, <1>6 DEF TruncateFails, AppendFails, Exit, ExitInWrite, Crash, DropExit,
     AddBlock, Appended, Spill, Gone
<1>7. CASE \/ LoadConfig \/ TruncateOpen \/ TruncateWrite \/ LoadBlock
           \/ OpenAppender \/ Serve \/ StartSync \/ Drop
  BY <1>0, <1>7 DEF LoadConfig, TruncateOpen, TruncateWrite, LoadBlock, OpenAppender,
     Serve, StartSync, Drop, Truncate, Gone
<1> QED
  BY Steps, <1>3, <1>4, <1>5, <1>6, <1>7
-----------------------------------------------------------------------------
(* The theorems.                                                           *)

(* Memory, file and buffer hold cells of blocks, and the counters stay in  *)
(* their ranges, whatever is cut off, damaged or lost.                     *)
THEOREM TypeCorrect == Spec => []TypeOK
<1>1. Inv => TypeOK
  BY DEF Inv
<1> QED
  BY <1>1, InvAlways, PTL

(* What load has indexed is the beginning of one ledger.                   *)
THEOREM LoadsOneLedgerAlways == Spec => []LoadsOneLedger
<1>1. Inv => LoadsOneLedger
  BY InvLoads
<1> QED
  BY <1>1, InvAlways, PTL

(* The cache that the last block is compared for, and that addBlock adds   *)
(* to, is the beginning of the peer's own ledger.                          *)
THEOREM SyncsOwnLedgerAlways == Spec => []SyncsOwnLedger
<1>1. Inv => SyncsOwnLedger
  BY InvLoads
<1> QED
  BY <1>1, InvAlways, PTL

(* Between two blocks flush has all that the file is missing.              *)
THEOREM ExitKeepsAllAlways == Spec => []ExitKeepsAll
<1>1. Inv => ExitKeepsAll
  BY InvExits
<1> QED
  BY <1>1, InvAlways, PTL

(* load ends the process for no cached block unless a write was cut short. *)
THEOREM LoadFailsOnlyTornAlways == Spec => []LoadFailsOnlyTorn
<1>1. Inv => LoadFailsOnlyTorn
  BY InvLoadFails
<1> QED
  BY <1>1, InvAlways, PTL

(* commandsJson finds every indexed block in memory.                       *)
THEOREM IndexedInMemoryAlways == Spec => []IndexedInMemory
<1>1. Inv => IndexedInMemory
  BY InvIndexed
<1> QED
  BY <1>1, InvAlways, PTL

(* load truncates no file of whole blocks, as long as an int can count     *)
(* what is in it.                                                          *)
THEOREM OnlyCorruptedTruncatedAlways ==
  ASSUME 2 * MaxHeight <= IntMax
  PROVE  Spec => []OnlyCorruptedTruncated
<1>1. Init => OnlyCorruptedTruncated
  BY DEF Init, OnlyCorruptedTruncated
<1>2. Inv /\ OnlyCorruptedTruncated /\ [Next]_vars => OnlyCorruptedTruncated'
  BY OnlyCorruptedKept
<1> QED
  BY <1>1, <1>2, InvAlways, PTL DEF Spec
-----------------------------------------------------------------------------
(* BlockCache implements LedgerFollower.                                   *)

(* Every step is a step of the follower or leaves it alone.                *)
LEMMA StepFollows ==
  ASSUME Inv, [Next]_vars
  PROVE  [Follower!Next]_(Follower!vars)
<1> SUFFICES Follower!Next \/ UNCHANGED Follower!vars
  OBVIOUS
<1> DEFINE following == phase \in {"sync", "append"}
           following2 == phase' \in {"sync", "append"}
<1>0. /\ peer_height \in 0 .. MaxHeight /\ block_count \in Nat /\ size \in Nat
      /\ peer_height \in Nat /\ next \in {"parse", "opening", "dropped"}
  BY Typed DEF Inv
<1>1. block_count' \in Nat /\ peer_height' \in Nat
  <2>1. /\ peer_height' \in 0 .. MaxHeight /\ block_count' \in 0 .. MaxHeight
    BY CountersTyped DEF Inv
  <2> QED
    BY <2>1
<1>2. CASE PeerCommit
  BY <1>2 DEF PeerCommit, memory, Follower!Next, Follower!Grow
<1>3. CASE ~following /\ ~following2
  <2>1. Follower!Reload
    BY <1>1, <1>3, Zenon DEF Follower!Reload
  <2> QED
    BY <2>1 DEF Follower!Next
<1>4. CASE following /\ ~following2 /\ peer_height' = peer_height
  <2>1. Follower!Stop
    BY <1>1, <1>4, Zenon DEF Follower!Stop
  <2> QED
    BY <2>1 DEF Follower!Next
<1>5. CASE StartSync
  <2>1. phase = "check" /\ phase' = "sync" /\ block_count <= peer_height
    BY <1>0, <1>5 DEF StartSync, LastBlockMatches
  <2>2. peer_height' = peer_height /\ block_count' = block_count
    BY <1>5 DEF StartSync, peerVars, memory
  <2>3. Follower!Start
    BY <2>1, <2>2 DEF Follower!Start
  <2> QED
    BY <2>3 DEF Follower!Next
<1>6. CASE AppendFails \/ Appended
  <2>1. /\ phase = "append" /\ phase' = "sync" /\ peer_height' = peer_height
        /\ block_count' = block_count + 1
    BY <1>6 DEF AppendFails, Appended, peerVars
  <2>2. block_count + 1 \in (block_count + 1) .. peer_height
    BY <1>0, <2>1 DEF Inv, Counters
  <2>3. Follower!Follow
    BY <2>1, <2>2 DEF Follower!Follow
  <2> QED
    BY <2>3 DEF Follower!Next
<1>7. CASE AddBlock \/ Spill
  <2>1. /\ phase \in {"sync", "append"} /\ phase' \in {"sync", "append"}
        /\ peer_height' = peer_height /\ block_count' = block_count
    BY <1>7 DEF AddBlock, Spill, peerVars, memory
  <2> QED
    BY <2>1 DEF Follower!vars
<1>8. CASE UNCHANGED vars
  BY <1>8 DEF vars, peerVars, memory, Follower!vars
<1>9. CASE Exit \/ ExitInWrite \/ Crash \/ DropExit
  <2>1. phase' = "down" /\ peer_height' = peer_height
    BY <1>9 DEF Exit, ExitInWrite, Crash, DropExit, Gone, peerVars
  <2> QED
    BY <1>3, <1>4, <2>1
<1>10. CASE ReplacePeer \/ Damage \/ TruncateFails
  <2>1. ~following /\ ~following2
    BY <1>0, <1>10 DEF ReplacePeer, Damage, TruncateFails
  <2> QED
    BY <1>3, <2>1
<1>11. CASE LoadConfig \/ LoadFile \/ TruncateOpen \/ TruncateWrite
  <2>1. ~following /\ ~following2
    BY <1>0, <1>11 DEF LoadConfig, LoadFile, Truncate, TruncateOpen, TruncateWrite
  <2> QED
    BY <1>3, <2>1
<1>12. CASE LoadBlock \/ LoadCorrupt \/ OpenAppender \/ Serve \/ Drop
  <2>1. ~following /\ ~following2
    BY <1>12 DEF LoadBlock, Gone, LoadCorrupt, OpenAppender, Serve, Drop, Truncate
  <2> QED
    BY <1>3, <2>1
<1> QED
  BY Steps, <1>2, <1>5, <1>6, <1>7, <1>8, <1>9, <1>10, <1>11, <1>12

(* From the check of the last cached block until it ends, a process adds   *)
(* the peer's next block or none, whatever its cache went through before.  *)
THEOREM FollowsLedgerAlways == Spec => FollowsLedger
<1>1. Init => Follower!Init
  <2> SUFFICES ASSUME Init PROVE Follower!Init
    OBVIOUS
  <2>1. /\ peer_height \in 0 .. MaxHeight /\ phase = "down" /\ block_count = 0
        /\ MaxHeight \in Nat
    BY ConstantsAssumption DEF Init, ConstantsAssumption
  <2>2. peer_height \in Nat /\ block_count \in Nat
    BY <2>1
  <2>3. (phase \notin {"sync", "append"}) = TRUE
    BY <2>1
  <2> QED
    BY <2>2, <2>3 DEF Follower!Init
<1>2. Inv /\ [Next]_vars => [Follower!Next]_(Follower!vars)
  BY StepFollows
<1> QED
  BY <1>1, <1>2, InvAlways, PTL DEF Spec, FollowsLedger, Follower!Spec
=============================================================================
