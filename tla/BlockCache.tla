----------------------------- MODULE BlockCache -----------------------------
(***************************************************************************)
(* The block cache file and the life of the process around it: main and    *)
(* the configuration, load, truncate, drop, flush and the appending half   *)
(* of addBlock in db.cpp, the check of the last cached block in sync.cpp,  *)
(* and the ways to exit.  A write to the file may fail, which nothing in   *)
(* the code looks at.                                                      *)
(*                                                                         *)
(* The file is a sequence of cells.  A serialized block is two of them, a  *)
(* head, which holds the protobuf tag and length, and a tail; that is      *)
(* enough for a block to be cut in the middle.  The peer has one of        *)
(* several ledgers, which agree up to ForkHeight; while the process is     *)
(* down it may be replaced by a peer with another one.                     *)
(***************************************************************************)
EXTENDS Integers, Sequences, FiniteSetsExt

CONSTANTS
  Ledgers,      \* the ledgers a peer may have
  ForkHeight,   \* the ledgers agree up to this height
  MaxHeight,    \* bound: a peer commits no block above this height
  IntMax,       \* the largest int, in cells
  MaxFaults     \* bound: exits, crashes, damages, failed writes and
                \* replacements of the peer

ASSUME ConstantsAssumption ==
  /\ Ledgers # {} /\ "both" \notin Ledgers
  /\ ForkHeight \in Nat /\ MaxHeight \in Nat
  /\ IntMax \in Nat /\ MaxFaults \in Nat

VARIABLES
  peer,         \* the ledger of the peer
  peer_height,  \* number of blocks the peer has committed
  file,         \* the cells of the block cache file
  disable_sync, \* the configuration names no peer to follow
  phase,        \* what the process does; "down": no process
  next,         \* the phase that follows a truncation
  bytes,        \* block_bytes.bytes: the cells in memory
  size,         \* block_bytes.len.size(): number of blocks in bytes
  block_count,  \* number of blocks indexed
  buffer,       \* the buffer of appender
  spilled,      \* cells of buffer that are in the file but still in buffer
  failed,       \* writes of this process that failed: "append", "rewrite"
  faults,       \* number of faults so far
  torn          \* history: a write was cut short, by exit() or a failure

peerVars == <<peer, peer_height>>
memory   == <<bytes, size, block_count>>
appender == <<buffer, spilled, failed>>
history  == <<faults, torn>>
vars == <<peerVars, file, disable_sync, phase, next, memory, appender, history>>

(* The block of a height in a ledger. *)
BlockAt(ledger, h) ==
  [chain |-> IF h <= ForkHeight THEN "both" ELSE ledger, height |-> h]

(* The two cells of a block, and a damaged cell that parses as neither. *)
HeadOf(block) == [part |-> "head", block |-> block]
TailOf(block) == [part |-> "tail", block |-> block]
Junk == [part |-> "junk"]

Cells ==
  LET blocks == {BlockAt(l, h) : l \in Ledgers, h \in 1 .. MaxHeight}
  IN {HeadOf(b) : b \in blocks} \cup {TailOf(b) : b \in blocks} \cup {Junk}

(* The first n elements of s, and the others. *)
Cut(s, n)  == SubSeq(s, 1, n)
Rest(s, n) == SubSeq(s, n + 1, Len(s))

TypeOK ==
  /\ peer \in Ledgers
  /\ peer_height \in 0 .. MaxHeight
  /\ file \in Seq(Cells)
  /\ disable_sync \in BOOLEAN
  /\ phase \in {"down", "load", "parse", "trunc", "rewrite", "opening", "check",
                "serve", "dropped", "sync", "append"}
  /\ next \in {"parse", "opening", "dropped"}
  /\ bytes \in Seq(Cells)
  /\ size \in Nat /\ 2 * size <= Len(bytes)
  /\ block_count \in 0 .. MaxHeight
  /\ buffer \in Seq(Cells)
  /\ spilled \in 0 .. Len(buffer)
  /\ failed \subseteq {"append", "rewrite"}
  /\ faults \in 0 .. MaxFaults
  /\ torn \in BOOLEAN

Init ==
  /\ peer \in Ledgers
  /\ peer_height \in 0 .. MaxHeight
  /\ file = <<>>
  /\ disable_sync = FALSE
  /\ phase = "down" /\ next = "parse"
  /\ bytes = <<>> /\ size = 0 /\ block_count = 0
  /\ buffer = <<>> /\ spilled = 0 /\ failed = {}
  /\ faults = 0 /\ torn = FALSE
-----------------------------------------------------------------------------
(* Reading the file back.                                                  *)

(* static_cast<int>(n), for an int that ends at IntMax. *)
AsInt(n) ==
  LET range == 2 * (IntMax + 1)
      m == n % range
  IN IF m > IntMax THEN m - range ELSE m

CompleteOneLess(f) ==
  Max({k \in 0 .. Len(f) :
         /\ k = 0 \/ 2 * k < AsInt(Len(f))
         /\ \A j \in 1 .. k : f[2 * j - 1].part = "head"})

(* splitPb: the number of records that start with the tag of a block and   *)
(* are as long as they say.  The stream knows the length as an int.        *)
Complete(f) ==
  Max({k \in 0 .. Len(f) :
         /\ k = 0 \/ 2 * k <= AsInt(Len(f))
         /\ \A j \in 1 .. k : f[2 * j - 1].part = "head"})

ParsesByHead(head, tail) == head.part = "head"

(* ParseFromArray accepts a record: both halves of one block. *)
Parses(head, tail) ==
  head.part = "head" /\ tail.part = "tail" /\ head.block = tail.block

RecordParses(i) == Parses(bytes[2 * i - 1], bytes[2 * i])

HeightOf(i) == bytes[2 * i - 1].block.height
-----------------------------------------------------------------------------
(* The peer and the environment.                                           *)

OneFault == faults < MaxFaults /\ faults' = faults + 1

Fault == OneFault /\ UNCHANGED torn

PeerCommit ==
  /\ peer_height < MaxHeight
  /\ peer_height' = peer_height + 1
  /\ UNCHANGED <<peer, file, disable_sync, phase, next, memory, appender, history>>

(* Another peer is configured, or the peer is restored. *)
ReplacePeer ==
  /\ phase = "down"
  /\ Fault
  /\ peer' \in Ledgers
  /\ peer_height' \in 0 .. MaxHeight
  /\ UNCHANGED <<file, disable_sync, phase, next, memory, appender>>

(* A cell of the file is damaged. *)
Damage ==
  /\ phase = "down"
  /\ Fault
  /\ \E i \in 1 .. Len(file) : file' = [file EXCEPT ![i] = Junk]
  /\ UNCHANGED <<peerVars, disable_sync, phase, next, memory, appender>>
-----------------------------------------------------------------------------
(* load.                                                                   *)

(* truncate(n): memory keeps n blocks of the given cells; the file is      *)
(* opened with trunc, which empties it, and then written.                  *)
Truncate(cells, n, continue) ==
  /\ bytes' = Cut(cells, 2 * n)
  /\ size' = n
  /\ phase' = "trunc"
  /\ next' = continue

TruncateOpen ==
  /\ phase = "trunc"
  /\ phase' = "rewrite"
  /\ file' = <<>>
  /\ UNCHANGED <<peerVars, disable_sync, next, memory, appender, history>>

TruncateWrite ==
  /\ phase = "rewrite"
  /\ phase' = next
  /\ file' = bytes
  /\ UNCHANGED <<peerVars, disable_sync, next, memory, appender, history>>

(* The disk is full: only a part is written, and the process goes on.      *)
TruncateFails ==
  /\ phase = "rewrite"
  /\ OneFault
  /\ torn' = TRUE
  /\ failed' = failed \cup {"rewrite"}
  /\ \E n \in 0 .. Len(bytes) - 1 : file' = Cut(bytes, n)
  /\ phase' = next
  /\ UNCHANGED <<peerVars, disable_sync, next, memory, buffer, spilled>>

(* Config::load, which ends the process when the environment is not right; *)
(* DISABLE_SYNC decides whether main starts runSync.                       *)
LoadConfig ==
  /\ phase = "down"
  /\ disable_sync' \in BOOLEAN
  /\ phase' = "load"
  /\ UNCHANGED <<peerVars, file, next, memory, appender, history>>

(* The process reads the file; what follows the last complete block is cut *)
(* off ("Block cache corrupted, truncating {} bytes").                     *)
LoadFile ==
  /\ phase = "load"
  /\ LET n == Complete(file)
     IN IF 2 * n < Len(file)
        THEN Truncate(file, n, "parse")
        ELSE /\ bytes' = file
             /\ size' = n
             /\ phase' = "parse"
             /\ UNCHANGED next
  /\ UNCHANGED <<peerVars, file, disable_sync, block_count, appender, history>>

Gone ==
  /\ phase' = "down" /\ next' = "parse"
  /\ bytes' = <<>> /\ size' = 0 /\ block_count' = 0
  /\ buffer' = <<>> /\ spilled' = 0 /\ failed' = {}

(* addBlock wants the cached block to be the successor of the last one and *)
(* ends the process otherwise.                                             *)
Expected(i) == HeightOf(i) = block_count + 1

LoadBlock ==
  /\ phase = "parse"
  /\ block_count < size
  /\ RecordParses(block_count + 1)
  /\ IF Expected(block_count + 1)
     THEN /\ block_count' = block_count + 1
          /\ UNCHANGED <<phase, next, bytes, size, appender>>
     ELSE Gone
  /\ UNCHANGED <<peerVars, file, disable_sync, history>>

LoadCorruptOneMore ==
  /\ phase = "parse"
  /\ block_count < size
  /\ ~RecordParses(block_count + 1)
  /\ Truncate(bytes, Max({0, block_count - 1}), "opening")
  /\ UNCHANGED <<peerVars, file, disable_sync, block_count, appender, history>>

(* The first block that does not parse and all that follow it are cut off  *)
(* ("Cached block {} corrupted, truncating {} blocks").                    *)
LoadCorrupt ==
  /\ phase = "parse"
  /\ block_count < size
  /\ ~RecordParses(block_count + 1)
  /\ Truncate(bytes, block_count, "opening")
  /\ UNCHANGED <<peerVars, file, disable_sync, block_count, appender, history>>

OpenAppenderTruncating ==
  /\ phase = "opening" \/ (phase = "parse" /\ block_count = size)
  /\ phase' = "check"
  /\ file' = <<>>
  /\ UNCHANGED <<peerVars, disable_sync, next, memory, appender, history>>

(* appender is opened to append, and flush is registered with atexit.      *)
OpenAppender ==
  /\ phase = "opening" \/ (phase = "parse" /\ block_count = size)
  /\ phase' = "check"
  /\ UNCHANGED <<peerVars, file, disable_sync, next, memory, appender, history>>
-----------------------------------------------------------------------------
(* Following the peer.                                                     *)

(* Without a peer in the configuration main only serves what was loaded.   *)
Serve ==
  /\ phase = "check"
  /\ disable_sync
  /\ phase' = "serve"
  /\ UNCHANGED <<peerVars, file, disable_sync, next, memory, appender, history>>

LastBlockExists == block_count <= peer_height

LastBlockEqualIfThere ==
  block_count \in 1 .. peer_height =>
    HeadOf(BlockAt(peer, block_count)) = bytes[2 * block_count - 1]

(* The peer has the last cached block, with the same hash; without a cached*)
(* block nothing is asked.                                                 *)
LastBlockMatches ==
  block_count > 0 =>
    /\ block_count <= peer_height
    /\ HeadOf(BlockAt(peer, block_count)) = bytes[2 * block_count - 1]

(* The peer answers with the block. *)
StartSync ==
  /\ phase = "check"
  /\ ~disable_sync
  /\ LastBlockMatches
  /\ phase' = "sync"
  /\ UNCHANGED <<peerVars, file, disable_sync, next, memory, appender, history>>

DropNothing ==
  /\ phase = "check"
  /\ ~disable_sync
  /\ block_count > 0
  /\ Gone
  /\ UNCHANGED <<peerVars, file, disable_sync, history>>

(* drop(): "Last cached block differs, invalidating block cache".  The peer*)
(* has another block, or none, of that height; or it has the block and     *)
(* answers with an error all the same (it is not ready, a permission was   *)
(* revoked), which getBlock does not tell apart: a valid cache is dropped. *)
Drop ==
  /\ phase = "check"
  /\ ~disable_sync
  /\ block_count > 0
  /\ Truncate(bytes, 0, "dropped")
  /\ UNCHANGED <<peerVars, file, disable_sync, block_count, appender, history>>

(* The fatal call after drop(). *)
DropExit ==
  /\ phase = "dropped"
  /\ Gone
  /\ file' = file \o buffer
  /\ UNCHANGED <<peerVars, disable_sync, history>>

(* addBlock: the next block goes to memory and into the appender's buffer; *)
(* a stream that has failed once takes nothing any more.                   *)
AddBlock ==
  /\ phase = "sync"
  /\ block_count < peer_height
  /\ LET block == BlockAt(peer, block_count + 1)
         cells == <<HeadOf(block), TailOf(block)>>
     IN /\ bytes' = bytes \o cells
        /\ buffer' = IF "append" \in failed THEN buffer ELSE buffer \o cells
  /\ size' = size + 1
  /\ phase' = "append"
  /\ UNCHANGED <<peerVars, file, disable_sync, next, block_count, spilled, failed,
                 history>>

(* The full buffer is written to the file before it is reset. *)
Spill ==
  /\ phase = "append" /\ "append" \notin failed
  /\ spilled = 0
  /\ \E n \in 1 .. Len(buffer) :
       /\ spilled' = n
       /\ file' = file \o Cut(buffer, n)
  /\ UNCHANGED <<peerVars, disable_sync, phase, next, memory, buffer, failed, history>>

(* The disk is full: a part of the buffer is written, the buffer is kept,  *)
(* and the block is indexed as ever.                                       *)
AppendFails ==
  /\ phase = "append" /\ "append" \notin failed
  /\ Fault
  /\ \E n \in spilled .. Len(buffer) - 1 : file' = file \o SubSeq(buffer, spilled + 1, n)
  /\ failed' = failed \cup {"append"}
  /\ spilled' = 0
  /\ block_count' = block_count + 1
  /\ phase' = "sync"
  /\ UNCHANGED <<peerVars, disable_sync, next, bytes, size, buffer>>

AppendedKeepingSpilled ==
  /\ phase = "append"
  /\ phase' = "sync"
  /\ buffer' = Rest(buffer, spilled)
  /\ block_count' = block_count + 1
  /\ UNCHANGED <<peerVars, file, disable_sync, next, bytes, size, spilled, failed,
                 history>>

AppendedKeepingBuffer ==
  /\ phase = "append"
  /\ phase' = "sync"
  /\ spilled' = 0
  /\ block_count' = block_count + 1
  /\ UNCHANGED <<peerVars, file, disable_sync, next, bytes, size, buffer, failed,
                 history>>

(* The write returns and the block is indexed. *)
Appended ==
  /\ phase = "append"
  /\ phase' = "sync"
  /\ buffer' = Rest(buffer, spilled)
  /\ spilled' = 0
  /\ block_count' = block_count + 1
  /\ UNCHANGED <<peerVars, file, disable_sync, next, bytes, size, failed, history>>
-----------------------------------------------------------------------------
(* The end of the process.                                                 *)

(* exit(), from a signal handler or fatal, with nothing being written:     *)
(* flush writes the buffer.  While the cache is loaded nothing is buffered *)
(* and flush may not be registered yet.  A buffer whose write failed is    *)
(* still there, also what the file already has of it, and is tried again.  *)
Exit ==
  /\ phase # "down" /\ (phase = "append" => "append" \in failed)
  /\ OneFault
  /\ torn' = (torn \/ "append" \in failed)
  /\ Gone
  /\ \E n \in 0 .. Len(buffer) :
       /\ "append" \notin failed => n = Len(buffer)
       /\ file' = file \o Cut(buffer, n)
  /\ UNCHANGED <<peerVars, disable_sync>>

(* exit() while appender is being written: flush finds a buffer that holds *)
(* some of the new cells, or one whose contents are in the file already.   *)
ExitInWrite ==
  /\ phase = "append" /\ "append" \notin failed
  /\ OneFault
  /\ torn' = TRUE
  /\ Gone
  /\ \E n \in (Len(buffer) - 2) .. Len(buffer) :
       file' = file \o Cut(buffer, IF spilled = 0 THEN n ELSE spilled)
  /\ UNCHANGED <<peerVars, disable_sync>>

(* The process is killed or the machine stops: what is buffered is lost,   *)
(* and maybe the end of the file.                                          *)
Crash ==
  /\ phase # "down"
  /\ Fault
  /\ Gone
  /\ \E n \in 0 .. Len(file) : file' = Cut(file, n)
  /\ UNCHANGED <<peerVars, disable_sync>>

Environment ==
  \/ PeerCommit
  \/ ReplacePeer
  \/ Damage
  \/ TruncateFails
  \/ AppendFails
  \/ Exit
  \/ ExitInWrite
  \/ Crash

Process ==
  \/ LoadConfig
  \/ LoadFile
  \/ TruncateOpen
  \/ TruncateWrite
  \/ LoadBlock
  \/ LoadCorrupt
  \/ OpenAppender
  \/ Serve
  \/ StartSync
  \/ Drop
  \/ DropExit
  \/ AddBlock
  \/ Appended

Next == Environment \/ Process \/ Spill

Spec == Init /\ [][Next]_vars

(* The process makes progress and, whenever it is down, is started again,  *)
(* by whoever operates it.                                                 *)
FairSpec == Spec /\ WF_vars(Process)
-----------------------------------------------------------------------------
(* The cells of the first n blocks of a ledger. *)
CellsOf(ledger, n) ==
  [i \in 1 .. 2 * n |->
     LET block == BlockAt(ledger, (i + 1) \div 2)
     IN IF i % 2 = 1 THEN HeadOf(block) ELSE TailOf(block)]

(* What has been loaded is the beginning of one ledger, each block whole   *)
(* and at its height, whatever was cut off, damaged or written to the file *)
(* by earlier processes and from earlier peers.                            *)
LoadsOneLedger ==
  phase \notin {"trunc", "rewrite", "dropped"} =>
    \E ledger \in Ledgers :
      Cut(bytes, 2 * block_count) = CellsOf(ledger, block_count)

(* Between two blocks the file and the buffer together are the memory: an  *)
(* exit that flushes loses no block, and the next load finds them all.     *)
(* When an append has failed the file is still a prefix of the memory: a   *)
(* process that is killed leaves a cache that loads.                       *)
ExitKeepsAll ==
  phase \in {"check", "serve", "sync"} =>
    /\ failed = {} => file \o buffer = bytes
    /\ failed = {"append"} => file = Cut(bytes, Len(file))
    /\ size = block_count
    /\ Len(bytes) = 2 * size

(* Blocks are only added to a cache that is the beginning of the peer's    *)
(* own ledger: comparing one block, the last, is enough.                   *)
SyncsOwnLedger ==
  phase \in {"sync", "append"} =>
    Cut(bytes, 2 * block_count) = CellsOf(peer, block_count)

(* No cache makes load end the process: what is corrupted is truncated, so *)
(* that the next load goes through ("Expected block {} got {}" is not for  *)
(* cached blocks).                                                         *)
LoadNeverFails ==
  phase = "parse" /\ block_count < size /\ RecordParses(block_count + 1) =>
    Expected(block_count + 1)

(* The only faults after which a load may end the process are exits in the *)
(* middle of a write and failed writes; crashes, damages and other peers   *)
(* are all repaired.                                                       *)
LoadFailsOnlyTorn == torn \/ LoadNeverFails

(* A cache is called corrupted and truncated only when it is not a series  *)
(* of whole blocks (a file that a failed truncation of the same start left *)
(* short is not what was read).                                            *)
OnlyCorruptedTruncated ==
  phase = "trunc" /\ next # "dropped" /\ failed = {} =>
    \A ledger \in Ledgers, n \in 0 .. MaxHeight : file # CellsOf(ledger, n)

(* Every indexed block is in memory, where commandsJson reads it, but      *)
(* between drop() and the exit that follows.                               *)
IndexedInMemory == block_count <= size \/ next = "dropped"

(* When the faults are over, an explorer with a peer has the whole ledger  *)
(* of it again, by reloading, refetching or dropping what it had; but for  *)
(* writes that were cut short.                                             *)
Recovers ==
  <>[](torn \/ phase = "serve" \/ (phase = "sync" /\ block_count = peer_height))

(* From the check of the last cached block until it ends, a process follows*)
(* the peer in order, without gaps and never beyond it; whatever it finds  *)
(* in the file when it is started again.                                   *)
Follower == INSTANCE LedgerFollower WITH
  ledger  <- peer_height,
  indexed <- block_count,
  stopped <- phase \notin {"sync", "append"}

FollowsLedger == Follower!Spec
=============================================================================
