-------------------------------- MODULE Sync --------------------------------
(***************************************************************************)
(* The synchronisation of the explorer with an Iroha peer: runSync of      *)
(* sync.cpp and the io_context handlers it posts.                          *)
(*                                                                         *)
(* Three kinds of threads share the state below.                           *)
(*   - the sync thread runs runSync: it compares the last cached block     *)
(*     with the peer, opens the stream of new blocks, fills the pool of    *)
(*     fetch jobs, runs the job queue qio until somebody stops it, joins   *)
(*     the workers and then reads the stream;                              *)
(*   - the workers take jobs from wio; a job asks the peer for one height; *)
(*   - the server thread runs the posted handlers, which order the blocks  *)
(*     in the priority queue q and add them to the index.                  *)
(* A block is its height: what a block contains is the subject of other    *)
(* modules.                                                                *)
(***************************************************************************)
EXTENDS Naturals, FiniteSets

CONSTANTS
  Workers,     \* the threads that run wio (kGetBlockThreads of them)
  QueueSize,   \* number of fetch jobs kept outstanding (kGetBlockQueue)
  MaxHeight,   \* bound: the peer commits no block above this height
  SizeMax,     \* std::numeric_limits<size_t>::max()
  Peers        \* the kinds of peers there are

ASSUME ConstantsAssumption ==
  /\ QueueSize \in Nat \ {0}
  /\ MaxHeight \in Nat
  /\ SizeMax \in Nat
  /\ MaxHeight < SizeMax
  /\ Peers \subseteq [prompt : BOOLEAN, refuses : BOOLEAN]

VARIABLES
  peer,         \* the kind of the peer, which stays the same
  committed,    \* height of the peer's ledger
  subscribed,   \* first height the stream will deliver, 0 while not registered
  stream_next,  \* next height the sync thread will read from the stream
  pc,           \* where the sync thread is in runSync; "exit": no process
  filled,       \* calls of qjob made by the initial loop
  qheight,      \* height of the next job
  qheight_max,  \* shared: no job at or above this height is useful
  wio_head,     \* wio holds the jobs wio_head .. qheight - 1, oldest first
  qio,          \* number of qjob handlers posted to qio and not run
  qio_stopped,  \* qio.stop() was called
  wpc,          \* what each worker is doing
  wheight,      \* the height each worker's job captured
  wread,        \* the value of qheight_max each worker read for std::min
  io,           \* blocks posted to the server's io_context, handlers not run
  q,            \* the priority queue: heights waiting for a predecessor
  next_height,  \* height of the block to be indexed next
  block_count   \* db::block_count

peerVars   == <<peer, committed, subscribed, stream_next>>
jobVars    == <<filled, qheight, qio, qio_stopped>>
workerVars == <<wio_head, wpc, wheight, wread, qheight_max>>
indexVars  == <<io, q, next_height, block_count>>
vars == <<peerVars, pc, jobVars, workerVars, indexVars>>

Heights == 1 .. MaxHeight

(* A posted block and who posted it: a worker or the reader of the stream. *)
Posts == [from : {"fetch", "stream"}, height : Heights]

(* The steps of runSync in the order it takes them. *)
Phases == {"check", "open", "fill", "run", "join", "stream", "done", "exit"}

Running == pc # "exit"

(* The peer has registered the stream when fetchCommits returns; another   *)
(* one registers it at some later moment.                                  *)
Prompt == peer.prompt

(* The peer may refuse any query, also one for a block that it has (it is  *)
(* not ready, a permission was revoked).                                   *)
Refuses == peer.refuses

TypeOK ==
  /\ peer \in Peers
  /\ committed \in 0 .. MaxHeight
  /\ subscribed \in 0 .. MaxHeight + 1
  /\ stream_next \in 0 .. MaxHeight + 1
  /\ pc \in Phases
  /\ filled \in 0 .. QueueSize
  /\ qheight \in Nat
  /\ qheight_max \in Nat
  /\ wio_head \in Nat
  /\ qio \in Nat
  /\ qio_stopped \in BOOLEAN
  /\ wpc \in [Workers -> {"idle", "taken", "ask", "read", "write", "post"}]
  /\ wheight \in [Workers -> Nat]
  /\ wread \in [Workers -> Nat]
  /\ io \subseteq Posts
  /\ q \subseteq Heights
  /\ next_height \in 0 .. MaxHeight + 1
  /\ block_count \in 0 .. MaxHeight

(* The process has loaded block_count blocks from its cache; the peer may  *)
(* be ahead of them or, when it is another peer or a restored one, behind. *)
Init ==
  /\ peer \in Peers
  /\ committed \in 0 .. MaxHeight
  /\ block_count \in 0 .. MaxHeight
  /\ subscribed = 0 /\ stream_next = 0
  /\ pc = "check"
  /\ filled = 0
  /\ qheight = 0 /\ qheight_max = SizeMax
  /\ wio_head = 0
  /\ qio = 0 /\ qio_stopped = FALSE
  /\ wpc = [w \in Workers |-> "idle"]
  /\ wheight = [w \in Workers |-> 0]
  /\ wread = [w \in Workers |-> 0]
  /\ io = {} /\ q = {}
  /\ next_height = 0
-----------------------------------------------------------------------------
(* The peer. *)

(* The peer commits a block; a registered stream will deliver it.          *)
Commit ==
  /\ committed < MaxHeight
  /\ committed' = committed + 1
  /\ UNCHANGED <<peer, subscribed, stream_next, pc, jobVars, workerVars, indexVars>>

(* The stream starts with the block after the ones committed so far. *)
Register ==
  /\ subscribed' = committed + 1
  /\ stream_next' = committed + 1

(* The peer registers a stream that was opened earlier. *)
RegisterLate ==
  /\ ~Prompt
  /\ subscribed = 0
  /\ pc \notin {"check", "open", "exit"}
  /\ Register
  /\ UNCHANGED <<peer, committed, pc, jobVars, workerVars, indexVars>>

(* The error response is taken for a block. *)
PeerHasOneMore(h) == h <= committed + 1

(* What a fetch of height h is answered with: TRUE for the block. *)
PeerHas(h) == h <= committed
-----------------------------------------------------------------------------
(* The sync thread. *)

FirstMissingOffByOne == block_count

(* The height to continue with, one above the last cached block. *)
FirstMissing == block_count + 1

(* The last cached block is the peer's block of that height (or nothing is *)
(* cached): syncing starts above it, with no worker and no limit yet.      *)
StartSync ==
  /\ pc = "check"
  /\ block_count = 0 \/ PeerHas(block_count)
  /\ pc' = "open"
  /\ next_height' = FirstMissing
  /\ qheight' = FirstMissing
  /\ wio_head' = FirstMissing
  /\ UNCHANGED <<peerVars, filled, qio, qio_stopped, wpc, wheight, wread,
                 qheight_max, io, q, block_count>>

(* The peer lacks the last cached block or has another one at that height: *)
(* the cache is dropped and the process exits.                             *)
DropCache ==
  /\ pc = "check"
  /\ block_count > 0
  /\ pc' = "exit"
  /\ UNCHANGED <<peerVars, jobVars, workerVars, indexVars>>

(* fetchCommits is called before the first job is queued. *)
OpenStream ==
  /\ pc = "open"
  /\ pc' = "fill"
  /\ IF Prompt THEN Register ELSE UNCHANGED <<subscribed, stream_next>>
  /\ UNCHANGED <<peer, committed, jobVars, workerVars, indexVars>>

(* qjob: queue the fetch of the next height, or stop qio when a fetch      *)
(* already failed at or below that height.                                 *)
Qjob ==
  IF qheight >= qheight_max
  THEN qio_stopped' = TRUE /\ UNCHANGED qheight
  ELSE qheight' = qheight + 1 /\ UNCHANGED qio_stopped

FillQueueOneMore ==
  /\ pc = "fill"
  /\ filled <= QueueSize
  /\ filled' = filled + 1
  /\ Qjob
  /\ UNCHANGED <<peerVars, pc, qio, workerVars, indexVars>>

(* The initial loop calls qjob QueueSize times; the workers already run.   *)
FillQueue ==
  /\ pc = "fill"
  /\ filled < QueueSize
  /\ filled' = filled + 1
  /\ Qjob
  /\ UNCHANGED <<peerVars, pc, qio, workerVars, indexVars>>

StartRun ==
  /\ pc = "fill"
  /\ filled = QueueSize
  /\ pc' = "run"
  /\ UNCHANGED <<peerVars, jobVars, workerVars, indexVars>>

(* qio.run() runs one posted handler. *)
RunQjob ==
  /\ pc = "run"
  /\ ~qio_stopped
  /\ qio > 0
  /\ qio' = qio - 1
  /\ Qjob
  /\ UNCHANGED <<peerVars, pc, filled, workerVars, indexVars>>

(* A stopped qio returns from run() whatever is still posted to it. *)
LeaveRun ==
  /\ pc = "run"
  /\ qio_stopped
  /\ pc' = "join"
  /\ UNCHANGED <<peerVars, jobVars, workerVars, indexVars>>

WioEmpty == wio_head = qheight

AllIdle == \A w \in Workers : wpc[w] = "idle"

(* The guard of wio is reset: the workers finish the queued jobs, return   *)
(* and are joined; from then on only the stream brings blocks.             *)
JoinWorkers ==
  /\ pc = "join"
  /\ WioEmpty /\ AllIdle
  /\ pc' = "stream"
  /\ UNCHANGED <<peerVars, jobVars, workerVars, indexVars>>

(* The stream yields the next block, which is posted to the server thread. *)
ReadStream ==
  /\ pc = "stream"
  /\ stream_next > 0
  /\ stream_next <= committed
  /\ io' = io \cup {[from |-> "stream", height |-> stream_next]}
  /\ stream_next' = stream_next + 1
  /\ UNCHANGED <<peer, committed, subscribed, pc, jobVars, workerVars,
                 q, next_height, block_count>>

(* The peer closes the stream without an error: runSync returns. *)
EndStream ==
  /\ pc = "stream"
  /\ pc' = "done"
  /\ UNCHANGED <<peerVars, jobVars, workerVars, indexVars>>
-----------------------------------------------------------------------------
(* The workers. *)

MoveWorker(w, step) == wpc' = [wpc EXCEPT ![w] = step]

(* A worker without a job forgets what the last one captured and read. *)
EndJob(w) ==
  /\ MoveWorker(w, "idle")
  /\ wheight' = [wheight EXCEPT ![w] = 0]
  /\ wread' = [wread EXCEPT ![w] = 0]

TakeJobPostsFirst(w) ==
  /\ Running
  /\ wpc[w] = "idle"
  /\ ~WioEmpty
  /\ MoveWorker(w, "taken")
  /\ wheight' = [wheight EXCEPT ![w] = wio_head]
  /\ wio_head' = wio_head + 1
  /\ qio' = qio + 1
  /\ UNCHANGED <<peerVars, pc, filled, qheight, qio_stopped, wread,
                 qheight_max, indexVars>>

(* A worker takes the oldest job of wio, which captured its height. *)
TakeJob(w) ==
  /\ Running
  /\ wpc[w] = "idle"
  /\ ~WioEmpty
  /\ MoveWorker(w, "taken")
  /\ wheight' = [wheight EXCEPT ![w] = wio_head]
  /\ wio_head' = wio_head + 1
  /\ UNCHANGED <<peerVars, pc, jobVars, wread, qheight_max, indexVars>>

(* The job is dropped, and posts nothing to qio, when a fetch at or below  *)
(* its height has failed already.                                          *)
CheckJob(w) ==
  /\ Running
  /\ wpc[w] = "taken"
  /\ IF wheight[w] < qheight_max
     THEN MoveWorker(w, "ask") /\ UNCHANGED <<wheight, wread>>
     ELSE EndJob(w)
  /\ UNCHANGED <<peerVars, pc, jobVars, wio_head, qheight_max, indexVars>>

(* getBlock returned the block: it is posted to the server thread. *)
FetchBlock(w) ==
  /\ Running
  /\ wpc[w] = "ask"
  /\ PeerHas(wheight[w])
  /\ MoveWorker(w, "post")
  /\ io' = io \cup {[from |-> "fetch", height |-> wheight[w]]}
  /\ UNCHANGED <<peerVars, pc, jobVars, wio_head, wheight, wread,
                 qheight_max, q, next_height, block_count>>

(* getBlock returned an error response, whatever the error is: the job     *)
(* takes it that there is no such block yet.                               *)
FetchNone(w) ==
  /\ Running
  /\ wpc[w] = "ask"
  /\ ~PeerHas(wheight[w]) \/ Refuses
  /\ MoveWorker(w, "read")
  /\ UNCHANGED <<peerVars, pc, jobVars, wio_head, wheight, wread,
                 qheight_max, indexVars>>

(* qheight_max = std::min(qheight_max, qheight) on a variable that all     *)
(* workers share without a lock: a read, then a write of the smaller one.  *)
ReadMax(w) ==
  /\ Running
  /\ wpc[w] = "read"
  /\ MoveWorker(w, "write")
  /\ wread' = [wread EXCEPT ![w] = qheight_max]
  /\ UNCHANGED <<peerVars, pc, jobVars, wio_head, wheight, qheight_max,
                 indexVars>>

SmallerOffByOne(a, b) == IF b < a THEN b - 1 ELSE a

Smaller(a, b) == IF b < a THEN b ELSE a

WriteMax(w) ==
  /\ Running
  /\ wpc[w] = "write"
  /\ MoveWorker(w, "post")
  /\ qheight_max' = Smaller(wread[w], wheight[w])
  /\ UNCHANGED <<peerVars, pc, jobVars, wio_head, wheight, wread, indexVars>>

PostQjobOnSuccess(w) ==
  /\ Running
  /\ wpc[w] = "post"
  /\ EndJob(w)
  /\ qio' = IF wread[w] = 0 THEN qio + 1 ELSE qio
  /\ UNCHANGED <<peerVars, pc, filled, qheight, qio_stopped, wio_head,
                 qheight_max, indexVars>>

(* The job ends by asking the sync thread for the next one. *)
PostQjob(w) ==
  /\ Running
  /\ wpc[w] = "post"
  /\ EndJob(w)
  /\ qio' = qio + 1
  /\ UNCHANGED <<peerVars, pc, filled, qheight, qio_stopped, wio_head,
                 qheight_max, indexVars>>

Worker(w) ==
  \/ TakeJob(w)
  \/ CheckJob(w)
  \/ FetchBlock(w)
  \/ FetchNone(w)
  \/ ReadMax(w)
  \/ WriteMax(w)
  \/ PostQjob(w)
-----------------------------------------------------------------------------
(* The server thread. *)

(* addBlock accepts a block only as the successor of the last one. *)
Expected(height) == height = block_count + 1

(* The handler's loop pops q while its smallest height is not above        *)
(* next_height, which every added block advances: it stops at the first    *)
(* height from next_height on that it does not have ...                    *)
StopsAtIfNotWhile(queued, n) ==
  n = IF next_height \in queued THEN next_height + 1 ELSE next_height

StopsAt(queued, n) ==
  /\ n \notin queued
  /\ next_height .. (n - 1) \subseteq queued

(* ... and leaves the blocks from there on.                                *)
LeftoverNoBreak(queued, n) == {}

Leftover(queued, n) == {h \in queued : h >= n}

(* The posted handler pushes its block and then adds the blocks that are   *)
(* next, in order, forgetting the ones that were added before.             *)
Handle(post) ==
  /\ Running
  /\ io' = io \ {post}
  /\ LET queued == q \cup {post.height}
     IN \E n \in next_height .. MaxHeight + 1 :
          /\ StopsAt(queued, n)
          /\ IF n = next_height \/ Expected(next_height)
             THEN /\ q' = Leftover(queued, n)
                  /\ next_height' = n
                  /\ block_count' = block_count + (n - next_height)
                  /\ pc' = pc
             ELSE /\ pc' = "exit"
                  /\ UNCHANGED <<q, next_height, block_count>>
  /\ UNCHANGED <<peerVars, jobVars, workerVars>>

(* q and next_height are locals of runSync that the handlers hold by       *)
(* reference: a handler that runs after runSync returned may crash the     *)
(* process; it may also find the old contents of the stack (Handle).       *)
DanglingHandler ==
  /\ pc = "done"
  /\ io # {}
  /\ pc' = "exit"
  /\ UNCHANGED <<peerVars, jobVars, workerVars, indexVars>>
-----------------------------------------------------------------------------
(* A signal, a failed RPC or an error in the stream ends the process. *)
Exit ==
  /\ Running
  /\ pc' = "exit"
  /\ UNCHANGED <<peerVars, jobVars, workerVars, indexVars>>

Peer == Commit \/ RegisterLate

SyncThread ==
  \/ StartSync
  \/ DropCache
  \/ OpenStream
  \/ FillQueue
  \/ StartRun
  \/ RunQjob
  \/ LeaveRun
  \/ JoinWorkers
  \/ ReadStream

ServerThread == \E post \in io : Handle(post)

Next ==
  \/ Peer
  \/ SyncThread
  \/ EndStream
  \/ \E w \in Workers : Worker(w)
  \/ ServerThread
  \/ DanglingHandler
  \/ Exit

Spec == Init /\ [][Next]_vars

(* Every thread is scheduled again and again, the peer answers a fetch and *)
(* registers a stream it was asked for.  Nothing forces the peer to commit,*)
(* to close the stream, or the process to exit.                            *)
Fairness ==
  /\ WF_vars(SyncThread)
  /\ \A w \in Workers : WF_vars(Worker(w))
  /\ WF_vars(ServerThread)
  /\ WF_vars(RegisterLate)

FairSpec == Spec /\ Fairness
-----------------------------------------------------------------------------
(* Where a block of height h can be.                                       *)

(* It is indexed, or on its way to the index inside the process. *)
InHand(h) ==
  \/ h < next_height
  \/ h \in q
  \/ \E post \in io : post.height = h

(* The stream has still to deliver it. *)
StreamPending(h) == stream_next > 0 /\ h >= stream_next

(* A job that will not be dropped has still to ask for it: the job is not  *)
(* taken yet (or not even created), or a worker has it.                    *)
FetchPending(h) ==
  /\ h < qheight_max
  /\ \/ h >= wio_head /\ ~(WioEmpty /\ qio_stopped)
     \/ \E w \in Workers : wheight[w] = h /\ wpc[w] \in {"taken", "ask"}

(* With a peer that registers the stream at once and refuses only what it  *)
(* has not, no committed block falls between the fetch jobs and the stream,*)
(* however the workers' failed fetches, their unlocked updates of          *)
(* qheight_max and new commits interleave.                                 *)
NoBlockLost ==
  Prompt /\ ~Refuses /\ subscribed > 0 /\ Running =>
    \A h \in 1 .. committed :
      InHand(h) \/ StreamPending(h) \/ FetchPending(h)

(* The check in addBlock ("Expected block {} got {}") never ends a running *)
(* sync: the counter of the handlers and that of the index agree.          *)
ExpectedBlock ==
  pc \notin {"check", "exit"} => next_height = block_count + 1

(* Between handlers q holds only blocks above next_height: no block that   *)
(* could be added waits, and none that was added before is kept.           *)
QueueAhead == \A h \in q : h > next_height

(* kGetBlockQueue bounds the heights that are queued, being fetched or     *)
(* waiting for their successor to be queued.                               *)
Outstanding ==
  (qheight - wio_head) + qio + Cardinality({w \in Workers : wpc[w] # "idle"})

BoundedPrefetch == Outstanding <= QueueSize

(* When only the stream is left ("Sync wait for new blocks") the peer has  *)
(* no block that is neither in hand nor going to be streamed.              *)
WaitsOnlyForNewBlocks ==
  pc = "stream" =>
    \A h \in 1 .. committed : InHand(h) \/ StreamPending(h)

(* Even a late registration, or a block refused for another reason than    *)
(* that it is not there, loses nothing from the first streamed height on.  *)
NothingLostOnceRegistered ==
  subscribed > 0 /\ Running =>
    \A h \in subscribed .. committed : InHand(h) \/ StreamPending(h)

(* The fetching phase ends: the workers cannot drop all jobs without       *)
(* somebody stopping qio.                                                  *)
FetchingEnds == pc = "fill" ~> pc \in {"stream", "done", "exit"}

(* runSync says "Sync stop" and returns, which ends the life of q and      *)
(* next_height, only when no handler that refers to them is left.          *)
StopLeavesNoHandler == pc = "done" => io = {}

(* Sync implements the abstract follower: from the check of the last cached*)
(* block on the peer's ledger is followed in order, without gaps and never *)
(* beyond what the peer has committed.                                     *)
Follower == INSTANCE LedgerFollower WITH
  ledger  <- committed,
  indexed <- block_count,
  stopped <- pc \in {"check", "done", "exit"}

FollowsLedger == Follower!Spec

(* With such a peer the index does not stay behind for ever while sync is  *)
(* alive.                                                                  *)
CatchesUp == Prompt /\ ~Refuses => Follower!NotBehindForEver
=============================================================================
