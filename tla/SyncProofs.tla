----------------------------- MODULE SyncProofs -----------------------------
(***************************************************************************)
(* Theorems about Sync, for every number of workers, queue size and ledger.*)
(*                                                                         *)
(* The argument has two layers.  BaseInv ties the counters of the handlers *)
(* and of the index together and bounds the heights that travel; it needs  *)
(* nothing of the peer and gives type correctness, the order of the index  *)
(* and the refinement of LedgerFollower.  CoverInv says where every        *)
(* committed block is; it needs a peer that registers the stream before    *)
(* fetchCommits returns (Prompt) and refuses only blocks that it has not   *)
(* (~Refuses), and gives NoBlockLost.  PrefetchInv counts the jobs.        *)
(***************************************************************************)
EXTENDS Sync, FiniteSetTheorems, TLAPS

(* Before the stream is opened nothing moves. *)
QuietStart ==
  pc \in {"check", "open"} =>
    /\ subscribed = 0 /\ stream_next = 0
    /\ WioEmpty /\ AllIdle
    /\ io = {} /\ q = {}
    /\ qheight_max = SizeMax

(* A job in progress was taken from wio and has a height. *)
JobHeights ==
  Running =>
    /\ wio_head <= qheight
    /\ pc # "check" => wio_head > 0
    /\ \A w \in Workers :
         wpc[w] # "idle" => wheight[w] > 0 /\ wheight[w] < wio_head

(* Only committed blocks are posted or queued. *)
OnlyCommitted ==
  /\ \A post \in io : post.height <= committed
  /\ \A h \in q : h <= committed
  /\ stream_next <= committed + 1

BaseInv ==
  /\ TypeOK
  /\ QuietStart
  /\ JobHeights
  /\ OnlyCommitted
  /\ ExpectedBlock
  /\ QueueAhead

(* The initial states satisfy the base invariant. *)
LEMMA BaseInit == Init => BaseInv
<1> SUFFICES ASSUME Init PROVE BaseInv
  OBVIOUS
<1>1. TypeOK
  <2>1. /\ peer \in Peers
        /\ committed \in 0 .. MaxHeight /\ block_count \in 0 .. MaxHeight
        /\ subscribed \in 0 .. MaxHeight + 1
        /\ stream_next \in 0 .. MaxHeight + 1
        /\ next_height \in 0 .. MaxHeight + 1
        /\ filled \in 0 .. QueueSize
        /\ qheight \in Nat /\ wio_head \in Nat /\ qio \in Nat
        /\ qheight_max \in Nat
    BY ConstantsAssumption DEF Init
  <2>2. /\ wpc \in [Workers -> {"idle", "taken", "ask", "read", "write", "post"}]
        /\ wheight \in [Workers -> Nat] /\ wread \in [Workers -> Nat]
        /\ io \subseteq Posts /\ q \subseteq Heights
        /\ pc \in Phases /\ qio_stopped \in BOOLEAN
    BY DEF Init, Phases
  <2> QED
    BY <2>1, <2>2 DEF TypeOK
<1>2. QuietStart /\ JobHeights
  BY DEF Init, QuietStart, JobHeights, WioEmpty, AllIdle
<1>3. OnlyCommitted /\ ExpectedBlock /\ QueueAhead
  BY DEF Init, OnlyCommitted, ExpectedBlock, QueueAhead
<1> QED
  BY <1>1, <1>2, <1>3 DEF BaseInv

(* A handler keeps the base invariant: it adds the blocks next_height ..   *)
(* n - 1, all of them committed, and leaves only higher ones in q.         *)
LEMMA BaseHandle ==
  ASSUME BaseInv, NEW post \in io, Handle(post)
  PROVE  BaseInv'
<1> USE ConstantsAssumption DEF ConstantsAssumption
<1> DEFINE queued == q \cup {post.height}
<1>1. /\ post \in Posts /\ post.height \in Heights
      /\ post.height <= committed
      /\ queued \subseteq Heights
  BY DEF BaseInv, TypeOK, Posts, OnlyCommitted, Heights
<1>2. PICK n \in next_height .. MaxHeight + 1 :
         /\ StopsAt(queued, n)
         /\ IF n = next_height \/ Expected(next_height)
            THEN /\ q' = Leftover(queued, n)
                 /\ next_height' = n
                 /\ block_count' = block_count + (n - next_height)
                 /\ pc' = pc
            ELSE /\ pc' = "exit"
                 /\ UNCHANGED <<q, next_height, block_count>>
  BY DEF Handle
<1>3. pc \notin {"check", "exit"} /\ next_height = block_count + 1
  BY DEF Handle, Running, BaseInv, QuietStart, ExpectedBlock
<1>4. /\ q' = Leftover(queued, n) /\ next_height' = n
      /\ block_count' = block_count + (n - next_height) /\ pc' = pc
  BY <1>2, <1>3 DEF Expected
<1>5. UNCHANGED <<peerVars, jobVars, workerVars>> /\ io' = io \ {post}
  BY DEF Handle
<1>6. n \in Nat /\ n <= MaxHeight + 1 /\ next_height <= n
      /\ next_height \in Nat /\ block_count \in Nat
  BY <1>2 DEF BaseInv, TypeOK
<1>7. TypeOK'
  BY <1>1, <1>3, <1>4, <1>5, <1>6
  DEF BaseInv, TypeOK, peerVars, jobVars, workerVars, Leftover
<1>8. QuietStart'
  BY <1>4, <1>5
  DEF BaseInv, QuietStart, peerVars, jobVars, workerVars, WioEmpty, AllIdle
<1>9. JobHeights'
  BY <1>4, <1>5
  DEF BaseInv, JobHeights, jobVars, workerVars, Running
<1>10. OnlyCommitted'
  BY <1>1, <1>4, <1>5 DEF BaseInv, OnlyCommitted, peerVars, Leftover
<1>11. ExpectedBlock'
  BY <1>3, <1>4, <1>6 DEF ExpectedBlock
<1>12. QueueAhead'
  BY <1>1, <1>2, <1>4, <1>6 DEF QueueAhead, Leftover, StopsAt, Heights
<1> QED
  BY <1>7, <1>8, <1>9, <1>10, <1>11, <1>12 DEF BaseInv

(* qjob only moves qheight up and only sets qio_stopped. *)
LEMMA QjobEffect ==
  ASSUME qheight \in Nat, qio_stopped \in BOOLEAN, Qjob
  PROVE  /\ qheight' \in Nat /\ qheight' >= qheight
         /\ qio_stopped' \in BOOLEAN
<1>1. qio_stopped' \in BOOLEAN
  BY Zenon DEF Qjob
<1>2. qheight' = qheight \/ qheight' = qheight + 1
  BY DEF Qjob
<1> QED
  BY <1>1, <1>2

(* Every step of the sync thread keeps the base invariant. *)
LEMMA BaseSyncThread ==
  ASSUME BaseInv, SyncThread
  PROVE  BaseInv'
<1> USE ConstantsAssumption
    DEF BaseInv, TypeOK, QuietStart, JobHeights, OnlyCommitted, ExpectedBlock,
        QueueAhead, Running, Phases, peerVars, jobVars, workerVars, indexVars
<1>1. CASE StartSync
  BY <1>1 DEF StartSync, FirstMissing, WioEmpty, AllIdle
<1>2. CASE DropCache
  BY <1>2 DEF DropCache
<1>3. CASE OpenStream
  BY <1>3 DEF OpenStream, Register
<1>4. CASE FillQueue
  <2>1. /\ pc = "fill" /\ pc' = pc /\ filled' \in 0 .. QueueSize
        /\ Qjob /\ UNCHANGED <<peerVars, qio, workerVars, indexVars>>
    BY <1>4 DEF FillQueue
  <2>2. qheight' \in Nat /\ qheight' >= qheight /\ qio_stopped' \in BOOLEAN
    BY <2>1, QjobEffect
  <2> QED
    BY <2>1, <2>2
<1>5. CASE StartRun
  BY <1>5 DEF StartRun
<1>6. CASE RunQjob
  <2>1. /\ pc = "run" /\ pc' = pc /\ qio' \in Nat
        /\ Qjob /\ UNCHANGED <<peerVars, filled, workerVars, indexVars>>
    BY <1>6 DEF RunQjob
  <2>2. qheight' \in Nat /\ qheight' >= qheight /\ qio_stopped' \in BOOLEAN
    BY <2>1, QjobEffect
  <2> QED
    BY <2>1, <2>2
<1>7. CASE LeaveRun
  BY <1>7 DEF LeaveRun
<1>8. CASE JoinWorkers
  BY <1>8 DEF JoinWorkers
<1>9. CASE ReadStream
  BY <1>9 DEF ReadStream, Posts, Heights
<1> QED
  BY <1>1, <1>2, <1>3, <1>4, <1>5, <1>6, <1>7, <1>8, <1>9 DEF SyncThread

(* Every step of a worker keeps the base invariant. *)
LEMMA BaseWorker ==
  ASSUME BaseInv, NEW w \in Workers, Worker(w)
  PROVE  BaseInv'
<1> USE ConstantsAssumption
    DEF BaseInv, TypeOK, QuietStart, JobHeights, OnlyCommitted, ExpectedBlock,
        QueueAhead, Running, peerVars, jobVars, workerVars, indexVars,
        MoveWorker, EndJob, WioEmpty, AllIdle
<1>1. CASE TakeJob(w)
  BY <1>1 DEF TakeJob
<1>2. CASE CheckJob(w)
  BY <1>2 DEF CheckJob
<1>3. CASE FetchBlock(w)
  BY <1>3 DEF FetchBlock, PeerHas, Posts, Heights
<1>4. CASE FetchNone(w)
  BY <1>4 DEF FetchNone
<1>5. CASE ReadMax(w)
  BY <1>5 DEF ReadMax
<1>6. CASE WriteMax(w)
  BY <1>6 DEF WriteMax, Smaller
<1>7. CASE PostQjob(w)
  BY <1>7 DEF PostQjob
<1> QED
  BY <1>1, <1>2, <1>3, <1>4, <1>5, <1>6, <1>7 DEF Worker

(* Every step keeps the base invariant. *)
LEMMA BaseNext == BaseInv /\ [Next]_vars => BaseInv'
<1> SUFFICES ASSUME BaseInv, [Next]_vars PROVE BaseInv'
  OBVIOUS
<1>1. CASE Peer
  <2> USE ConstantsAssumption
      DEF BaseInv, TypeOK, QuietStart, JobHeights, OnlyCommitted,
          ExpectedBlock, QueueAhead, Running, jobVars, workerVars, indexVars
  <2>1. CASE Commit
    <3>1. TypeOK'
      BY <2>1 DEF Commit
    <3>2. QuietStart' /\ JobHeights' /\ ExpectedBlock' /\ QueueAhead'
      BY <2>1 DEF Commit, WioEmpty, AllIdle
    <3>3. OnlyCommitted'
      BY <2>1 DEF Commit, Posts, Heights
    <3> QED
      BY <3>1, <3>2, <3>3
  <2>2. CASE RegisterLate
    <3>1. TypeOK'
      BY <2>2 DEF RegisterLate, Register
    <3>2. QuietStart' /\ JobHeights' /\ ExpectedBlock' /\ QueueAhead'
      BY <2>2 DEF RegisterLate, WioEmpty, AllIdle
    <3>3. OnlyCommitted'
      BY <2>2 DEF RegisterLate, Register, Posts, Heights
    <3> QED
      BY <3>1, <3>2, <3>3
  <2> QED
    BY <1>1, <2>1, <2>2 DEF Peer
<1>2. CASE SyncThread
  BY <1>2, BaseSyncThread
<1>3. CASE EndStream \/ DanglingHandler \/ Exit
  BY <1>3
  DEF EndStream, DanglingHandler, Exit, BaseInv, TypeOK, QuietStart,
      JobHeights, OnlyCommitted, ExpectedBlock, QueueAhead, Running, Phases,
      peerVars, jobVars, workerVars, indexVars, WioEmpty, AllIdle
<1>4. CASE \E w \in Workers : Worker(w)
  BY <1>4, BaseWorker
<1>5. CASE ServerThread
  BY <1>5, BaseHandle DEF ServerThread
<1>6. CASE UNCHANGED vars
  BY <1>6
  DEF vars, BaseInv, TypeOK, QuietStart, JobHeights, OnlyCommitted,
      ExpectedBlock, QueueAhead, Running, peerVars, jobVars, workerVars,
      indexVars, WioEmpty, AllIdle
<1> QED
  BY <1>1, <1>2, <1>3, <1>4, <1>5, <1>6 DEF Next

(* The specification keeps the base invariant. *)
LEMMA BaseAlways == Spec => []BaseInv
<1> QED
  BY BaseInit, BaseNext, PTL DEF Spec

(* Every variable of Sync keeps its type, in particular the heights stay   *)
(* within the ledger's bound and no handler sees an unknown post.          *)
THEOREM TypeCorrect == Spec => []TypeOK
<1>1. BaseInv => TypeOK
  BY DEF BaseInv
<1> QED
  BY <1>1, BaseAlways, PTL

(* addBlock's height check never fails while a sync runs (db.cpp: "Expected*)
(* block {} got {}").                                                      *)
THEOREM ExpectedAlways == Spec => []ExpectedBlock
<1>1. BaseInv => ExpectedBlock
  BY DEF BaseInv
<1> QED
  BY <1>1, BaseAlways, PTL

(* Between handlers the priority queue of runSync holds only blocks that   *)
(* still miss a predecessor.                                               *)
THEOREM QueueAheadAlways == Spec => []QueueAhead
<1>1. BaseInv => QueueAhead
  BY DEF BaseInv
<1> QED
  BY <1>1, BaseAlways, PTL
-----------------------------------------------------------------------------
(* Sync implements LedgerFollower. *)

(* A handler is a step of the follower, or adds nothing. *)
LEMMA HandleFollows ==
  ASSUME BaseInv, NEW post \in io, Handle(post)
  PROVE  Follower!Follow \/ UNCHANGED Follower!vars
<1> USE ConstantsAssumption
<1>1. PICK n \in next_height .. MaxHeight + 1 :
         /\ StopsAt(q \cup {post.height}, n)
         /\ IF n = next_height \/ Expected(next_height)
            THEN /\ q' = Leftover(q \cup {post.height}, n)
                 /\ next_height' = n
                 /\ block_count' = block_count + (n - next_height)
                 /\ pc' = pc
            ELSE /\ pc' = "exit"
                 /\ UNCHANGED <<q, next_height, block_count>>
  BY DEF Handle
<1>2. pc \notin {"check", "exit"} /\ next_height = block_count + 1
  BY DEF Handle, Running, BaseInv, QuietStart, ExpectedBlock
<1>3. /\ block_count' = block_count + (n - next_height) /\ pc' = pc
      /\ committed' = committed
  BY <1>1, <1>2 DEF Expected, Handle, peerVars
<1>4. /\ n \in Nat /\ next_height \in Nat /\ block_count \in Nat
      /\ next_height <= n /\ committed \in Nat
  BY <1>1 DEF BaseInv, TypeOK
<1>5. CASE n = next_height
  BY <1>3, <1>4, <1>5 DEF Follower!vars
<1>6. CASE n # next_height
  <2>1. n - 1 \in q \cup {post.height}
    BY <1>1, <1>4, <1>6 DEF StopsAt
  <2>2. n - 1 <= committed
    BY <2>1 DEF BaseInv, OnlyCommitted
  <2>3. block_count' = n - 1 /\ n - 1 \in (block_count + 1) .. committed
    BY <1>2, <1>3, <1>4, <1>6, <2>2
  <2> QED
    BY <1>3, <2>3 DEF Follower!Follow
<1> QED
  BY <1>5, <1>6

(* Every step of Sync is a step of the follower or leaves it alone. *)
LEMMA StepFollows == BaseInv /\ [Next]_vars => [Follower!Next]_(Follower!vars)
<1> SUFFICES ASSUME BaseInv, [Next]_vars
             PROVE  Follower!Next \/ UNCHANGED Follower!vars
  OBVIOUS
<1> USE DEF Follower!Next, Follower!vars, peerVars, jobVars, workerVars, indexVars
<1>1. CASE Commit
  BY <1>1 DEF Commit, Follower!Grow
<1>2. CASE RegisterLate
  BY <1>2 DEF RegisterLate
<1>3. CASE SyncThread
  <2>1. CASE DropCache
    BY <2>1 DEF DropCache
  <2>2. CASE StartSync
    <3>1. block_count <= committed
      BY <2>2 DEF StartSync, PeerHas, BaseInv, TypeOK
    <3> QED
      BY <2>2, <3>1 DEF StartSync, Follower!Start
  <2>3. CASE OpenStream
    BY <2>3 DEF OpenStream
  <2>4. CASE FillQueue \/ StartRun \/ RunQjob \/ LeaveRun
    BY <2>4 DEF FillQueue, StartRun, RunQjob, LeaveRun
  <2>5. CASE JoinWorkers \/ ReadStream
    BY <2>5 DEF JoinWorkers, ReadStream
  <2> QED
    BY <1>3, <2>1, <2>2, <2>3, <2>4, <2>5 DEF SyncThread
<1>4. CASE EndStream \/ DanglingHandler \/ Exit
  <2>1. block_count' = block_count /\ block_count \in Nat
    BY <1>4 DEF EndStream, DanglingHandler, Exit, BaseInv, TypeOK
  <2> QED
    BY <1>4, <2>1 DEF EndStream, DanglingHandler, Exit, Follower!Stop
<1>5. ASSUME NEW w \in Workers, Worker(w)
      PROVE  UNCHANGED Follower!vars
  BY <1>5 DEF Worker, TakeJob, CheckJob, FetchBlock, FetchNone, ReadMax,
              WriteMax, PostQjob
<1>6. CASE ServerThread
  BY <1>6, HandleFollows DEF ServerThread
<1>7. CASE UNCHANGED vars
  BY <1>7 DEF vars
<1> QED
  BY <1>1, <1>2, <1>3, <1>4, <1>5, <1>6, <1>7 DEF Next, Peer

(* Sync implements the follower's safety part: from the check of the last  *)
(* cached block on, the index is a gapless prefix of the peer's ledger and *)
(* is only ever extended, in order and by committed blocks.                *)
THEOREM FollowsLedgerAlways == Spec => FollowsLedger
<1>1. Init => Follower!Init
  BY ConstantsAssumption DEF Init, Follower!Init
<1> QED
  BY <1>1, BaseAlways, StepFollows, PTL DEF Spec, FollowsLedger, Follower!Spec
-----------------------------------------------------------------------------
(* Where the committed blocks are. *)

(* A stream, once registered, starts above the blocks committed then, and  *)
(* what it has delivered is in hand.                                       *)
StreamInv ==
  Running /\ subscribed > 0 =>
    /\ subscribed <= committed + 1
    /\ subscribed <= stream_next
    /\ \A h \in subscribed .. (stream_next - 1) : InHand(h)

(* A prompt peer has registered the stream when fetching starts, which is  *)
(* at the height that is next for the index.                               *)
StartInv ==
  /\ pc = "open" => wio_head = next_height
  /\ pc \notin {"check", "open", "exit"} => subscribed > 0

(* No value that reaches qheight_max, not even a stale one that a worker   *)
(* has read before the others wrote, is below the stream's first height.   *)
LimitInv ==
  Running /\ subscribed > 0 =>
    /\ qheight_max >= subscribed
    /\ \A w \in Workers :
         /\ wpc[w] \in {"read", "write"} => wheight[w] >= subscribed
         /\ wpc[w] = "write" => wread[w] >= subscribed

(* A block below the stream's first height is in hand, or a job for it is  *)
(* still to be taken or in progress.                                       *)
Asked(h) ==
  \/ h >= wio_head
  \/ \E w \in Workers : wheight[w] = h /\ wpc[w] \in {"taken", "ask"}

FetchInv ==
  Running /\ subscribed > 0 =>
    \A h \in 1 .. (subscribed - 1) : InHand(h) \/ Asked(h)

(* qio is stopped only when jobs up to qheight_max exist, run() is left    *)
(* only when it is stopped, and the stream is read only without workers.   *)
StopInv ==
  Running =>
    /\ pc \in {"check", "open"} => ~qio_stopped
    /\ qio_stopped => qheight >= qheight_max
    /\ pc \in {"join", "stream", "done"} => qio_stopped
    /\ pc \in {"stream", "done"} => WioEmpty /\ AllIdle

CoverInv == StartInv /\ LimitInv /\ FetchInv /\ StopInv

(* The part of BaseInv that the following lemmas use, in expanded form. *)
LEMMA BaseFacts ==
  ASSUME BaseInv
  PROVE  /\ committed \in Nat /\ committed <= MaxHeight /\ MaxHeight \in Nat
         /\ subscribed \in Nat /\ stream_next \in Nat
         /\ qheight \in Nat /\ qheight_max \in Nat /\ wio_head \in Nat
         /\ next_height \in Nat /\ SizeMax \in Nat /\ MaxHeight < SizeMax
         /\ wheight \in [Workers -> Nat] /\ wread \in [Workers -> Nat]
         /\ wpc \in [Workers -> {"idle", "taken", "ask", "read", "write", "post"}]
         /\ stream_next <= committed + 1
         /\ \A h \in q : h \in Nat
         /\ \A post \in io : post.height \in Nat
BY ConstantsAssumption DEF BaseInv, TypeOK, OnlyCommitted, Heights, Posts

(* Once the stream is open, no step but the end of the process lets go of  *)
(* a block.                                                                *)
LEMMA HandleKeeps ==
  ASSUME BaseInv, NEW post \in io, Handle(post), Running',
         NEW h \in Nat, InHand(h)
  PROVE  InHand(h)'
<1>1. PICK n \in next_height .. MaxHeight + 1 :
         IF n = next_height \/ Expected(next_height)
         THEN /\ q' = Leftover(q \cup {post.height}, n)
              /\ next_height' = n
              /\ block_count' = block_count + (n - next_height)
              /\ pc' = pc
         ELSE /\ pc' = "exit"
              /\ UNCHANGED <<q, next_height, block_count>>
  BY DEF Handle
<1>2. /\ q' = Leftover(q \cup {post.height}, n) /\ next_height' = n
      /\ io' = io \ {post}
  BY <1>1 DEF Handle, Running
<1>3. n \in Nat /\ next_height \in Nat /\ next_height <= n
  BY <1>1, BaseFacts
<1>4. CASE h < next_height
  BY <1>2, <1>3, <1>4 DEF InHand
<1>5. CASE h \in q \cup {post.height}
  BY <1>2, <1>3, <1>5 DEF InHand, Leftover
<1>6. CASE \E other \in io \ {post} : other.height = h
  BY <1>2, <1>6 DEF InHand
<1> QED
  BY <1>4, <1>5, <1>6 DEF InHand

LEMMA InHandKept ==
  ASSUME BaseInv, [Next]_vars, Running', pc \notin {"check", "exit"},
         NEW h \in Nat, InHand(h)
  PROVE  InHand(h)'
<1> USE DEF peerVars, jobVars, workerVars, indexVars
<1>1. CASE UNCHANGED <<next_height, q>> /\ io \subseteq io'
  BY <1>1 DEF InHand
<1>2. CASE Peer
  BY <1>1, <1>2 DEF Peer, Commit, RegisterLate
<1>3. CASE SyncThread
  <2>1. CASE OpenStream \/ FillQueue \/ StartRun \/ RunQjob \/ LeaveRun
    BY <1>1, <2>1 DEF OpenStream, FillQueue, StartRun, RunQjob, LeaveRun
  <2>2. CASE JoinWorkers \/ ReadStream
    BY <1>1, <2>2 DEF JoinWorkers, ReadStream
  <2> QED
    BY <1>3, <2>1, <2>2 DEF SyncThread, StartSync, DropCache
<1>4. CASE EndStream \/ DanglingHandler \/ Exit
  BY <1>1, <1>4 DEF EndStream, DanglingHandler, Exit
<1>5. ASSUME NEW w \in Workers, Worker(w)
      PROVE  InHand(h)'
  BY <1>1, <1>5 DEF Worker, TakeJob, CheckJob, FetchBlock, FetchNone, ReadMax,
                    WriteMax, PostQjob
<1>6. CASE ServerThread
  BY <1>6, HandleKeeps DEF ServerThread
<1>7. CASE UNCHANGED vars
  BY <1>1, <1>7 DEF vars
<1> QED
  BY <1>2, <1>3, <1>4, <1>5, <1>6, <1>7 DEF Next

(* Every step keeps StreamInv, with a prompt peer or a late one. *)
LEMMA StreamStep == BaseInv /\ StreamInv /\ [Next]_vars => StreamInv'
<1> SUFFICES ASSUME BaseInv, StreamInv, [Next]_vars, Running', subscribed' > 0
             PROVE  /\ subscribed' <= committed' + 1
                    /\ subscribed' <= stream_next'
                    /\ \A h \in subscribed' .. (stream_next' - 1) : InHand(h)'
  BY DEF StreamInv
<1> USE BaseFacts DEF peerVars, jobVars, workerVars, indexVars
<1>1. CASE UNCHANGED <<subscribed, stream_next>> /\ Running
           /\ committed' \in Nat /\ committed' >= committed
  <2>1. /\ subscribed <= committed + 1 /\ subscribed <= stream_next
        /\ \A h \in subscribed .. (stream_next - 1) : InHand(h)
    BY <1>1 DEF StreamInv
  <2>2. pc \notin {"check", "exit"}
    BY <1>1 DEF BaseInv, QuietStart, Running
  <2>3. \A h \in subscribed .. (stream_next - 1) : InHand(h)'
    BY <2>1, <2>2, InHandKept
  <2> QED
    BY <1>1, <2>1, <2>3
<1>2. CASE Register /\ UNCHANGED committed
  BY <1>2 DEF Register
<1>3. CASE ReadStream
  <2>1. /\ subscribed' = subscribed /\ committed' = committed
        /\ stream_next' = stream_next + 1 /\ stream_next > 0
        /\ io' = io \cup {[from |-> "stream", height |-> stream_next]}
        /\ pc = "stream"
    BY <1>3 DEF ReadStream
  <2>2. /\ subscribed <= committed + 1 /\ subscribed <= stream_next
        /\ \A h \in subscribed .. (stream_next - 1) : InHand(h)
    BY <2>1 DEF StreamInv, Running
  <2>3. \A h \in subscribed .. (stream_next - 1) : InHand(h)'
    BY <2>1, <2>2, InHandKept
  <2>4. ASSUME NEW h \in Nat, h = stream_next
        PROVE  InHand(h)'
    <3>1. /\ [from |-> "stream", height |-> stream_next] \in io'
          /\ [from |-> "stream", height |-> stream_next].height = h
      BY <2>1, <2>4
    <3>2. \E post \in io' : post.height = h
      BY <3>1
    <3> QED
      BY <3>2 DEF InHand
  <2>5. \A h \in subscribed .. stream_next :
          h \in Nat /\ (h \in subscribed .. (stream_next - 1) \/ h = stream_next)
    OBVIOUS
  <2>6. \A h \in subscribed .. stream_next : InHand(h)'
    BY <2>3, <2>4, <2>5
  <2> QED
    BY <2>1, <2>2, <2>6
<1>4. CASE Peer
  BY <1>1, <1>2, <1>4 DEF Peer, Commit, RegisterLate, Running
<1>5. CASE SyncThread
  <2>1. CASE OpenStream
    BY <1>1, <1>2, <2>1 DEF OpenStream, Running
  <2>2. CASE StartSync \/ FillQueue \/ StartRun \/ RunQjob \/ LeaveRun
             \/ JoinWorkers
    BY <1>1, <2>2 DEF StartSync, FillQueue, StartRun, RunQjob, LeaveRun,
                      JoinWorkers, Running
  <2> QED
    BY <1>3, <1>5, <2>1, <2>2 DEF SyncThread, DropCache, Running
<1>6. CASE EndStream \/ DanglingHandler \/ Exit
  BY <1>1, <1>6 DEF EndStream, DanglingHandler, Exit, Running
<1>7. ASSUME NEW w \in Workers, Worker(w)
      PROVE  UNCHANGED peerVars /\ Running
  BY <1>7 DEF Worker, TakeJob, CheckJob, FetchBlock, FetchNone, ReadMax,
              WriteMax, PostQjob
<1>8. CASE ServerThread
  BY <1>1, <1>8 DEF ServerThread, Handle
<1>9. CASE UNCHANGED vars
  BY <1>1, <1>9 DEF vars, Running
<1> QED
  BY <1>1, <1>4, <1>5, <1>6, <1>7, <1>8, <1>9 DEF Next

LEMMA StreamAlways == Spec => []StreamInv
<1>1. Init => StreamInv
  BY DEF Init, StreamInv
<1> QED
  BY <1>1, BaseAlways, StreamStep, PTL DEF Spec

(* From the first height of the stream on, the peer's blocks are in hand or*)
(* will be streamed, however late the peer registered the stream.          *)
THEOREM NothingLostOnceRegisteredAlways == Spec => []NothingLostOnceRegistered
<1>1. BaseInv /\ StreamInv => NothingLostOnceRegistered
  BY BaseFacts DEF StreamInv, NothingLostOnceRegistered, StreamPending
<1> QED
  BY <1>1, BaseAlways, StreamAlways, PTL
-----------------------------------------------------------------------------
(* With a prompt peer nothing below the first height of the stream is lost *)
(* either.                                                                 *)

LEMMA StartStep == Prompt /\ BaseInv /\ StartInv /\ [Next]_vars => StartInv'
<1> SUFFICES ASSUME Prompt, BaseInv, StartInv, [Next]_vars PROVE StartInv'
  OBVIOUS
<1> USE BaseFacts DEF StartInv, peerVars, jobVars, workerVars, indexVars
<1>1. CASE Commit
  BY <1>1 DEF Commit
<1>2. CASE RegisterLate
  BY <1>2 DEF RegisterLate
<1>3. CASE SyncThread
  <2>1. CASE StartSync
    BY <2>1 DEF StartSync
  <2>2. CASE OpenStream
    BY <2>2 DEF OpenStream, Register
  <2>3. CASE FillQueue \/ StartRun \/ RunQjob \/ LeaveRun
    BY <2>3 DEF FillQueue, StartRun, RunQjob, LeaveRun
  <2>4. CASE JoinWorkers \/ ReadStream \/ DropCache
    BY <2>4 DEF JoinWorkers, ReadStream, DropCache
  <2> QED
    BY <1>3, <2>1, <2>2, <2>3, <2>4 DEF SyncThread
<1>4. CASE EndStream \/ DanglingHandler \/ Exit
  BY <1>4 DEF EndStream, DanglingHandler, Exit
<1>5. ASSUME NEW w \in Workers, Worker(w)
      PROVE  StartInv'
  <2>1. CASE TakeJob(w)
    BY <2>1 DEF TakeJob, BaseInv, QuietStart
  <2>2. CASE ~TakeJob(w)
    BY <1>5, <2>2 DEF Worker, CheckJob, FetchBlock, FetchNone, ReadMax,
                      WriteMax, PostQjob
  <2> QED
    BY <2>1, <2>2
<1>6. ASSUME NEW post \in io, Handle(post)
      PROVE  StartInv'
  BY <1>6 DEF Handle, BaseInv, QuietStart
<1>7. CASE UNCHANGED vars
  BY <1>7 DEF vars
<1> QED
  BY <1>1, <1>2, <1>3, <1>4, <1>5, <1>6, <1>7 DEF Next, Peer, ServerThread

(* A fetch that finds no block is at the stream's first height or above,   *)
(* so neither a fresh nor a stale minimum cuts off a job below it.         *)
LEMMA LimitStep ==
  Prompt /\ ~Refuses /\ BaseInv /\ StreamInv /\ StartInv /\ LimitInv /\ [Next]_vars
    => LimitInv'
<1> SUFFICES ASSUME Prompt, ~Refuses, BaseInv, StreamInv, StartInv, LimitInv,
                    [Next]_vars, Running', subscribed' > 0
             PROVE  LimitInv'
  BY DEF LimitInv
<1> USE BaseFacts
    DEF LimitInv, peerVars, jobVars, workerVars, indexVars, Running
<1>1. CASE UNCHANGED <<subscribed, qheight_max, wpc, wheight, wread>> /\ Running
  BY <1>1
<1>2. CASE Peer
  BY <1>1, <1>2 DEF Peer, Commit, RegisterLate
<1>3. CASE SyncThread
  <2>1. CASE OpenStream
    BY <2>1 DEF OpenStream, Register, BaseInv, QuietStart, AllIdle
  <2>2. CASE StartSync \/ FillQueue \/ StartRun \/ RunQjob \/ LeaveRun
    BY <1>1, <2>2 DEF StartSync, FillQueue, StartRun, RunQjob, LeaveRun
  <2>3. CASE JoinWorkers \/ ReadStream
    BY <1>1, <2>3 DEF JoinWorkers, ReadStream
  <2> QED
    BY <1>3, <2>1, <2>2, <2>3 DEF SyncThread, DropCache
<1>4. CASE EndStream \/ DanglingHandler \/ Exit
  BY <1>1, <1>4 DEF EndStream, DanglingHandler, Exit
<1>5. ASSUME NEW w \in Workers, Worker(w)
      PROVE  LimitInv'
  <2> USE DEF MoveWorker, EndJob
  <2>1. CASE TakeJob(w)
    BY <2>1 DEF TakeJob
  <2>2. CASE CheckJob(w)
    BY <2>2 DEF CheckJob
  <2>3. CASE FetchBlock(w)
    BY <2>3 DEF FetchBlock
  <2>4. CASE FetchNone(w)
    <3>1. subscribed <= committed + 1 /\ committed < wheight[w]
      BY <2>4 DEF FetchNone, PeerHas, StreamInv
    <3> QED
      BY <2>4, <3>1 DEF FetchNone
  <2>5. CASE ReadMax(w)
    BY <2>5 DEF ReadMax
  <2>6. CASE WriteMax(w)
    BY <2>6 DEF WriteMax, Smaller
  <2>7. CASE PostQjob(w)
    BY <2>7 DEF PostQjob
  <2> QED
    BY <1>5, <2>1, <2>2, <2>3, <2>4, <2>5, <2>6, <2>7 DEF Worker
<1>6. CASE ServerThread
  BY <1>1, <1>6 DEF ServerThread, Handle
<1>7. CASE UNCHANGED vars
  BY <1>1, <1>7 DEF vars
<1> QED
  BY <1>2, <1>3, <1>4, <1>5, <1>6, <1>7 DEF Next

(* A height below the stream's first one stays in hand or asked for: its   *)
(* job is not dropped and, when it asks, the peer has the block.           *)
LEMMA AskedKept ==
  ASSUME ~Refuses, BaseInv, StreamInv, LimitInv, [Next]_vars, Running',
         subscribed > 0,
         pc \notin {"check", "exit"},
         NEW h \in 1 .. (subscribed - 1), Asked(h)
  PROVE  InHand(h)' \/ Asked(h)'
<1> USE BaseFacts DEF peerVars, jobVars, workerVars, indexVars, Running
<1>1. CASE UNCHANGED <<wio_head, wpc, wheight>>
  BY <1>1 DEF Asked
<1>2. CASE Peer \/ EndStream \/ DanglingHandler \/ Exit
  BY <1>1, <1>2 DEF Peer, Commit, RegisterLate, EndStream, DanglingHandler, Exit
<1>3. CASE SyncThread
  <2>1. CASE OpenStream \/ FillQueue \/ StartRun \/ RunQjob \/ LeaveRun
    BY <1>1, <2>1 DEF OpenStream, FillQueue, StartRun, RunQjob, LeaveRun
  <2>2. CASE JoinWorkers \/ ReadStream
    BY <1>1, <2>2 DEF JoinWorkers, ReadStream
  <2> QED
    BY <1>3, <2>1, <2>2 DEF SyncThread, StartSync, DropCache
<1>4. ASSUME NEW w \in Workers, Worker(w)
      PROVE  InHand(h)' \/ Asked(h)'
  <2> USE DEF MoveWorker, EndJob, Asked
  <2>1. CASE TakeJob(w)
    BY <2>1 DEF TakeJob
  <2>2. CASE CheckJob(w)
    <3>1. wheight[w] = h => wheight[w] < qheight_max
      BY DEF LimitInv
    <3> QED
      BY <2>2, <3>1 DEF CheckJob
  <2>3. CASE FetchBlock(w)
    <3>1. CASE wheight[w] = h
      <4>1. [from |-> "fetch", height |-> wheight[w]] \in io'
        BY <2>3 DEF FetchBlock
      <4>2. \E post \in io' : post.height = h
        BY <3>1, <4>1
      <4> QED
        BY <4>2 DEF InHand
    <3>2. CASE wheight[w] # h
      BY <2>3, <3>2 DEF FetchBlock
    <3> QED
      BY <3>1, <3>2
  <2>4. CASE FetchNone(w)
    <3>1. wheight[w] # h
      BY <2>4 DEF FetchNone, PeerHas, StreamInv
    <3> QED
      BY <2>4, <3>1 DEF FetchNone
  <2>5. CASE ReadMax(w) \/ WriteMax(w)
    BY <2>5 DEF ReadMax, WriteMax
  <2>6. CASE PostQjob(w)
    BY <2>6 DEF PostQjob
  <2> QED
    BY <1>4, <2>1, <2>2, <2>3, <2>4, <2>5, <2>6 DEF Worker
<1>5. CASE ServerThread
  BY <1>1, <1>5 DEF ServerThread, Handle
<1>6. CASE UNCHANGED vars
  BY <1>1, <1>6 DEF vars
<1> QED
  BY <1>2, <1>3, <1>4, <1>5, <1>6 DEF Next

LEMMA FetchStep ==
  Prompt /\ ~Refuses /\ BaseInv /\ StreamInv /\ StartInv /\ LimitInv /\ FetchInv
    /\ [Next]_vars => FetchInv'
<1> SUFFICES ASSUME Prompt, ~Refuses, BaseInv, StreamInv, StartInv, LimitInv,
                    FetchInv, [Next]_vars, Running', subscribed' > 0,
                    NEW h \in 1 .. (subscribed' - 1)
             PROVE  InHand(h)' \/ Asked(h)'
  BY DEF FetchInv
<1> USE BaseFacts
<1>1. CASE Running /\ subscribed > 0 /\ subscribed' = subscribed
  <2>1. /\ h \in 1 .. (subscribed - 1) /\ h \in Nat
        /\ pc \notin {"check", "exit"}
    BY <1>1 DEF Running, BaseInv, QuietStart
  <2>2. InHand(h) \/ Asked(h)
    BY <1>1, <2>1 DEF FetchInv
  <2> QED
    BY <1>1, <2>1, <2>2, InHandKept, AskedKept
<1>2. CASE OpenStream
  <2>1. /\ wio_head = next_height /\ wio_head' = wio_head
        /\ next_height' = next_height
    BY <1>2 DEF OpenStream, StartInv, workerVars, indexVars
  <2>2. h < next_height' \/ h >= wio_head'
    BY <2>1
  <2> QED
    BY <2>2 DEF InHand, Asked
<1>3. ~Running => ~Running'
  BY DEF Next, Peer, Commit, RegisterLate, SyncThread, StartSync, DropCache,
         OpenStream, FillQueue, StartRun, RunQjob, LeaveRun, JoinWorkers,
         ReadStream, EndStream, Worker, TakeJob, CheckJob, FetchBlock,
         FetchNone, ReadMax, WriteMax, PostQjob, ServerThread, Handle,
         DanglingHandler, Exit, Running, vars
<1>4. subscribed' = subscribed \/ RegisterLate \/ OpenStream
  BY DEF Next, Peer, Commit, SyncThread, StartSync, DropCache,
         FillQueue, StartRun, RunQjob, LeaveRun, JoinWorkers,
         ReadStream, EndStream, Worker, TakeJob, CheckJob, FetchBlock,
         FetchNone, ReadMax, WriteMax, PostQjob, ServerThread, Handle,
         DanglingHandler, Exit, vars, peerVars
<1>5. ~RegisterLate
  BY DEF RegisterLate
<1> QED
  BY <1>1, <1>2, <1>3, <1>4, <1>5

(* A minimum that a worker writes is the height of a job taken from wio,   *)
(* which is below qheight: a stopped qio stays stopped for a reason.       *)
LEMMA StopStep == BaseInv /\ StopInv /\ [Next]_vars => StopInv'
<1> SUFFICES ASSUME BaseInv, StopInv, [Next]_vars, Running' PROVE StopInv'
  BY DEF StopInv
<1> USE BaseFacts
    DEF StopInv, peerVars, jobVars, workerVars, indexVars, Running
<1>1. CASE UNCHANGED <<pc, jobVars, workerVars>>
  BY <1>1 DEF WioEmpty, AllIdle
<1>2. CASE Peer
  BY <1>1, <1>2 DEF Peer, Commit, RegisterLate
<1>3. CASE SyncThread
  <2>1. CASE StartSync
    BY <2>1 DEF StartSync, BaseInv, TypeOK, QuietStart, FirstMissing
  <2>2. CASE OpenStream \/ StartRun \/ LeaveRun
    BY <2>2 DEF OpenStream, StartRun, LeaveRun
  <2>3. CASE FillQueue \/ RunQjob
    BY <2>3 DEF FillQueue, RunQjob, Qjob
  <2>4. CASE JoinWorkers
    BY <2>4 DEF JoinWorkers, WioEmpty, AllIdle
  <2>5. CASE ReadStream
    BY <1>1, <2>5 DEF ReadStream
  <2> QED
    BY <1>3, <2>1, <2>2, <2>3, <2>4, <2>5 DEF SyncThread, DropCache
<1>4. CASE EndStream
  BY <1>4 DEF EndStream, WioEmpty, AllIdle
<1>5. ASSUME NEW w \in Workers, Worker(w)
      PROVE  StopInv'
  <2> USE DEF WioEmpty, AllIdle, MoveWorker, EndJob
  <2>1. CASE TakeJob(w)
    BY <2>1 DEF TakeJob
  <2>2. CASE CheckJob(w) \/ FetchBlock(w) \/ FetchNone(w) \/ ReadMax(w)
    <3>1. wpc[w] # "idle" /\ UNCHANGED <<pc, jobVars, wio_head, qheight_max>>
      BY <2>2 DEF CheckJob, FetchBlock, FetchNone, ReadMax
    <3>2. pc \notin {"stream", "done"}
      BY <3>1
    <3> QED
      BY <3>1, <3>2
  <2>3. CASE WriteMax(w)
    <3>1. wheight[w] < qheight
      BY <2>3 DEF WriteMax, BaseInv, JobHeights
    <3>2. qheight_max' \in Nat /\ qheight_max' <= wheight[w]
      BY <2>3 DEF WriteMax, Smaller
    <3>3. qheight' >= qheight_max'
      BY <2>3, <3>1, <3>2 DEF WriteMax
    <3>4. pc \notin {"stream", "done"} /\ UNCHANGED <<pc, jobVars>>
      BY <2>3 DEF WriteMax
    <3> QED
      BY <3>3, <3>4
  <2>4. CASE PostQjob(w)
    BY <2>4 DEF PostQjob
  <2> QED
    BY <1>5, <2>1, <2>2, <2>3, <2>4 DEF Worker
<1>6. CASE ServerThread
  BY <1>1, <1>6 DEF ServerThread, Handle
<1>7. CASE UNCHANGED vars
  BY <1>1, <1>7 DEF vars
<1> QED
  BY <1>2, <1>3, <1>4, <1>5, <1>6, <1>7 DEF Next, DanglingHandler, Exit

(* No step makes the peer another one. *)
LEMMA PeerKept == [Next]_vars => peer' = peer
<1> SUFFICES ASSUME [Next]_vars PROVE peer' = peer
  OBVIOUS
<1> QED
  BY DEF Next, Peer, Commit, RegisterLate, SyncThread, StartSync, DropCache,
         OpenStream, FillQueue, StartRun, RunQjob, LeaveRun, JoinWorkers,
         ReadStream, EndStream, Worker, TakeJob, CheckJob, FetchBlock,
         FetchNone, ReadMax, WriteMax, PostQjob, ServerThread, Handle,
         DanglingHandler, Exit, vars, peerVars

(* With a prompt peer that does not refuse what it has, the specification  *)
(* keeps the covering invariant.                                           *)
LEMMA CoverAlways == Spec => [](Prompt /\ ~Refuses => CoverInv)
<1>1. Init => CoverInv
  BY ConstantsAssumption
  DEF Init, CoverInv, StartInv, LimitInv, FetchInv, StopInv
<1>2. BaseInv /\ StreamInv /\ (Prompt /\ ~Refuses => CoverInv) /\ [Next]_vars
        => (Prompt /\ ~Refuses => CoverInv)'
  <2> SUFFICES ASSUME BaseInv, StreamInv, Prompt /\ ~Refuses => CoverInv,
                      [Next]_vars, Prompt', ~Refuses'
               PROVE  CoverInv'
    OBVIOUS
  <2>1. Prompt /\ ~Refuses
    BY PeerKept DEF Prompt, Refuses
  <2> QED
    BY <2>1, StartStep, LimitStep, FetchStep, StopStep DEF CoverInv
<1> QED
  BY <1>1, <1>2, BaseAlways, StreamAlways, PTL DEF Spec

(* Every block the peer has is in hand, will be streamed, or will be asked *)
(* for by a job nobody drops: the handover from the fetching phase to the  *)
(* stream loses no height, whatever the unlocked updates of qheight_max do.*)
THEOREM NoBlockLostAlways == Spec => []NoBlockLost
<1>1. BaseInv /\ StreamInv /\ (Prompt /\ ~Refuses => CoverInv) => NoBlockLost
  <2> SUFFICES ASSUME BaseInv, StreamInv, CoverInv, subscribed > 0, Running,
                      NEW h \in 1 .. committed
               PROVE  InHand(h) \/ StreamPending(h) \/ FetchPending(h)
    BY DEF NoBlockLost
  <2> USE BaseFacts
  <2>1. CASE h >= subscribed
    BY <2>1 DEF StreamInv, StreamPending
  <2>2. CASE h < subscribed
    <3>1. h < qheight_max
      BY <2>2 DEF CoverInv, LimitInv
    <3>2. InHand(h) \/ Asked(h)
      BY <2>2 DEF CoverInv, FetchInv
    <3>3. h >= wio_head => ~(WioEmpty /\ qio_stopped)
      BY <3>1 DEF CoverInv, StopInv, WioEmpty
    <3> QED
      BY <3>1, <3>2, <3>3 DEF Asked, FetchPending
  <2> QED
    BY <2>1, <2>2
<1> QED
  BY <1>1, BaseAlways, StreamAlways, CoverAlways, PTL

(* "Sync wait for new blocks" is true with a prompt peer: when the stream  *)
(* is all that is left, it will deliver every block that is not in hand.   *)
THEOREM WaitsOnlyForNewBlocksAlways ==
  Spec => [](Prompt /\ ~Refuses => WaitsOnlyForNewBlocks)
<1>1. BaseInv /\ StreamInv /\ (Prompt /\ ~Refuses => CoverInv)
        => (Prompt /\ ~Refuses => WaitsOnlyForNewBlocks)
  <2> SUFFICES ASSUME BaseInv, StreamInv, CoverInv, pc = "stream",
                      NEW h \in 1 .. committed
               PROVE  InHand(h) \/ StreamPending(h)
    BY DEF WaitsOnlyForNewBlocks
  <2> USE BaseFacts
  <2>1. subscribed > 0 /\ Running /\ WioEmpty /\ AllIdle /\ qio_stopped
    BY DEF CoverInv, StartInv, StopInv, Running
  <2>2. CASE h >= subscribed
    BY <2>1, <2>2 DEF StreamInv, StreamPending
  <2>3. CASE h < subscribed
    <3>1. ~Asked(h)
      BY <2>1, <2>3 DEF CoverInv, LimitInv, StopInv, WioEmpty, AllIdle, Asked
    <3> QED
      BY <2>1, <2>3, <3>1 DEF CoverInv, FetchInv
  <2> QED
    BY <2>2, <2>3
<1> QED
  BY <1>1, BaseAlways, StreamAlways, CoverAlways, PTL
-----------------------------------------------------------------------------
(* How many jobs there are at a time.                                      *)

(* The workers that have a job. *)
Busy == {w \in Workers : wpc[w] # "idle"}

(* Each call of qjob adds one job at most, and every later call is asked   *)
(* for by a job that ends.  That finitely many workers are busy is part of *)
(* the argument: Workers may be any set.                                   *)
PrefetchInv ==
  /\ IsFiniteSet(Busy)
  /\ (qheight - wio_head) + qio + Cardinality(Busy) <= filled

(* A worker takes a job or goes on with one.                               *)
LEMMA BusyMore ==
  ASSUME TypeOK, NEW w \in Workers, NEW step, step # "idle",
         MoveWorker(w, step), IsFiniteSet(Busy)
  PROVE  /\ IsFiniteSet(Busy') /\ Cardinality(Busy) \in Nat
         /\ Cardinality(Busy') =
              IF wpc[w] = "idle" THEN Cardinality(Busy) + 1 ELSE Cardinality(Busy)
<1>1. Busy' = Busy \cup {w}
  BY DEF TypeOK, MoveWorker, Busy
<1>2. w \in Busy <=> wpc[w] # "idle"
  BY DEF Busy
<1>3. Cardinality(Busy) \in Nat
  BY FS_CardinalityType
<1>4. /\ IsFiniteSet(Busy \cup {w})
      /\ Cardinality(Busy \cup {w}) =
           IF w \in Busy THEN Cardinality(Busy) ELSE Cardinality(Busy) + 1
  BY FS_AddElement
<1> HIDE DEF Busy
<1> QED
  BY <1>1, <1>2, <1>3, <1>4

(* A worker ends its job.                                                  *)
LEMMA BusyLess ==
  ASSUME TypeOK, NEW w \in Workers, wpc[w] # "idle", EndJob(w), IsFiniteSet(Busy)
  PROVE  /\ IsFiniteSet(Busy') /\ Cardinality(Busy) \in Nat
         /\ Cardinality(Busy') = Cardinality(Busy) - 1
<1>1. Busy' = Busy \ {w}
  BY DEF TypeOK, EndJob, MoveWorker, Busy
<1>2. w \in Busy
  BY DEF Busy
<1>3. Cardinality(Busy) \in Nat
  BY FS_CardinalityType
<1>4. /\ IsFiniteSet(Busy \ {w})
      /\ Cardinality(Busy \ {w}) =
           IF w \in Busy THEN Cardinality(Busy) - 1 ELSE Cardinality(Busy)
  BY FS_RemoveElement
<1> HIDE DEF Busy
<1> QED
  BY <1>1, <1>2, <1>3, <1>4

(* A call of qjob adds one job at most.                                    *)
LEMMA QjobAddsOne ==
  ASSUME TypeOK, Qjob
  PROVE  qheight' \in Nat /\ qheight' <= qheight + 1
BY DEF Qjob, TypeOK

(* No step of a worker adds a job. *)
LEMMA PrefetchWorker ==
  ASSUME TypeOK, PrefetchInv, NEW w \in Workers, Worker(w)
  PROVE  PrefetchInv'
<1>0. /\ qheight \in Nat /\ wio_head \in Nat /\ qio \in Nat /\ filled \in Nat
      /\ IsFiniteSet(Busy)
      /\ (qheight - wio_head) + qio + Cardinality(Busy) <= filled
  BY DEF TypeOK, PrefetchInv
<1> DEFINE n == Cardinality(Busy)
           n2 == Cardinality(Busy')
<1>1. CASE TakeJob(w)
  <2>1. /\ qheight' = qheight /\ wio_head' = wio_head + 1 /\ qio' = qio
        /\ filled' = filled /\ MoveWorker(w, "taken") /\ wpc[w] = "idle"
    BY <1>1 DEF TakeJob, jobVars
  <2>2. IsFiniteSet(Busy') /\ n \in Nat /\ n2 = n + 1
    BY <1>0, <2>1, BusyMore
  <2> HIDE DEF n
  <2>3. (qheight' - wio_head') + qio' + n2 <= filled'
    BY <1>0, <2>1, <2>2 DEF n
  <2> QED
    BY <2>2, <2>3 DEF PrefetchInv
<1>2. CASE PostQjob(w) \/ (CheckJob(w) /\ EndJob(w))
  <2>1. /\ qheight' = qheight /\ wio_head' = wio_head
        /\ qio' = qio + 1 \/ qio' = qio
        /\ filled' = filled /\ EndJob(w) /\ wpc[w] # "idle"
    BY <1>2 DEF PostQjob, CheckJob, jobVars
  <2>2. IsFiniteSet(Busy') /\ n \in Nat /\ n2 = n - 1
    BY <1>0, <2>1, BusyLess
  <2>3. (qheight' - wio_head') + qio' + n2 <= filled'
    BY <1>0, <2>1, <2>2
  <2> QED
    BY <2>2, <2>3 DEF PrefetchInv
<1>3. ASSUME NEW step, step # "idle", MoveWorker(w, step), wpc[w] # "idle",
             UNCHANGED <<qheight, wio_head, qio, filled>>
      PROVE  PrefetchInv'
  <2>1. IsFiniteSet(Busy') /\ n \in Nat /\ n2 = n
    BY <1>0, <1>3, BusyMore
  <2>2. (qheight' - wio_head') + qio' + n2 <= filled'
    BY <1>0, <1>3, <2>1
  <2> QED
    BY <2>1, <2>2 DEF PrefetchInv
<1>4. CASE CheckJob(w) /\ ~EndJob(w)
  <2>1. /\ MoveWorker(w, "ask") /\ wpc[w] # "idle"
        /\ UNCHANGED <<qheight, wio_head, qio, filled>>
    BY <1>4 DEF CheckJob, jobVars
  <2> QED
    BY <1>3, <2>1
<1>5. CASE FetchBlock(w)
  <2>1. /\ MoveWorker(w, "post") /\ wpc[w] # "idle"
        /\ UNCHANGED <<qheight, wio_head, qio, filled>>
    BY <1>5 DEF FetchBlock, jobVars
  <2> QED
    BY <1>3, <2>1
<1>6. CASE FetchNone(w)
  <2>1. /\ MoveWorker(w, "read") /\ wpc[w] # "idle"
        /\ UNCHANGED <<qheight, wio_head, qio, filled>>
    BY <1>6 DEF FetchNone, jobVars
  <2> QED
    BY <1>3, <2>1
<1>7. CASE ReadMax(w)
  <2>1. /\ MoveWorker(w, "write") /\ wpc[w] # "idle"
        /\ UNCHANGED <<qheight, wio_head, qio, filled>>
    BY <1>7 DEF ReadMax, jobVars
  <2> QED
    BY <1>3, <2>1
<1>8. CASE WriteMax(w)
  <2>1. /\ MoveWorker(w, "post") /\ wpc[w] # "idle"
        /\ UNCHANGED <<qheight, wio_head, qio, filled>>
    BY <1>8 DEF WriteMax, jobVars
  <2> QED
    BY <1>3, <2>1
<1> QED
  BY <1>1, <1>2, <1>4, <1>5, <1>6, <1>7, <1>8 DEF Worker

(* Every step keeps the bound. *)
LEMMA PrefetchStep == BaseInv /\ PrefetchInv /\ [Next]_vars => PrefetchInv'
<1> SUFFICES ASSUME BaseInv, PrefetchInv, [Next]_vars PROVE PrefetchInv'
  OBVIOUS
<1>0. /\ qheight \in Nat /\ wio_head \in Nat /\ qio \in Nat /\ filled \in Nat
      /\ IsFiniteSet(Busy)
      /\ (qheight - wio_head) + qio + Cardinality(Busy) <= filled
  BY DEF BaseInv, TypeOK, PrefetchInv
<1>1. Cardinality(Busy) \in Nat
  BY <1>0, FS_CardinalityType
<1>2. ASSUME wpc' = wpc,
             (qheight' - wio_head') + qio' + Cardinality(Busy) <= filled'
      PROVE  PrefetchInv'
  <2>1. Busy' = Busy
    BY <1>2 DEF Busy
  <2> QED
    BY <1>0, <1>2, <2>1 DEF PrefetchInv
<1>3. CASE UNCHANGED <<wpc, qheight, wio_head, qio, filled>>
  BY <1>0, <1>2, <1>3
<1>4. CASE StartSync
  <2>1. qheight = wio_head
    BY <1>4 DEF StartSync, BaseInv, QuietStart, WioEmpty
  <2>2. /\ wpc' = wpc /\ qheight' = FirstMissing /\ wio_head' = FirstMissing
        /\ qio' = qio /\ filled' = filled
    BY <1>4 DEF StartSync
  <2>3. FirstMissing \in Nat
    BY DEF BaseInv, TypeOK, FirstMissing
  <2>4. (qheight' - wio_head') + qio' + Cardinality(Busy) <= filled'
    BY <1>0, <1>1, <2>1, <2>2, <2>3
  <2> QED
    BY <1>2, <2>2, <2>4
<1>5. CASE FillQueue
  <2>1. Qjob /\ filled' = filled + 1 /\ UNCHANGED <<wpc, wio_head, qio>>
    BY <1>5 DEF FillQueue, workerVars
  <2>2. qheight' \in Nat /\ qheight' <= qheight + 1
    BY <2>1, QjobAddsOne DEF BaseInv
  <2>3. (qheight' - wio_head') + qio' + Cardinality(Busy) <= filled'
    BY <1>0, <1>1, <2>1, <2>2
  <2> QED
    BY <1>2, <2>1, <2>3
<1>6. CASE RunQjob
  <2>1. Qjob /\ qio' = qio - 1 /\ UNCHANGED <<wpc, wio_head, filled>>
    BY <1>6 DEF RunQjob, workerVars
  <2>2. qheight' \in Nat /\ qheight' <= qheight + 1
    BY <2>1, QjobAddsOne DEF BaseInv
  <2>3. (qheight' - wio_head') + qio' + Cardinality(Busy) <= filled'
    BY <1>0, <1>1, <2>1, <2>2
  <2> QED
    BY <1>2, <2>1, <2>3
<1>7. CASE Peer \/ EndStream \/ ServerThread \/ DanglingHandler \/ Exit \/ UNCHANGED vars
  BY <1>3, <1>7 DEF Peer, Commit, RegisterLate, EndStream, ServerThread, Handle,
     DanglingHandler, Exit, vars, jobVars, workerVars
<1>8. CASE DropCache \/ OpenStream \/ StartRun \/ LeaveRun \/ JoinWorkers \/ ReadStream
  BY <1>3, <1>8 DEF DropCache, OpenStream, StartRun, LeaveRun, JoinWorkers, ReadStream,
     jobVars, workerVars
<1>9. CASE \E w \in Workers : Worker(w)
  BY <1>9, PrefetchWorker DEF BaseInv
<1> QED
  BY <1>4, <1>5, <1>6, <1>7, <1>8, <1>9 DEF Next, SyncThread

(* No more than QueueSize heights are queued, being fetched or waiting for *)
(* their successor, whichever of the sync thread and the workers is ahead  *)
(* (kGetBlockQueue).                                                       *)
THEOREM BoundedPrefetchAlways == Spec => []BoundedPrefetch
<1>1. Init => PrefetchInv
  <2> SUFFICES ASSUME Init PROVE PrefetchInv
    OBVIOUS
  <2>1. Busy = {}
    BY DEF Init, Busy
  <2>2. qheight = 0 /\ wio_head = 0 /\ qio = 0 /\ filled = 0
    BY DEF Init
  <2> QED
    BY <2>1, <2>2, FS_EmptySet DEF PrefetchInv
<1>2. BaseInv /\ PrefetchInv => BoundedPrefetch
  <2> SUFFICES ASSUME BaseInv, PrefetchInv PROVE BoundedPrefetch
    OBVIOUS
  <2>1. /\ filled <= QueueSize /\ filled \in Nat /\ QueueSize \in Nat
        /\ qheight \in Nat /\ wio_head \in Nat /\ qio \in Nat
    BY ConstantsAssumption DEF BaseInv, TypeOK
  <2>2. /\ Cardinality(Busy) \in Nat
        /\ (qheight - wio_head) + qio + Cardinality(Busy) <= filled
    BY FS_CardinalityType DEF PrefetchInv
  <2>3. (qheight - wio_head) + qio + Cardinality(Busy) <= QueueSize
    BY <2>1, <2>2
  <2> QED
    BY <2>3 DEF BoundedPrefetch, Outstanding, Busy
<1> QED
  BY <1>1, <1>2, BaseAlways, PrefetchStep, PTL DEF Spec
=============================================================================
