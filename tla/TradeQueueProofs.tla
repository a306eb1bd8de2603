------------------------- MODULE TradeQueueProofs -------------------------
(***************************************************************************)
(* Proofs about TradeQueue.tla: the types and the attempts of the client,  *)
(* the use of the slots, and the statistics, for any number of jobs, keys, *)
(* retries and slots.                                                      *)
(***************************************************************************)
EXTENDS TradeQueue, FiniteSetTheorems, TLAPS

-----------------------------------------------------------------------------
(* The inductive invariant of the client.                                  *)

(* A transaction carries the number of an attempt that submitTrade makes,  *)
(* and only a job with attempts left sleeps.                               *)
AttemptInv ==
  \A j \in Jobs :
    /\ pc[j] \in {"send", "wait"} => attempt[j] \in 1..MaxRetries
    /\ pc[j] = "sleep" => attempt[j] \in 1..(MaxRetries - 1)

(* The marks of the vault are the keys of the settled trades, of which no  *)
(* two have the same.                                                      *)
SettledOnce ==
  \A a, b \in 1..Len(trades) : trades[a].key = trades[b].key => a = b

MarkInv ==
  /\ usedNonces = {trades[a].key : a \in 1..Len(trades)}
  /\ SettledOnce

ClientInv == ClientTypeOK /\ AttemptInv /\ MarkInv

USE ClientAssumption

(* Initially no job has begun and nothing has settled.                     *)
LEMMA ClientInvInit == Init => ClientInv
  BY DEF Init, ClientInit, ClientInv, ClientTypeOK, Points, AttemptInv, MarkInv,
         SettledOnce

(* A step of the queue that sets pc and attempt and sends or receives      *)
(* keeps the invariant, if the new values are typed and the attempts fit.  *)
LEMMA QueueStepKeeps ==
  ASSUME ClientInv,
         pc' \in [Jobs -> Points], attempt' \in [Jobs -> 0..MaxRetries], AttemptInv',
         \/ UNCHANGED mempool
         \/ \E j \in Jobs : attempt[j] \in 1..MaxRetries /\ Broadcast(j),
         receipts' \in [Jobs -> {"none", "settled", "reverted"}],
         UNCHANGED <<limitVars, usedNonces, trades>>
  PROVE  ClientInv'
<1>1. mempool' \in Seq(Txs)
  <2>1. CASE UNCHANGED mempool
    BY <2>1 DEF ClientInv, ClientTypeOK
  <2>2. ASSUME NEW j \in Jobs, attempt[j] \in 1..MaxRetries, Broadcast(j)
        PROVE  mempool' \in Seq(Txs)
    <3>1. Tx(j) \in Txs
      BY <2>2 DEF Tx, Txs
    <3> QED BY <2>2, <3>1 DEF ClientInv, ClientTypeOK, Broadcast
  <2> QED BY <2>1, <2>2
<1>2. ClientTypeOK'
  BY <1>1 DEF ClientInv, ClientTypeOK, limitVars
<1>3. MarkInv'
  BY DEF ClientInv, MarkInv, SettledOnce
<1> QED BY <1>2, <1>3 DEF ClientInv

(* _drain moves jobs of the queue to the beginning of validateTrade and    *)
(* leaves the others where they are.                                       *)
LEMMA DrainKeeps ==
  ASSUME NEW q, NEW busy, NEW isStopped, NEW at \in [Jobs -> Points],
         Drain(q, busy, isStopped, at)
  PROVE  /\ pc' \in [Jobs -> Points]
         /\ \A j \in Jobs : pc'[j] = at[j] \/ pc'[j] \in {"expired", "readNonce"}
  BY DEF Drain, Begin, Points, InFlight

-----------------------------------------------------------------------------
(* One lemma per action.                                                   *)

(* Where a callback takes a job: to a point it may be at, with the attempt *)
(* that belongs there.                                                     *)
Fits(j, next) ==
  /\ next \in Points
  /\ next \in {"send", "wait"} => attempt'[j] \in 1..MaxRetries
  /\ next = "sleep" => attempt'[j] \in 1..(MaxRetries - 1)

(* A callback of a job leaves the others' attempts alone, so that MoveTo   *)
(* keeps AttemptInv if the job's next point fits.                          *)
LEMMA MoveToKeeps ==
  ASSUME ClientInv, NEW j \in Jobs, NEW next, MoveTo(j, next), Fits(j, next),
         attempt' \in [Jobs -> 0..MaxRetries],
         \A i \in Jobs \ {j} : attempt'[i] = attempt[i]
  PROVE  pc' \in [Jobs -> Points] /\ AttemptInv'
<1> DEFINE at == [pc EXCEPT ![j] = next]
<1>1. at \in [Jobs -> Points]
  BY DEF Fits, ClientInv, ClientTypeOK
<1>2. /\ pc' \in [Jobs -> Points]
      /\ \A i \in Jobs : pc'[i] = at[i] \/ pc'[i] \in {"expired", "readNonce"}
  <2>1. CASE Continue(j, next)
    BY <2>1, <1>1 DEF Continue
  <2>2. CASE Finish(j, next)
    BY <2>2, <1>1, DrainKeeps DEF Finish
  <2> QED BY <2>1, <2>2 DEF MoveTo
<1>3. ASSUME NEW i \in Jobs
      PROVE  /\ pc'[i] \in {"send", "wait"} => attempt'[i] \in 1..MaxRetries
             /\ pc'[i] = "sleep" => attempt'[i] \in 1..(MaxRetries - 1)
  <2>1. CASE i = j
    BY <2>1, <1>2 DEF Fits, ClientInv, ClientTypeOK
  <2>2. CASE i # j
    <3>1. at[i] = pc[i] /\ attempt'[i] = attempt[i]
      BY <2>2 DEF ClientInv, ClientTypeOK
    <3> QED BY <3>1, <1>2 DEF ClientInv, AttemptInv
  <2> QED BY <2>1, <2>2
<1> QED BY <1>2, <1>3 DEF AttemptInv

(* The callbacks of one job.                                               *)
LEMMA AnswerKeeps ==
  ASSUME ClientInv, NEW j \in Jobs, Answer(j) \/ Disconnect(j)
  PROVE  ClientInv'
<1> USE DEF ClientInv
<1>1. CASE Validate(j) /\ MoveTo(j, AfterRead(j))
  <2>1. Fits(j, AfterRead(j)) /\ attempt' \in [Jobs -> 0..MaxRetries]
    BY <1>1 DEF Validate, Validating, Fits, AfterRead, Points, InFlight, Outcomes,
                ClientTypeOK
  <2>2. \A i \in Jobs \ {j} : attempt'[i] = attempt[i]
    BY <1>1 DEF Validate, ClientTypeOK
  <2>3. pc' \in [Jobs -> Points] /\ AttemptInv'
    BY <1>1, <2>1, <2>2, MoveToKeeps
  <2> QED BY <1>1, <2>1, <2>3, QueueStepKeeps DEF Validate, chainVars, ClientTypeOK
<1>2. CASE Send(j) /\ MoveTo(j, "wait")
  <2>1. Fits(j, "wait") /\ attempt[j] \in 1..MaxRetries
    BY <1>2 DEF Send, Fits, AttemptInv, Points, InFlight
  <2>2. attempt' \in [Jobs -> 0..MaxRetries] /\ UNCHANGED attempt
    BY <1>2 DEF Send, ClientTypeOK
  <2>3. pc' \in [Jobs -> Points] /\ AttemptInv'
    BY <1>2, <2>1, <2>2, MoveToKeeps
  <2> QED BY <1>2, <2>1, <2>2, <2>3, QueueStepKeeps DEF Send, ClientTypeOK
<1>3. CASE (SendFails(j) \/ WaitFails(j)) /\ MoveTo(j, AfterError(j))
  <2>1. attempt[j] \in 1..MaxRetries /\ UNCHANGED attempt
    BY <1>3 DEF SendFails, WaitFails, AttemptInv
  <2>2. Fits(j, AfterError(j))
    BY <2>1 DEF AfterError, Fits, Points, InFlight, Outcomes, Failed
  <2>3. attempt' \in [Jobs -> 0..MaxRetries]
    BY <2>1 DEF ClientTypeOK
  <2>4. pc' \in [Jobs -> Points] /\ AttemptInv'
    BY <1>3, <2>1, <2>2, <2>3, MoveToKeeps
  <2>5. /\ \/ UNCHANGED mempool
           \/ Broadcast(j)
        /\ receipts' \in [Jobs -> {"none", "settled", "reverted"}]
        /\ UNCHANGED <<limitVars, usedNonces, trades>>
    BY <1>3 DEF SendFails, WaitFails, ClientTypeOK
  <2> QED BY <2>1, <2>3, <2>4, <2>5, QueueStepKeeps
<1>4. CASE WaitReturns(j) /\ MoveTo(j, AfterReceipt(j))
  <2>1. Fits(j, AfterReceipt(j))
    BY DEF AfterReceipt, Fits, Points, Outcomes, Failed
  <2>2. attempt' \in [Jobs -> 0..MaxRetries] /\ UNCHANGED attempt
    BY <1>4 DEF WaitReturns, ClientTypeOK
  <2>3. pc' \in [Jobs -> Points] /\ AttemptInv'
    BY <1>4, <2>1, <2>2, MoveToKeeps
  <2> QED BY <1>4, <2>2, <2>3, QueueStepKeeps DEF WaitReturns, ClientTypeOK
<1>5. CASE Wake(j) /\ MoveTo(j, "send")
  <2>1. attempt[j] \in 1..(MaxRetries - 1)
    BY <1>5 DEF Wake, AttemptInv
  <2>2. Fits(j, "send") /\ attempt' \in [Jobs -> 0..MaxRetries]
    BY <1>5, <2>1 DEF Wake, Fits, Points, InFlight, ClientTypeOK
  <2>3. \A i \in Jobs \ {j} : attempt'[i] = attempt[i]
    BY <1>5 DEF Wake, ClientTypeOK
  <2>4. pc' \in [Jobs -> Points] /\ AttemptInv'
    BY <1>5, <2>2, <2>3, MoveToKeeps
  <2> QED BY <1>5, <2>2, <2>4, QueueStepKeeps DEF Wake, chainVars, ClientTypeOK
<1> QED BY <1>1, <1>2, <1>3, <1>4, <1>5 DEF Answer, Disconnect

(* The steps of the queue and the service that no job's callback makes.    *)
LEMMA QueueKeeps ==
  ASSUME ClientInv,
         \/ \E j \in Jobs : Enqueue(j) \/ ReadRejected(j)
         \/ Stop \/ Resume \/ CloseInput \/ Exit
  PROVE  ClientInv'
<1> USE DEF ClientInv
<1>1. UNCHANGED <<attempt, chainVars>>
  BY DEF Enqueue, ReadRejected, Stop, Resume, CloseInput, Exit
<1>2. /\ pc' \in [Jobs -> Points]
      /\ \A i \in Jobs : \/ pc'[i] = pc[i]
                         \/ pc'[i] \in {"dropped", "queued", "lost", "expired", "readNonce"}
  <2>1. ASSUME NEW j \in Jobs, Enqueue(j) PROVE <1>2
    <3> DEFINE at == [pc EXCEPT ![j] = "queued"]
    <3>1. at \in [Jobs -> Points]
      BY DEF ClientTypeOK, Points
    <3>2. CASE stopped
      BY <2>1, <3>2 DEF Enqueue, ClientTypeOK, Points
    <3>3. CASE ~stopped
      <4>1. Drain(Append(queue, j), running, FALSE, at)
        BY <2>1, <3>3 DEF Enqueue
      <4>2. /\ pc' \in [Jobs -> Points]
            /\ \A i \in Jobs : pc'[i] = at[i] \/ pc'[i] \in {"expired", "readNonce"}
        BY <3>1, <4>1, DrainKeeps
      <4> QED BY <4>2 DEF ClientTypeOK
    <3> QED BY <3>2, <3>3
  <2>2. ASSUME NEW j \in Jobs, ReadRejected(j) PROVE <1>2
    BY <2>2 DEF ReadRejected, ClientTypeOK, Points
  <2>3. CASE Resume
    <3>1. Drain(queue, running, FALSE, pc) /\ pc \in [Jobs -> Points]
      BY <2>3 DEF Resume, ClientTypeOK
    <3> QED BY <3>1, DrainKeeps
  <2>4. CASE Stop \/ CloseInput \/ Exit
    BY <2>4 DEF Stop, CloseInput, Exit, ClientTypeOK
  <2> QED BY <2>1, <2>2, <2>3, <2>4
<1>3. AttemptInv'
  BY <1>1, <1>2 DEF AttemptInv
<1> QED BY <1>1, <1>2, <1>3, QueueStepKeeps DEF chainVars, ClientTypeOK

-----------------------------------------------------------------------------
(* The chain.                                                              *)

(* Settle marks a key that no settled trade has.                           *)
LEMMA SettleKeeps ==
  ASSUME ClientInv, NEW k \in Keys, NEW by \in Jobs \cup {Other}, Settle(k, by)
  PROVE  /\ usedNonces' \subseteq Keys
         /\ trades' \in Seq([key : Keys, by : Jobs \cup {Other}])
         /\ MarkInv'
<1> DEFINE n == Len(trades)
           Trade == [key : Keys, by : Jobs \cup {Other}]
<1>1. /\ trades \in Seq(Trade)
      /\ [key |-> k, by |-> by] \in Trade
      /\ trades' = Append(trades, [key |-> k, by |-> by])
  BY DEF ClientInv, ClientTypeOK, Settle
<1> HIDE DEF Trade
<1>2. /\ trades' \in Seq(Trade)
      /\ n \in Nat
      /\ Len(trades') = n + 1
      /\ \A a \in 1..n : trades'[a] = trades[a]
      /\ trades'[n + 1] = [key |-> k, by |-> by]
  BY <1>1
<1>3. usedNonces' = usedNonces \cup {k} /\ k \notin usedNonces
  BY DEF Settle, Executable
<1>4. usedNonces' = {trades'[a].key : a \in 1..Len(trades')}
  BY <1>2, <1>3 DEF ClientInv, MarkInv
<1>5. \A a \in 1..n : trades'[a].key # k
  BY <1>2, <1>3 DEF ClientInv, MarkInv
<1>6. \A a \in 1..(n + 1) : a = n + 1 \/ a \in 1..n
  BY <1>2
<1>7. SettledOnce'
  <2> SUFFICES ASSUME NEW a \in 1..(n + 1), NEW b \in 1..(n + 1),
                      trades'[a].key = trades'[b].key
               PROVE  a = b
    BY <1>2 DEF SettledOnce
  <2>1. CASE a \in 1..n /\ b \in 1..n
    BY <2>1, <1>2 DEF ClientInv, MarkInv, SettledOnce
  <2>2. CASE a = n + 1 \/ b = n + 1
    BY <2>2, <1>2, <1>5, <1>6
  <2> QED BY <2>1, <2>2, <1>6
<1>8. usedNonces' \subseteq Keys
  BY <1>3 DEF ClientInv, ClientTypeOK
<1> QED BY <1>2, <1>4, <1>7, <1>8 DEF MarkInv, Trade

(* A step of the chain.                                                    *)
LEMMA ChainKeeps ==
  ASSUME ClientInv, ChainStep
  PROVE  ClientInv'
<1> USE DEF ClientInv
<1>1. AttemptInv'
  BY DEF ChainStep, Mine, Interfere, AttemptInv
<1>2. CASE Mine
  <2> DEFINE tx == Head(mempool)
  <2>1. tx \in Txs /\ mempool' \in Seq(Txs)
    BY <1>2 DEF Mine, ClientTypeOK
  <2>2. tx.job \in Jobs /\ KeyOf[tx.job] \in Keys
    BY <2>1 DEF Txs
  <2>3. /\ usedNonces' \subseteq Keys
        /\ trades' \in Seq([key : Keys, by : Jobs \cup {Other}])
        /\ MarkInv'
    <3>1. CASE Settle(KeyOf[tx.job], tx.job)
      BY <2>2, <3>1, SettleKeeps
    <3>2. CASE UNCHANGED <<usedNonces, trades>>
      BY <3>2 DEF ClientTypeOK, MarkInv, SettledOnce
    <3> QED BY <1>2, <3>1, <3>2 DEF Mine
  <2>4. receipts' \in [Jobs -> {"none", "settled", "reverted"}]
    BY <1>2, <2>2 DEF Mine, Receive, ClientTypeOK
  <2> QED BY <1>1, <1>2, <2>1, <2>3, <2>4 DEF Mine, limitVars, ClientTypeOK
<1>3. CASE Interfere
  <2>1. events' \in 0..MaxEvents
    BY <1>3 DEF Interfere, ClientTypeOK
  <2>2. CASE OwnerOrClock
    <3>1. expired' \subseteq Keys /\ teeActive' \in BOOLEAN /\ pairOpen' \in BOOLEAN
      BY <2>2, Zenon DEF OwnerOrClock, ClientTypeOK
    <3>2. UNCHANGED <<usedNonces, mempool, receipts, trades, attempt, pc>>
      BY <1>3, <2>2 DEF OwnerOrClock, Interfere
    <3> QED BY <1>1, <2>1, <3>1, <3>2 DEF ClientTypeOK, MarkInv, SettledOnce
  <2>3. ASSUME NEW k \in Keys, OtherSettles(k)
        PROVE  ClientInv'
    <3>1. /\ usedNonces' \subseteq Keys
          /\ trades' \in Seq([key : Keys, by : Jobs \cup {Other}])
          /\ MarkInv'
      BY <2>3, SettleKeeps DEF OtherSettles
    <3> QED BY <1>1, <1>3, <2>1, <2>3, <3>1 DEF OtherSettles, Interfere, ClientTypeOK
  <2> QED BY <1>3, <2>2, <2>3 DEF Interfere
<1> QED BY <1>2, <1>3 DEF ChainStep

-----------------------------------------------------------------------------
(* The client keeps its types and its count of attempts, and the vault's   *)
(* marks are the keys of the settled trades.                               *)
THEOREM ClientInvariance == Spec => []ClientInv
<1>1. ASSUME ClientInv, [Next]_vars
      PROVE  ClientInv'
  <2>1. CASE UNCHANGED vars
    BY <1>1, <2>1 DEF vars, chainVars, limitVars, ClientInv, ClientTypeOK, AttemptInv,
                      MarkInv, SettledOnce
  <2>2. CASE \E j \in Jobs : Answer(j) \/ Disconnect(j)
    BY <1>1, <2>2, AnswerKeeps
  <2>3. CASE \/ \E j \in Jobs : Enqueue(j) \/ ReadRejected(j)
             \/ Stop \/ Resume \/ CloseInput \/ Exit
    BY <1>1, <2>3, QueueKeeps
  <2>4. CASE ChainStep
    BY <1>1, <2>4, ChainKeeps
  <2> QED BY <1>1, <2>1, <2>2, <2>3, <2>4 DEF Next
<1> QED BY <1>1, ClientInvInit, PTL DEF Spec

-----------------------------------------------------------------------------
(* The queue.                                                              *)

USE QueueAssumption

-----------------------------------------------------------------------------
(* The inductive invariant of the queue.                                   *)

At(at, points) == {j \in Jobs : at[j] \in points}

(* The jobs of q, none twice, are those that wait.                         *)
Waits(q, at) ==
  /\ q \in Seq(Jobs)
  /\ \A a, b \in 1..Len(q) : q[a] = q[b] => a = b
  /\ \A j \in Jobs : at[j] = "queued" <=> \E a \in 1..Len(q) : q[a] = j

(* n counts the jobs at the given points.                                  *)
Counts(n, at, points) ==
  IsFiniteSet(At(at, points)) /\ n = Cardinality(At(at, points))

SlotsInv ==
  /\ Waits(queue, pc)
  /\ running \in 0..Concurrency
  /\ Live => Counts(running, pc, InFlight)
  /\ Live /\ ~stopped => queue = <<>> \/ running = Concurrency

StatsInv ==
  /\ stats \in [pending : Nat, submitted : Nat, failed : Nat]
  /\ stats.pending = Len(queue)
  /\ Counts(stats.submitted, pc, {"submitted"})
  /\ Counts(stats.failed, pc, Failed)

FlagsInv ==
  /\ stopped \in BOOLEAN
  /\ service \in {"open", "closing", "done", "exited"}
  /\ accepted \in Seq(Jobs)

QueueInv == SlotsInv /\ StatsInv /\ FlagsInv

-----------------------------------------------------------------------------
(* Counting jobs.                                                          *)

(* The jobs of a sequence without repetition are as many as its length.    *)
LEMMA CountFirsts ==
  ASSUME NEW q \in Seq(Jobs), \A a, b \in 1..Len(q) : q[a] = q[b] => a = b,
         NEW n \in 0..Len(q)
  PROVE  IsFiniteSet(Firsts(q, n)) /\ Cardinality(Firsts(q, n)) = n
<1> DEFINE f == [i \in 1..n |-> q[i]]
<1>1. \A i \in 1..n : i \in 1..Len(q)
  OBVIOUS
<1>2. f \in Bijection(1..n, Firsts(q, n))
  BY <1>1 DEF Firsts, Bijection, Injection, Surjection, IsInjective
<1>3. ExistsBijection(1..n, Firsts(q, n))
  BY <1>2 DEF ExistsBijection
<1>4. IsFiniteSet(1..n) /\ Cardinality(1..n) = n
  BY FS_Interval
<1> QED BY <1>3, <1>4, FS_Bijection

(* Moving one job from outside the points to one of them adds one,         *)
LEMMA CountIn ==
  ASSUME NEW at \in [Jobs -> Points], NEW points, NEW n, Counts(n, at, points),
         NEW j \in Jobs, at[j] \notin points, NEW p \in points
  PROVE  Counts(n + 1, [at EXCEPT ![j] = p], points)
<1>1. At([at EXCEPT ![j] = p], points) = At(at, points) \cup {j}
  BY DEF At
<1>2. j \notin At(at, points)
  BY DEF At
<1> QED BY <1>1, <1>2, FS_AddElement DEF Counts

(* out of them takes one,                                                  *)
LEMMA CountOut ==
  ASSUME NEW at \in [Jobs -> Points], NEW points, NEW n, Counts(n, at, points),
         NEW j \in Jobs, at[j] \in points, NEW p, p \notin points
  PROVE  Counts(n - 1, [at EXCEPT ![j] = p], points)
<1>1. At([at EXCEPT ![j] = p], points) = At(at, points) \ {j}
  BY DEF At
<1>2. j \in At(at, points)
  BY DEF At
<1> QED BY <1>1, <1>2, FS_RemoveElement DEF Counts

(* and neither changes nothing.                                            *)
LEMMA CountSame ==
  ASSUME NEW at \in [Jobs -> Points], NEW points, NEW n, Counts(n, at, points),
         NEW j \in Jobs, NEW p, at[j] \in points <=> p \in points
  PROVE  Counts(n, [at EXCEPT ![j] = p], points)
<1>1. At([at EXCEPT ![j] = p], points) = At(at, points)
  BY DEF At
<1> QED BY <1>1 DEF Counts

(* A count of jobs is a natural number, positive if there is one.          *)
LEMMA CountNat ==
  ASSUME NEW n, NEW at, NEW points, Counts(n, at, points)
  PROVE  n \in Nat /\ \A j \in Jobs : at[j] \in points => n > 0
<1>1. n \in Nat
  BY FS_CardinalityType DEF Counts
<1>2. ASSUME NEW j \in Jobs, at[j] \in points PROVE n > 0
  BY <1>1, <1>2, FS_EmptySet DEF Counts, At
<1> QED BY <1>1, <1>2

-----------------------------------------------------------------------------
(* _drain fills the slots: afterwards the counts are right again, and      *)
(* unless the queue is stopped no slot is idle beside a waiting job.       *)
LEMMA DrainFills ==
  ASSUME NEW q, NEW busy \in 0..Concurrency, NEW isStopped \in BOOLEAN,
         NEW at \in [Jobs -> Points], Waits(q, at), Counts(busy, at, InFlight),
         Drain(q, busy, isStopped, at)
  PROVE  /\ Waits(queue', pc')
         /\ running' \in 0..Concurrency
         /\ Counts(running', pc', InFlight)
         /\ ~isStopped => queue' = <<>> \/ running' = Concurrency
         /\ Len(queue') = Len(q) - (running' - busy)
         /\ \A points : points \cap (InFlight \cup {"queued"}) = {}
              => At(pc', points) = At(at, points)
<1> DEFINE n == Slots(q, busy, isStopped)
<1>1. /\ q \in Seq(Jobs)
      /\ Len(q) \in Nat
      /\ \A a, b \in 1..Len(q) : q[a] = q[b] => a = b
      /\ \A j \in Jobs : at[j] = "queued" <=> \E a \in 1..Len(q) : q[a] = j
  BY DEF Waits
<1>2. /\ n \in 0..Len(q)
      /\ busy + n \in 0..Concurrency
      /\ ~isStopped => n = Len(q) \/ busy + n = Concurrency
  BY <1>1 DEF Slots, Min2
<1>3. /\ queue' = SubSeq(q, n + 1, Len(q))
      /\ running' = busy + n
      /\ pc' = [i \in Jobs |-> IF i \in Firsts(q, n) THEN Begin(i) ELSE at[i]]
  BY DEF Drain
<1> HIDE DEF n
<1>4. /\ queue' \in Seq(Jobs)
      /\ Len(queue') = Len(q) - n
      /\ \A a \in 1..(Len(q) - n) : queue'[a] = q[a + n]
  BY <1>1, <1>2, <1>3
<1>5. \A j \in Jobs : Begin(j) \in InFlight /\ Begin(j) # "queued"
  BY DEF Begin, InFlight
<1>6. Firsts(q, n) \subseteq Jobs
  BY <1>1, <1>2 DEF Firsts
<1>7. \A j \in Firsts(q, n) : at[j] = "queued"
  <2> SUFFICES ASSUME NEW i \in 1..n PROVE at[q[i]] = "queued"
    BY DEF Firsts
  <2>1. i \in 1..Len(q) /\ q[i] \in Jobs
    BY <1>1, <1>2
  <2> QED BY <1>1, <2>1
<1>8. Waits(queue', pc')
  <2>1. ASSUME NEW a \in 1..Len(queue'), NEW b \in 1..Len(queue'), queue'[a] = queue'[b]
        PROVE  a = b
    <3>1. a + n \in 1..Len(q) /\ b + n \in 1..Len(q) /\ q[a + n] = q[b + n]
      BY <1>1, <1>2, <1>4, <2>1
    <3>2. a + n = b + n
      BY <1>1, <3>1
    <3> QED BY <1>2, <1>4, <3>2
  <2>2. ASSUME NEW j \in Jobs, NEW a \in 1..Len(queue'), queue'[a] = j
        PROVE  pc'[j] = "queued"
    <3>1. a + n \in 1..Len(q) /\ q[a + n] = j
      BY <1>1, <1>2, <1>4, <2>2
    <3>2. ASSUME NEW i \in 1..n, q[i] = j PROVE FALSE
      <4>1. i \in 1..Len(q)
        BY <1>1, <1>2
      <4>2. a + n = i
        BY <1>1, <3>1, <3>2, <4>1
      <4> QED BY <1>2, <1>4, <4>2
    <3>3. j \notin Firsts(q, n)
      BY <3>2 DEF Firsts
    <3> QED BY <1>1, <1>3, <3>1, <3>3
  <2>3. ASSUME NEW j \in Jobs, pc'[j] = "queued"
        PROVE  \E a \in 1..Len(queue') : queue'[a] = j
    <3>1. j \notin Firsts(q, n) /\ at[j] = "queued"
      BY <1>3, <1>5, <2>3
    <3>2. PICK b \in 1..Len(q) : q[b] = j
      BY <1>1, <3>1
    <3>3. b \notin 1..n
      BY <3>1, <3>2 DEF Firsts
    <3>4. b - n \in 1..Len(queue') /\ queue'[b - n] = j
      BY <1>1, <1>2, <1>4, <3>2, <3>3
    <3> QED BY <3>4
  <2> QED BY <1>4, <2>1, <2>2, <2>3 DEF Waits
<1>9. Counts(running', pc', InFlight)
  <2>1. At(pc', InFlight) = At(at, InFlight) \cup Firsts(q, n)
    BY <1>3, <1>5, <1>6 DEF At
  <2>2. At(at, InFlight) \cap Firsts(q, n) = {}
    BY <1>7 DEF At, InFlight
  <2>3. IsFiniteSet(Firsts(q, n)) /\ Cardinality(Firsts(q, n)) = n
    BY <1>1, <1>2, CountFirsts
  <2>4. /\ IsFiniteSet(At(pc', InFlight))
        /\ Cardinality(At(pc', InFlight)) = busy + n - 0
    BY <2>1, <2>2, <2>3, FS_Union, FS_EmptySet DEF Counts
  <2> QED BY <1>2, <1>3, <2>4 DEF Counts
<1>10. ASSUME NEW points, points \cap (InFlight \cup {"queued"}) = {}
       PROVE  At(pc', points) = At(at, points)
  BY <1>3, <1>5, <1>7, <1>10 DEF At
<1>11. ~isStopped => queue' = <<>> \/ running' = Concurrency
  BY <1>1, <1>2, <1>3, <1>4
<1>12. Len(queue') = Len(q) - (running' - busy)
  BY <1>1, <1>2, <1>3, <1>4
<1> QED BY <1>2, <1>3, <1>8, <1>9, <1>10, <1>11, <1>12

-----------------------------------------------------------------------------
(* One lemma per action.                                                   *)

(* Initially no job waits and none has begun.                              *)
LEMMA QueueInvInit == Init => QueueInv
<1> SUFFICES ASSUME Init PROVE QueueInv
  OBVIOUS
<1>1. At(pc, InFlight) = {} /\ At(pc, {"submitted"}) = {} /\ At(pc, Failed) = {}
  BY DEF Init, ClientInit, At, InFlight, Failed
<1>2. queue = <<>> /\ \A j \in Jobs : pc[j] # "queued"
  BY DEF Init, ClientInit
<1>3. SlotsInv
  BY <1>1, <1>2, FS_EmptySet DEF Init, SlotsInv, Waits, Counts
<1>4. StatsInv
  BY <1>1, <1>2, FS_EmptySet DEF Init, StatsInv, Counts
<1>5. FlagsInv
  <2>1. stopped = FALSE /\ service = "open" /\ accepted = <<>>
    BY DEF Init
  <2>2. stopped \in BOOLEAN /\ service \in {"open", "closing", "done", "exited"}
    BY <2>1, Zenon
  <2>3. accepted \in Seq(Jobs)
    BY <2>1
  <2> QED BY <2>2, <2>3, Zenon DEF FlagsInv
<1> QED BY <1>3, <1>4, <1>5 DEF QueueInv

(* A job in flight goes on to another await.                               *)
LEMMA ContinueKeepsCounts ==
  ASSUME ClientInv, QueueInv, Live, NEW j \in Jobs, pc[j] \in InFlight,
         NEW next \in InFlight, Continue(j, next),
         UNCHANGED <<stopped, service, accepted>>
  PROVE  QueueInv'
<1> USE DEF QueueInv
<1>1. pc \in [Jobs -> Points] /\ pc' = [pc EXCEPT ![j] = next]
  BY DEF Continue, ClientInv, ClientTypeOK
<1>2. UNCHANGED <<queue, running, stats>>
  BY DEF Continue
<1>3. Waits(queue', pc')
  <2>1. pc[j] # "queued" /\ next # "queued"
    BY DEF InFlight
  <2>2. \A i \in Jobs : pc'[i] = "queued" <=> pc[i] = "queued"
    BY <1>1, <2>1
  <2> QED BY <1>2, <2>2 DEF SlotsInv, Waits
<1>4. Counts(running', pc', InFlight)
  BY <1>1, <1>2, CountSame DEF SlotsInv
<1>5. Counts(stats.submitted, pc', {"submitted"}) /\ Counts(stats.failed, pc', Failed)
  <2>1. \A p \in {pc[j], next} : p \notin {"submitted"} /\ p \notin Failed
    BY DEF InFlight, Failed
  <2> QED BY <1>1, <2>1, CountSame DEF StatsInv
<1>6. SlotsInv'
  BY <1>2, <1>3, <1>4 DEF SlotsInv, Live
<1> QED BY <1>2, <1>5, <1>6 DEF StatsInv, FlagsInv

(* A job in flight ends: its outcome is counted and the queue drained.     *)
LEMMA FinishKeepsCounts ==
  ASSUME ClientInv, QueueInv, Live, NEW j \in Jobs, pc[j] \in InFlight,
         NEW outcome, Finish(j, outcome),
         UNCHANGED <<stopped, service, accepted>>
  PROVE  QueueInv'
<1> USE DEF QueueInv
<1> DEFINE at == [pc EXCEPT ![j] = outcome]
           one(outcomes) == IF outcome \in outcomes THEN 1 ELSE 0
<1>1. /\ pc \in [Jobs -> Points]
      /\ outcome \in Outcomes
      /\ at \in [Jobs -> Points]
      /\ Drain(queue, running - 1, stopped, at)
      /\ stats' = Count(outcome)
  BY DEF Finish, ClientInv, ClientTypeOK, Points
<1>2. outcome \notin InFlight /\ outcome # "queued" /\ pc[j] # "queued"
  BY <1>1 DEF Outcomes, Failed, InFlight
<1>3. Waits(queue, at)
  <2>1. \A i \in Jobs : at[i] = "queued" <=> pc[i] = "queued"
    BY <1>1, <1>2
  <2> QED BY <2>1 DEF SlotsInv, Waits
<1>4. Counts(running - 1, at, InFlight) /\ running - 1 \in 0..Concurrency
  <2>1. Counts(running, pc, InFlight) /\ running \in 0..Concurrency
    BY DEF SlotsInv
  <2>2. running > 0
    BY <2>1, CountNat
  <2>3. Counts(running - 1, at, InFlight)
    BY <1>1, <1>2, <2>1, CountOut
  <2> QED BY <2>1, <2>2, <2>3
<1> HIDE DEF at
<1>5. /\ Waits(queue', pc')
      /\ running' \in 0..Concurrency
      /\ Counts(running', pc', InFlight)
      /\ ~stopped => queue' = <<>> \/ running' = Concurrency
      /\ Len(queue') = Len(queue) - (running' - (running - 1))
      /\ \A points : points \cap (InFlight \cup {"queued"}) = {}
           => At(pc', points) = At(at, points)
  <2> DEFINE busy == running - 1
  <2>1. /\ busy \in 0..Concurrency
        /\ Counts(busy, at, InFlight)
        /\ Drain(queue, busy, stopped, at)
    BY <1>1, <1>4
  <2>2. stopped \in BOOLEAN
    BY DEF FlagsInv
  <2> HIDE DEF busy, QueueInv
  <2> SUFFICES /\ Waits(queue', pc')
               /\ running' \in 0..Concurrency
               /\ Counts(running', pc', InFlight)
               /\ ~stopped => queue' = <<>> \/ running' = Concurrency
               /\ Len(queue') = Len(queue) - (running' - busy)
               /\ \A points : points \cap (InFlight \cup {"queued"}) = {}
                    => At(pc', points) = At(at, points)
    BY DEF busy
  <2> QED BY <1>1, <1>3, <2>1, <2>2, DrainFills
<1> USE DEF at
<1>6. SlotsInv'
  BY <1>5 DEF SlotsInv
<1>7. ASSUME NEW n, NEW outcomes, outcomes \in {{"submitted"}, Failed},
             Counts(n, pc, outcomes)
      PROVE  Counts(n + one(outcomes), pc', outcomes)
  <2>1. pc[j] \notin outcomes /\ outcomes \cap (InFlight \cup {"queued"}) = {}
    BY <1>7 DEF InFlight, Failed
  <2>2. Counts(n + one(outcomes), at, outcomes)
    <3>1. CASE outcome \in outcomes
      BY <1>1, <1>7, <2>1, <3>1, CountIn
    <3>2. CASE outcome \notin outcomes
      <4>1. n \in Nat
        BY <1>7, CountNat
      <4>2. Counts(n, at, outcomes)
        BY <1>1, <1>7, <2>1, <3>2, CountSame
      <4> QED BY <3>2, <4>1, <4>2
    <3> QED BY <3>1, <3>2
  <2>3. At(pc', outcomes) = At(at, outcomes)
    BY <1>5, <2>1
  <2> QED BY <2>2, <2>3 DEF Counts
<1>8. /\ Counts(stats.submitted + one({"submitted"}), pc', {"submitted"})
      /\ Counts(stats.failed + one(Failed), pc', Failed)
  BY <1>7 DEF StatsInv
<1>9. Len(queue') \in Nat
  BY <1>5 DEF Waits
<1>10. stats.pending = Len(queue) /\ stats \in [pending : Nat, submitted : Nat, failed : Nat]
  BY DEF StatsInv
<1>11. /\ stats'.pending = Len(queue')
       /\ stats'.submitted = stats.submitted + one({"submitted"})
       /\ stats'.failed = stats.failed + one(Failed)
       /\ stats' \in [pending : Nat, submitted : Nat, failed : Nat]
  <2>1. running \in Nat /\ running' \in Nat
    BY <1>5 DEF SlotsInv
  <2>2. stats' = [stats EXCEPT !.pending = @ - (running' - (running - 1)),
                               !.submitted = @ + one({"submitted"}),
                               !.failed = @ + one(Failed)]
    BY <1>1 DEF Count
  <2>3. one({"submitted"}) \in Nat /\ one(Failed) \in Nat
    OBVIOUS
  <2> HIDE DEF one, QueueInv
  <2>4. /\ stats'.pending = stats.pending - (running' - (running - 1))
        /\ stats'.submitted = stats.submitted + one({"submitted"})
        /\ stats'.failed = stats.failed + one(Failed)
    BY <1>10, <2>2
  <2>5. stats'.pending = Len(queue')
    BY <1>5, <1>10, <2>4
  <2>6. stats' = [pending |-> stats'.pending, submitted |-> stats'.submitted,
                  failed |-> stats'.failed]
    BY <1>10, <2>2
  <2>7. stats'.submitted \in Nat /\ stats'.failed \in Nat
    BY <1>10, <2>3, <2>4
  <2> QED BY <1>9, <2>4, <2>5, <2>6, <2>7
<1> HIDE DEF one
<1>12. StatsInv'
  BY <1>8, <1>11 DEF StatsInv
<1> QED BY <1>6, <1>12 DEF FlagsInv

(* The callbacks of one job.                                               *)
LEMMA AnswerKeepsCounts ==
  ASSUME ClientInv, QueueInv, NEW j \in Jobs, Answer(j) \/ Disconnect(j)
  PROVE  QueueInv'
<1>1. PICK next \in InFlight \cup Outcomes : MoveTo(j, next) /\ pc[j] \in InFlight
  <2>1. CASE Validate(j) /\ MoveTo(j, AfterRead(j))
    BY <2>1 DEF Validate, Validating, AfterRead, InFlight, Outcomes
  <2>2. CASE Send(j) /\ MoveTo(j, "wait")
    BY <2>2 DEF Send, InFlight
  <2>3. CASE (SendFails(j) \/ WaitFails(j)) /\ MoveTo(j, AfterError(j))
    BY <2>3 DEF SendFails, WaitFails, AfterError, InFlight, Outcomes, Failed
  <2>4. CASE WaitReturns(j) /\ MoveTo(j, AfterReceipt(j))
    BY <2>4 DEF WaitReturns, AfterReceipt, InFlight, Outcomes, Failed
  <2>5. CASE Wake(j) /\ MoveTo(j, "send")
    BY <2>5 DEF Wake, InFlight
  <2> QED BY <2>1, <2>2, <2>3, <2>4, <2>5 DEF Answer, Disconnect
<1>2. CASE Continue(j, next)
  <2>1. next \in InFlight
    BY <1>1, <1>2 DEF Continue
  <2> QED BY <1>1, <1>2, <2>1, ContinueKeepsCounts DEF MoveTo
<1>3. CASE Finish(j, next)
  BY <1>1, <1>3, FinishKeepsCounts DEF MoveTo
<1> QED BY <1>1, <1>2, <1>3 DEF MoveTo

(* A job that joins the queue waits there behind the others.               *)
LEMMA AppendedWaits ==
  ASSUME NEW j \in Jobs, NEW q \in Seq(Jobs), NEW at \in [Jobs -> Points], Waits(q, at),
         at[j] # "queued"
  PROVE  Waits(Append(q, j), [at EXCEPT ![j] = "queued"])
<1> DEFINE now == [at EXCEPT ![j] = "queued"]
<1>1. PICK r : r = Append(q, j)
  OBVIOUS
<1>2. /\ r \in Seq(Jobs)
      /\ Len(q) \in Nat /\ Len(r) = Len(q) + 1
      /\ \A a \in 1..Len(q) : r[a] = q[a]
      /\ r[Len(q) + 1] = j
  BY <1>1
<1>3. /\ now[j] = "queued" /\ \A i \in Jobs \ {j} : now[i] = at[i]
  BY DEF Points
<1>4. \A a \in 1..Len(q) : q[a] # j
  BY DEF Waits
<1>5. \A a \in 1..Len(r) : a \in 1..Len(q) \/ a = Len(q) + 1
  BY <1>2
<1>6. \A a \in 1..Len(q) : a \in 1..Len(r)
  BY <1>2
<1>7. ASSUME NEW a \in 1..Len(r), NEW b \in 1..Len(r), r[a] = r[b]
      PROVE  a = b
  <2>1. CASE a \in 1..Len(q) /\ b \in 1..Len(q)
    BY <1>2, <1>7, <2>1 DEF Waits
  <2>2. CASE a = Len(q) + 1 \/ b = Len(q) + 1
    BY <1>2, <1>4, <1>5, <1>7, <2>2
  <2> QED BY <1>5, <2>1, <2>2
<1>8. ASSUME NEW i \in Jobs
      PROVE  now[i] = "queued" <=> \E a \in 1..Len(r) : r[a] = i
  <2>1. CASE i = j
    BY <1>2, <1>3, <2>1
  <2>2. CASE i # j
    <3>1. at[i] = "queued" <=> \E a \in 1..Len(q) : q[a] = i
      BY DEF Waits
    <3>2. (\E a \in 1..Len(q) : q[a] = i) <=> \E a \in 1..Len(r) : r[a] = i
      BY <1>2, <1>5, <1>6, <2>2
    <3> QED BY <1>3, <2>2, <3>1, <3>2
  <2> QED BY <2>1, <2>2
<1> HIDE DEF now
<1>9. Waits(r, now)
  BY <1>2, <1>7, <1>8 DEF Waits
<1> QED BY <1>1, <1>9 DEF now

(* A trade is offered, and taken up at once if a slot is free.             *)
LEMMA EnqueueKeepsCounts ==
  ASSUME ClientInv, QueueInv, NEW j \in Jobs, Enqueue(j)
  PROVE  QueueInv'
<1> USE DEF QueueInv
<1>1. pc \in [Jobs -> Points] /\ pc[j] = "unread" /\ Live /\ UNCHANGED <<stopped, service>>
  BY DEF Enqueue, ClientInv, ClientTypeOK, Live
<1>2. pc[j] \notin InFlight /\ pc[j] \notin Failed /\ pc[j] \notin {"submitted"}
  BY <1>1 DEF InFlight, Failed
<1>3. CASE stopped
  <2>1. pc' = [pc EXCEPT ![j] = "dropped"] /\ UNCHANGED <<queue, running, stats, accepted>>
    BY <1>3 DEF Enqueue
  <2>2. Waits(queue', pc')
    BY <1>1, <2>1 DEF SlotsInv, Waits
  <2>3. "dropped" \notin InFlight /\ "dropped" \notin Failed
    BY DEF InFlight, Failed
  <2>4. Counts(running', pc', InFlight)
    BY <1>1, <1>2, <2>1, <2>3, CountSame DEF SlotsInv
  <2>5. Counts(stats.submitted, pc', {"submitted"}) /\ Counts(stats.failed, pc', Failed)
    BY <1>1, <1>2, <2>1, <2>3, CountSame DEF StatsInv
  <2>6. SlotsInv'
    BY <1>1, <1>3, <2>1, <2>2, <2>4 DEF SlotsInv
  <2> QED BY <1>1, <2>1, <2>5, <2>6 DEF StatsInv, FlagsInv
<1>4. CASE ~stopped
  <2> DEFINE at == [pc EXCEPT ![j] = "queued"]
             q == Append(queue, j)
  <2>1. /\ at \in [Jobs -> Points]
        /\ Drain(q, running, FALSE, at)
        /\ stats' = [stats EXCEPT !.pending = @ + 1 - (running' - running)]
        /\ accepted' = Append(accepted, j)
    BY <1>1, <1>4 DEF Enqueue, Points
  <2>2. queue \in Seq(Jobs) /\ Waits(queue, pc)
    BY DEF SlotsInv, Waits
  <2>3. Len(q) = Len(queue) + 1 /\ Len(queue) \in Nat
    BY <2>2
  <2>4. Waits(q, at)
    BY <1>1, <2>2, AppendedWaits
  <2>5. Counts(running, at, InFlight) /\ running \in 0..Concurrency
    <3>1. Counts(running, pc, InFlight) /\ running \in 0..Concurrency
      BY <1>1 DEF SlotsInv
    <3>2. "queued" \notin InFlight
      BY DEF InFlight
    <3> QED BY <1>1, <1>2, <3>1, <3>2, CountSame
  <2>6. Counts(stats.submitted, at, {"submitted"}) /\ Counts(stats.failed, at, Failed)
    <3>1. "queued" \notin {"submitted"} /\ "queued" \notin Failed
      BY DEF Failed
    <3> QED BY <1>1, <1>2, <3>1, CountSame DEF StatsInv
  <2>7. stats.pending = Len(queue) /\ stats \in [pending : Nat, submitted : Nat, failed : Nat]
    BY DEF StatsInv
  <2>8. FlagsInv'
    BY <1>1, <2>1 DEF FlagsInv
  <2> HIDE DEF at, q, QueueInv
  <2>9. /\ Waits(queue', pc')
        /\ running' \in 0..Concurrency
        /\ Counts(running', pc', InFlight)
        /\ queue' = <<>> \/ running' = Concurrency
        /\ Len(queue') = Len(q) - (running' - running)
        /\ \A points : points \cap (InFlight \cup {"queued"}) = {}
             => At(pc', points) = At(at, points)
    BY <2>1, <2>4, <2>5, DrainFills
  <2>10. SlotsInv'
    BY <2>9 DEF SlotsInv
  <2>11. Counts(stats.submitted, pc', {"submitted"}) /\ Counts(stats.failed, pc', Failed)
    <3>1. /\ At(pc', {"submitted"}) = At(at, {"submitted"})
          /\ At(pc', Failed) = At(at, Failed)
      BY <2>9 DEF InFlight, Failed
    <3> QED BY <2>6, <3>1 DEF Counts
  <2>12. /\ stats'.pending = stats.pending + 1 - (running' - running)
         /\ stats'.submitted = stats.submitted
         /\ stats'.failed = stats.failed
         /\ stats' = [pending |-> stats'.pending, submitted |-> stats.submitted,
                      failed |-> stats.failed]
    BY <2>1, <2>7
  <2>13. Len(queue') \in Nat
    BY <2>9 DEF Waits
  <2>14. stats'.pending = Len(queue')
    <3>1. running \in Nat /\ running' \in Nat
      BY <2>5, <2>9
    <3>2. stats'.pending = Len(queue) + 1 - (running' - running)
      BY <2>7, <2>12
    <3>3. Len(queue') = Len(queue) + 1 - (running' - running)
      BY <2>3, <2>9, <3>1
    <3> QED BY <3>2, <3>3
  <2>15. stats'.submitted = stats.submitted /\ stats'.failed = stats.failed
         /\ stats' \in [pending : Nat, submitted : Nat, failed : Nat]
    BY <2>7, <2>12, <2>13, <2>14
  <2>16. StatsInv'
    BY <2>11, <2>14, <2>15 DEF StatsInv
  <2> QED BY <2>8, <2>10, <2>16 DEF QueueInv
<1> QED BY <1>3, <1>4

(* resume takes up the jobs that waited.                                   *)
LEMMA ResumeKeepsCounts ==
  ASSUME ClientInv, QueueInv, Resume
  PROVE  QueueInv'
<1> USE DEF QueueInv
<1>1. /\ Live /\ UNCHANGED <<service, accepted>> /\ stopped' = FALSE
      /\ Drain(queue, running, FALSE, pc)
      /\ stats' = [stats EXCEPT !.pending = @ - (running' - running)]
      /\ pc \in [Jobs -> Points]
      /\ Waits(queue, pc)
      /\ Counts(running, pc, InFlight)
      /\ running \in 0..Concurrency
  BY DEF Resume, ClientInv, ClientTypeOK, SlotsInv
<1>2. /\ Waits(queue', pc')
      /\ running' \in 0..Concurrency
      /\ Counts(running', pc', InFlight)
      /\ queue' = <<>> \/ running' = Concurrency
      /\ Len(queue') = Len(queue) - (running' - running)
      /\ \A points : points \cap (InFlight \cup {"queued"}) = {}
           => At(pc', points) = At(pc, points)
  BY <1>1, DrainFills
<1>3. SlotsInv'
  BY <1>2 DEF SlotsInv
<1>4. Counts(stats.submitted, pc', {"submitted"}) /\ Counts(stats.failed, pc', Failed)
  <2>1. /\ At(pc', {"submitted"}) = At(pc, {"submitted"})
        /\ At(pc', Failed) = At(pc, Failed)
    BY <1>2 DEF InFlight, Failed
  <2> QED BY <2>1 DEF StatsInv, Counts
<1>5. Len(queue') \in Nat
  BY <1>2 DEF Waits
<1>6. stats.pending = Len(queue) /\ stats \in [pending : Nat, submitted : Nat, failed : Nat]
  BY DEF StatsInv
<1>7. /\ stats'.pending = Len(queue')
      /\ stats'.submitted = stats.submitted
      /\ stats'.failed = stats.failed
      /\ stats' \in [pending : Nat, submitted : Nat, failed : Nat]
  BY <1>1, <1>2, <1>5, <1>6
<1>8. StatsInv'
  BY <1>4, <1>7 DEF StatsInv
<1> QED BY <1>1, <1>3, <1>8 DEF FlagsInv

(* stop, the end of the process, and the chain move no job but the one     *)
(* that the process loses.                                                 *)
LEMMA OthersKeepCounts ==
  ASSUME ClientInv, QueueInv,
         \/ \E j \in Jobs : ReadRejected(j)
         \/ Stop \/ CloseInput \/ Exit
         \/ ChainStep /\ UNCHANGED queueVars
  PROVE  QueueInv'
<1> USE DEF QueueInv
<1>1. ASSUME NEW j \in Jobs, ReadRejected(j) PROVE QueueInv'
  <2>1. /\ pc \in [Jobs -> Points]
        /\ pc[j] \in {"readNonce", "readTEE", "readPair"}
        /\ pc' = [pc EXCEPT ![j] = "lost"]
        /\ ~Live'
        /\ UNCHANGED <<queue, running, stopped, stats, accepted>>
        /\ service' = "exited"
    BY <1>1 DEF ReadRejected, ClientInv, ClientTypeOK, Live
  <2>2. Waits(queue', pc')
    BY <2>1 DEF SlotsInv, Waits
  <2>3. Counts(stats.submitted, pc', {"submitted"}) /\ Counts(stats.failed, pc', Failed)
    <3>1. \A p \in {pc[j], "lost"} : p \notin {"submitted"} /\ p \notin Failed
      BY <2>1 DEF Failed
    <3> QED BY <2>1, <3>1, CountSame DEF StatsInv
  <2>4. SlotsInv'
    BY <2>1, <2>2 DEF SlotsInv
  <2> QED BY <2>1, <2>3, <2>4 DEF StatsInv, FlagsInv
<1>2. CASE Stop \/ CloseInput \/ Exit
  <2>1. /\ UNCHANGED <<pc, queue, running, stats, accepted>>
        /\ Live' => Live
        /\ stopped' \in BOOLEAN /\ (stopped => stopped')
        /\ service' \in {"open", "closing", "done", "exited"}
    BY <1>2 DEF Stop, CloseInput, Exit, Live, FlagsInv
  <2> QED BY <2>1 DEF SlotsInv, StatsInv, FlagsInv
<1>3. CASE ChainStep /\ UNCHANGED queueVars
  <2>1. UNCHANGED <<pc, queueVars>>
    BY <1>3 DEF ChainStep, Mine, Interfere
  <2> QED BY <2>1 DEF queueVars, SlotsInv, StatsInv, FlagsInv, Live
<1> QED BY <1>1, <1>2, <1>3

-----------------------------------------------------------------------------
(* The queue keeps its counts: of the jobs in flight, of those that wait,  *)
(* and of each outcome.                                                    *)
THEOREM QueueInvariance == Spec => []QueueInv
<1>1. ASSUME ClientInv, QueueInv, [Next]_vars
      PROVE  QueueInv'
  <2>1. CASE UNCHANGED vars
    BY <1>1, <2>1 DEF vars, queueVars, QueueInv, SlotsInv, StatsInv, FlagsInv, Live
  <2>2. CASE \E j \in Jobs : Answer(j) \/ Disconnect(j)
    BY <1>1, <2>2, AnswerKeepsCounts
  <2>3. CASE \E j \in Jobs : Enqueue(j)
    BY <1>1, <2>3, EnqueueKeepsCounts
  <2>4. CASE Resume
    BY <1>1, <2>4, ResumeKeepsCounts
  <2>5. CASE \/ \E j \in Jobs : ReadRejected(j)
             \/ Stop \/ CloseInput \/ Exit
             \/ ChainStep /\ UNCHANGED queueVars
    BY <1>1, <2>5, OthersKeepCounts
  <2> QED BY <1>1, <2>1, <2>2, <2>3, <2>4, <2>5 DEF Next
<1> QED BY <1>1, QueueInvInit, ClientInvariance, PTL DEF Spec

(* Every variable keeps its type; the counts never leave their range.      *)
THEOREM TypeCorrect == Spec => []TypeOK
<1>1. ClientInv /\ QueueInv => TypeOK
  BY DEF ClientInv, QueueInv, SlotsInv, Waits, StatsInv, FlagsInv, TypeOK
<1> QED BY <1>1, ClientInvariance, QueueInvariance, PTL

(* Never more than `concurrency` trades are in flight, and between         *)
(* callbacks no slot is idle while a trade waits (_drain).                 *)
THEOREM SlotsAreUsed == Spec => []SlotsInUse
<1>1. QueueInv => SlotsInUse
  <2> SUFFICES ASSUME QueueInv, Live PROVE SlotsInUse
    BY DEF SlotsInUse
  <2>1. running = Cardinality(InProgress)
    BY DEF QueueInv, SlotsInv, Counts, At, InProgress
  <2>2. running <= Concurrency
    BY DEF QueueInv, SlotsInv
  <2> QED BY <2>1, <2>2 DEF SlotsInUse, QueueInv, SlotsInv
<1> QED BY <1>1, QueueInvariance, PTL

(* getStats reports what became of the trades, each counted once.          *)
THEOREM StatisticsAddUp == Spec => []StatsAddUp
<1>1. QueueInv => StatsAddUp
  <2> SUFFICES ASSUME QueueInv PROVE StatsAddUp
    OBVIOUS
  <2>1. /\ queue \in Seq(Jobs)
        /\ \A a, b \in 1..Len(queue) : queue[a] = queue[b] => a = b
        /\ \A j \in Jobs : pc[j] = "queued" <=> \E a \in 1..Len(queue) : queue[a] = j
    BY DEF QueueInv, SlotsInv, Waits
  <2>2. Firsts(queue, Len(queue)) = HasEnded({"queued"})
    BY <2>1 DEF Firsts, HasEnded
  <2>3. Cardinality(Firsts(queue, Len(queue))) = Len(queue)
    BY <2>1, CountFirsts
  <2>4. /\ stats.pending = Len(queue)
        /\ stats.submitted = Cardinality(HasEnded({"submitted"}))
        /\ stats.failed = Cardinality(HasEnded(Failed))
    BY DEF QueueInv, StatsInv, Counts, At, HasEnded
  <2> QED BY <2>2, <2>3, <2>4 DEF StatsAddUp, Firsts
<1> QED BY <1>1, QueueInvariance, PTL

=============================================================================
