------------------------- MODULE TradeQueueOutcomes -------------------------
(***************************************************************************)
(* Proofs about what becomes of the trades of TradeQueue.tla: when a       *)
(* revert is final, in which order trades settle, and that the service     *)
(* keeps the promise of TradeOutcomes.tla.                                 *)
(***************************************************************************)
EXTENDS TradeQueueProofs

USE ClientAssumption, QueueAssumption

-----------------------------------------------------------------------------
(* The inductive invariant of the outcomes.                                *)

(* No transaction of job j is still to be mined, and none has settled.     *)
NoneLeft(j) == \A a \in 1..Len(mempool) : mempool[a].job # j

Clear(j) == ~SettledBy(j) /\ NoneLeft(j)

(* None has settled and one at most is still to be mined.                  *)
OneLeft(j) ==
  /\ ~SettledBy(j)
  /\ \A a, b \in 1..Len(mempool) : mempool[a].job = j /\ mempool[b].job = j => a = b

(* Where a job is before submitTrade, or when it never gets there.         *)
NotSent == {"unread", "dropped", "queued", "lost", "skipped"} \cup Validating

(* What a job's place says of its transactions.                            *)
JobInv(j) ==
  /\ pc[j] # "wait" => receipts[j] = "none"
  /\ pc[j] \in NotSent => attempt[j] = 0
  /\ attempt[j] = 0 => Clear(j)
  /\ attempt[j] = 1 /\ pc[j] \in {"send", "reverted"} => Clear(j)
  /\ attempt[j] = 1 /\ pc[j] = "wait" /\ receipts[j] = "reverted" => Clear(j)
  /\ attempt[j] = 1 /\ pc[j] = "wait" /\ receipts[j] = "none" => OneLeft(j)
  /\ attempt[j] = 1 /\ pc[j] = "wait" /\ receipts[j] = "settled" => NoneLeft(j)
  /\ receipts[j] = "settled" \/ pc[j] = "submitted" => SettledBy(j)

(* What waits to be mined was sent, and the vault's events tell by whom.   *)
SentInv ==
  /\ \A a \in 1..Len(mempool) : mempool[a].attempt <= attempt[mempool[a].job]
  /\ \A a \in 1..Len(trades) :
       trades[a].by # Other => trades[a].key = KeyOf[trades[a].by]

OutcomeInv == SentInv /\ \A j \in Jobs : JobInv(j)

(* The jobs are started in the order in which they were accepted: those    *)
(* of the queue are the last, and with one slot the last one started is    *)
(* the only one in flight.                                                 *)
InOrder(taken, q, at) ==
  /\ taken \in Seq(Jobs)
  /\ \A a, b \in 1..Len(taken) : taken[a] = taken[b] => a = b
  /\ \A j \in Jobs : at[j] \notin {"unread", "dropped"}
                       <=> \E a \in 1..Len(taken) : taken[a] = j
  /\ Len(q) <= Len(taken)
  /\ \A a \in 1..Len(q) : q[a] = taken[(Len(taken) - Len(q)) + a]

OneAtATime(taken, q, at) ==
  \A j \in Jobs : at[j] \in InFlight =>
    Len(taken) - Len(q) > 0 /\ taken[Len(taken) - Len(q)] = j

Started == Len(accepted) - Len(queue)

(* Job i was started, and not later than job j.                            *)
NotAfter(i, j) == \E a, b \in 1..Started :
                    a <= b /\ accepted[a] = i /\ accepted[b] = j

(* Transactions are sent, and so mined, in the order of the starts.        *)
ChainOrderInv ==
  /\ \A a, b \in 1..Len(mempool) : a <= b => NotAfter(mempool[a].job, mempool[b].job)
  /\ \A a \in 1..Len(trades) : trades[a].by # Other =>
       /\ NotAfter(trades[a].by, trades[a].by)
       /\ \A b \in 1..Len(mempool) : NotAfter(trades[a].by, mempool[b].job)
       /\ \A b \in 1..Len(trades) : a <= b /\ trades[b].by # Other
            => NotAfter(trades[a].by, trades[b].by)

OrderInv ==
  /\ InOrder(accepted, queue, pc)
  /\ OneAtATime(accepted, queue, pc)
  /\ ChainOrderInv

-----------------------------------------------------------------------------
(* Which jobs a step moves.                                                *)

(* A job stays where it is, or _drain starts it.                           *)
Stays(i, from) == pc'[i] = from \/ (from = "queued" /\ pc'[i] \in {"expired", "readNonce"})

(* _drain starts none but waiting jobs.                                    *)
LEMMA DrainStarts ==
  ASSUME NEW q, NEW busy \in 0..Concurrency, NEW isStopped \in BOOLEAN,
         NEW at \in [Jobs -> Points], Waits(q, at), Drain(q, busy, isStopped, at)
  PROVE  \A i \in Jobs : Stays(i, at[i])
<1> DEFINE n == Slots(q, busy, isStopped)
<1>1. q \in Seq(Jobs) /\ Len(q) \in Nat
  BY DEF Waits
<1>2. n \in 0..Len(q)
  BY <1>1 DEF Slots, Min2
<1>3. pc' = [i \in Jobs |-> IF i \in Firsts(q, n) THEN Begin(i) ELSE at[i]]
  BY DEF Drain
<1> HIDE DEF n
<1>4. ASSUME NEW i \in Jobs, i \in Firsts(q, n) PROVE at[i] = "queued"
  <2>1. PICK a \in 1..n : q[a] = i
    BY <1>4 DEF Firsts
  <2>2. a \in 1..Len(q)
    BY <1>1, <1>2
  <2> QED BY <2>1, <2>2 DEF Waits
<1>5. \A i \in Jobs : Begin(i) \in {"expired", "readNonce"}
  BY DEF Begin
<1> QED BY <1>3, <1>4, <1>5 DEF Stays

(* A callback moves its own job and may start others.                      *)
LEMMA MoveToMoves ==
  ASSUME ClientInv, QueueInv, NEW j \in Jobs, pc[j] \in InFlight,
         NEW next \in InFlight \cup Outcomes, MoveTo(j, next)
  PROVE  pc'[j] = next /\ \A i \in Jobs \ {j} : Stays(i, pc[i])
<1> DEFINE at == [pc EXCEPT ![j] = next]
<1>1. /\ pc \in [Jobs -> Points] /\ at \in [Jobs -> Points]
      /\ at[j] = next /\ \A i \in Jobs \ {j} : at[i] = pc[i]
  BY DEF ClientInv, ClientTypeOK, Points
<1>2. next # "queued" /\ pc[j] # "queued"
  BY DEF InFlight, Outcomes, Failed
<1>3. CASE Continue(j, next)
  BY <1>1, <1>3 DEF Continue, Stays
<1>4. CASE Finish(j, next)
  <2>1. Drain(queue, running - 1, stopped, at)
    BY <1>4 DEF Finish
  <2>2. Waits(queue, at)
    <3>1. \A i \in Jobs : at[i] = "queued" <=> pc[i] = "queued"
      BY <1>1, <1>2
    <3> QED BY <3>1 DEF QueueInv, SlotsInv, Waits
  <2>3. running - 1 \in 0..Concurrency
    <3>1. Counts(running, pc, InFlight) /\ running \in 0..Concurrency
      BY DEF MoveTo, QueueInv, SlotsInv
    <3>2. running > 0
      BY <3>1, CountNat
    <3> QED BY <3>1, <3>2
  <2>4. stopped \in BOOLEAN
    BY DEF QueueInv, FlagsInv
  <2> DEFINE busy == running - 1
  <2>5. busy \in 0..Concurrency /\ Drain(queue, busy, stopped, at)
    BY <2>1, <2>3
  <2> HIDE DEF at, busy
  <2>6. \A i \in Jobs : Stays(i, at[i])
    BY <1>1, <2>2, <2>4, <2>5, DrainStarts
  <2> QED BY <1>1, <1>2, <2>6 DEF Stays
<1> QED BY <1>3, <1>4 DEF MoveTo

-----------------------------------------------------------------------------
(* Outcomes: what a job's place says of its transactions.                  *)

LEMMA OutcomeInvInit == Init => OutcomeInv
<1> SUFFICES ASSUME Init PROVE OutcomeInv
  OBVIOUS
<1>1. mempool = <<>> /\ trades = <<>> /\ Len(mempool) = 0 /\ Len(trades) = 0
  BY DEF Init, ClientInit
<1>2. SentInv
  BY <1>1 DEF SentInv
<1>3. ASSUME NEW j \in Jobs PROVE JobInv(j)
  <2>1. pc[j] = "unread" /\ attempt[j] = 0 /\ receipts[j] = "none"
    BY DEF Init, ClientInit
  <2>2. Clear(j)
    BY <1>1 DEF Clear, NoneLeft, SettledBy
  <2> QED BY <2>1, <2>2 DEF JobInv
<1> QED BY <1>2, <1>3 DEF OutcomeInv

(* The other jobs do not notice what job j sends.                          *)
LEMMA OthersUnmoved ==
  ASSUME ClientInv, NEW i \in Jobs, JobInv(i), Stays(i, pc[i]),
         attempt'[i] = attempt[i], receipts'[i] = receipts[i], UNCHANGED trades,
         \/ UNCHANGED mempool
         \/ \E j \in Jobs \ {i} : attempt[j] \in 1..MaxRetries /\ Broadcast(j)
  PROVE  JobInv(i)'
<1>1. SettledBy(i)' <=> SettledBy(i)
  BY DEF SettledBy
<1>2. /\ Clear(i) => Clear(i)'
      /\ OneLeft(i) => OneLeft(i)'
      /\ NoneLeft(i) => NoneLeft(i)'
  <2>1. CASE UNCHANGED mempool
    BY <1>1, <2>1 DEF Clear, NoneLeft, OneLeft
  <2>2. ASSUME NEW j \in Jobs \ {i}, attempt[j] \in 1..MaxRetries, Broadcast(j)
        PROVE  <1>2
    <3>1. mempool \in Seq(Txs) /\ Tx(j) \in Txs /\ mempool' = Append(mempool, Tx(j))
      BY <2>2 DEF ClientInv, ClientTypeOK, Broadcast, Tx, Txs
    <3>2. /\ Len(mempool) \in Nat /\ Len(mempool') = Len(mempool) + 1
          /\ \A a \in 1..Len(mempool) : mempool'[a] = mempool[a]
          /\ mempool'[Len(mempool) + 1] = Tx(j)
      BY <3>1
    <3>3. \A a \in 1..Len(mempool') : mempool'[a].job = i
            => a \in 1..Len(mempool) /\ mempool'[a] = mempool[a]
      <4>1. \A a \in 1..Len(mempool') : a \in 1..Len(mempool) \/ a = Len(mempool) + 1
        BY <3>2
      <4>2. Tx(j).job # i
        BY <2>2 DEF Tx
      <4> QED BY <3>2, <4>1, <4>2
    <3> QED BY <1>1, <3>3 DEF Clear, NoneLeft, OneLeft
  <2> QED BY <2>1, <2>2
<1>3. CASE pc'[i] = pc[i]
  BY <1>1, <1>2, <1>3 DEF JobInv
<1>4. CASE pc[i] = "queued" /\ pc'[i] \in {"expired", "readNonce"}
  <2>1. attempt[i] = 0 /\ receipts[i] = "none"
    BY <1>4 DEF JobInv, NotSent
  <2> QED BY <1>1, <1>2, <1>4, <2>1 DEF JobInv
<1> QED BY <1>3, <1>4 DEF Stays

(* A transaction that is sent carries the number of the attempt.           *)
LEMMA SentKept ==
  ASSUME ClientInv, SentInv, UNCHANGED trades,
         attempt' \in [Jobs -> 0..MaxRetries], \A i \in Jobs : attempt[i] <= attempt'[i],
         \/ UNCHANGED mempool
         \/ \E j \in Jobs : attempt[j] \in 1..MaxRetries /\ Broadcast(j)
  PROVE  SentInv'
<1>1. /\ mempool \in Seq(Txs) /\ Len(mempool) \in Nat
      /\ \A a \in 1..Len(mempool) : mempool[a] \in Txs /\ mempool[a].job \in Jobs
      /\ \A i \in Jobs : attempt[i] \in Nat /\ attempt'[i] \in Nat
  <2>1. mempool \in Seq(Txs)
    BY DEF ClientInv, ClientTypeOK
  <2>2. Len(mempool) \in Nat /\ \A a \in 1..Len(mempool) : mempool[a] \in Txs
    BY <2>1
  <2>3. \A tx \in Txs : tx.job \in Jobs
    BY DEF Txs
  <2>4. \A i \in Jobs : attempt[i] \in Nat /\ attempt'[i] \in Nat
    BY DEF ClientInv, ClientTypeOK
  <2> QED BY <2>1, <2>2, <2>3, <2>4
<1>2. ASSUME NEW a \in 1..Len(mempool)
      PROVE  mempool[a].attempt <= attempt'[mempool[a].job]
  <2>1. mempool[a].attempt \in Nat /\ mempool[a].job \in Jobs
    BY <1>1 DEF Txs
  <2> QED BY <1>1, <2>1 DEF SentInv
<1>3. CASE UNCHANGED mempool
  BY <1>2, <1>3 DEF SentInv
<1>4. ASSUME NEW j \in Jobs, attempt[j] \in 1..MaxRetries, Broadcast(j)
      PROVE  SentInv'
  <2>1. Tx(j) \in Txs /\ mempool' = Append(mempool, Tx(j))
    BY <1>4 DEF Broadcast, Tx, Txs
  <2>2. /\ Len(mempool') = Len(mempool) + 1
        /\ \A a \in 1..Len(mempool) : mempool'[a] = mempool[a]
        /\ mempool'[Len(mempool) + 1] = Tx(j)
    BY <1>1, <2>1
  <2>3. \A a \in 1..Len(mempool') : a \in 1..Len(mempool) \/ a = Len(mempool) + 1
    BY <1>1, <2>2
  <2>4. Tx(j).attempt <= attempt'[Tx(j).job]
    BY DEF Tx
  <2> QED BY <1>2, <2>2, <2>3, <2>4 DEF SentInv
<1> QED BY <1>3, <1>4

(* A callback of job j: it remains to look at j itself.                    *)
LEMMA CallbackKeeps ==
  ASSUME ClientInv, QueueInv, OutcomeInv, NEW j \in Jobs, pc[j] \in InFlight,
         NEW next \in InFlight \cup Outcomes, MoveTo(j, next),
         attempt' \in [Jobs -> 0..MaxRetries], attempt[j] <= attempt'[j],
         \A i \in Jobs \ {j} : attempt'[i] = attempt[i] /\ receipts'[i] = receipts[i],
         UNCHANGED trades,
         \/ UNCHANGED mempool
         \/ attempt[j] \in 1..MaxRetries /\ Broadcast(j),
         pc'[j] = next => JobInv(j)'
  PROVE  OutcomeInv'
<1>1. pc'[j] = next /\ \A i \in Jobs \ {j} : Stays(i, pc[i])
  BY MoveToMoves
<1>2. \A i \in Jobs : attempt[i] <= attempt'[i]
  <2>1. \A i \in Jobs : attempt[i] \in Nat
    BY DEF ClientInv, ClientTypeOK
  <2> QED BY <2>1
<1>3. SentInv'
  BY <1>2, SentKept DEF OutcomeInv
<1>4. ASSUME NEW i \in Jobs \ {j} PROVE JobInv(i)'
  BY <1>1, <1>4, OthersUnmoved DEF OutcomeInv
<1> QED BY <1>1, <1>3, <1>4 DEF OutcomeInv

LEMMA AnswerKeepsOutcomes ==
  ASSUME ClientInv, QueueInv, OutcomeInv, NEW j \in Jobs, Answer(j) \/ Disconnect(j)
  PROVE  OutcomeInv'
<1>1. /\ pc[j] \in Points /\ attempt[j] \in 0..MaxRetries
      /\ receipts[j] \in {"none", "settled", "reverted"} /\ JobInv(j)
      /\ attempt \in [Jobs -> 0..MaxRetries]
      /\ receipts \in [Jobs -> {"none", "settled", "reverted"}]
  BY DEF ClientInv, ClientTypeOK, OutcomeInv
<1>2. UNCHANGED trades
  BY DEF Answer, Disconnect, Validate, Send, SendFails, WaitReturns, WaitFails, Wake,
         chainVars
<1>3. SettledBy(j)' <=> SettledBy(j)
  BY <1>2 DEF SettledBy
<1>4. ASSUME UNCHANGED mempool
      PROVE  /\ Clear(j)' <=> Clear(j)
             /\ OneLeft(j)' <=> OneLeft(j)
             /\ NoneLeft(j)' <=> NoneLeft(j)
  BY <1>3, <1>4 DEF Clear, NoneLeft, OneLeft
<1>5. CASE Validate(j) /\ MoveTo(j, AfterRead(j))
  <2>1. /\ pc[j] \in Validating /\ attempt[j] = 0 /\ Clear(j) /\ receipts[j] = "none"
        /\ UNCHANGED <<mempool, receipts>>
    BY <1>1, <1>5 DEF Validate, Validating, JobInv, NotSent, chainVars
  <2>2. /\ AfterRead(j) \in {"skipped", "readTEE", "readPair", "send"}
        /\ attempt'[j] = IF AfterRead(j) = "send" THEN 1 ELSE 0
        /\ attempt' \in [Jobs -> 0..MaxRetries]
        /\ \A i \in Jobs \ {j} : attempt'[i] = attempt[i]
    BY <1>1, <1>5, <2>1 DEF Validate, Validating, AfterRead
  <2>3. pc'[j] = AfterRead(j) => JobInv(j)'
    BY <1>4, <2>1, <2>2 DEF JobInv, NotSent, Validating
  <2>4. pc[j] \in InFlight /\ AfterRead(j) \in InFlight \cup Outcomes
    BY <2>1, <2>2 DEF Validating, InFlight, Outcomes
  <2>5. attempt[j] <= attempt'[j]
    BY <2>1, <2>2
  <2> QED BY <1>2, <1>5, <2>1, <2>2, <2>3, <2>4, <2>5, CallbackKeeps
<1>6. CASE Send(j) /\ MoveTo(j, "wait")
  <2>1. /\ pc[j] = "send" /\ receipts[j] = "none" /\ Broadcast(j)
        /\ UNCHANGED <<attempt, receipts>>
        /\ attempt[j] \in 1..MaxRetries
    BY <1>1, <1>6 DEF Send, JobInv, ClientInv, AttemptInv
  <2>2. attempt[j] = 1 => OneLeft(j)'
    <3>1. SUFFICES ASSUME attempt[j] = 1 PROVE OneLeft(j)'
      OBVIOUS
    <3>2. Clear(j)
      BY <1>1, <2>1, <3>1 DEF JobInv
    <3>3. mempool \in Seq(Txs) /\ Tx(j) \in Txs /\ mempool' = Append(mempool, Tx(j))
      BY <2>1 DEF ClientInv, ClientTypeOK, Broadcast, Tx, Txs
    <3>4. /\ Len(mempool) \in Nat /\ Len(mempool') = Len(mempool) + 1
          /\ \A a \in 1..Len(mempool) : mempool'[a] = mempool[a]
      BY <3>3
    <3>5. \A a \in 1..Len(mempool') : a \in 1..Len(mempool) \/ a = Len(mempool) + 1
      BY <3>4
    <3>6. \A a \in 1..Len(mempool') : mempool'[a].job = j => a = Len(mempool) + 1
      BY <3>2, <3>4, <3>5 DEF Clear, NoneLeft
    <3> QED BY <1>3, <3>2, <3>6 DEF OneLeft, Clear, NoneLeft
  <2>3. pc'[j] = "wait" => JobInv(j)'
    BY <2>1, <2>2 DEF JobInv, NotSent, Validating
  <2>4. pc[j] \in InFlight /\ "wait" \in InFlight \cup Outcomes /\ attempt[j] <= attempt'[j]
    BY <2>1 DEF InFlight
  <2> QED BY <1>1, <1>2, <1>6, <2>1, <2>3, <2>4, CallbackKeeps
<1>7. CASE (SendFails(j) \/ WaitFails(j)) /\ MoveTo(j, AfterError(j))
  <2>1. /\ pc[j] \in {"send", "wait"} /\ attempt[j] \in 1..MaxRetries /\ UNCHANGED attempt
        /\ receipts'[j] = "none" /\ \A i \in Jobs \ {j} : receipts'[i] = receipts[i]
        /\ UNCHANGED mempool \/ Broadcast(j)
    BY <1>1, <1>7 DEF SendFails, WaitFails, JobInv, ClientInv, AttemptInv
  <2>2. AfterError(j) \in {"sleep", "gaveUp"}
    BY DEF AfterError
  <2>3. pc'[j] = AfterError(j) => JobInv(j)'
    BY <2>1, <2>2 DEF JobInv, NotSent, Validating
  <2>4. /\ pc[j] \in InFlight /\ AfterError(j) \in InFlight \cup Outcomes
        /\ attempt[j] <= attempt'[j]
    BY <2>1, <2>2 DEF InFlight, Outcomes, Failed
  <2> QED BY <1>1, <1>2, <1>7, <2>1, <2>3, <2>4, CallbackKeeps
<1>8. CASE WaitReturns(j) /\ MoveTo(j, AfterReceipt(j))
  <2>1. /\ pc[j] = "wait" /\ receipts[j] \in {"settled", "reverted"}
        /\ UNCHANGED <<attempt, mempool>>
        /\ receipts'[j] = "none" /\ \A i \in Jobs \ {j} : receipts'[i] = receipts[i]
        /\ attempt[j] \in 1..MaxRetries
    BY <1>1, <1>8 DEF WaitReturns, ClientInv, AttemptInv
  <2>2. AfterReceipt(j) = IF receipts[j] = "settled" THEN "submitted" ELSE "reverted"
    BY DEF AfterReceipt
  <2>3. pc'[j] = AfterReceipt(j) => JobInv(j)'
    BY <1>1, <1>3, <1>4, <2>1, <2>2 DEF JobInv, NotSent, Validating
  <2>4. /\ pc[j] \in InFlight /\ AfterReceipt(j) \in InFlight \cup Outcomes
        /\ attempt[j] <= attempt'[j]
    BY <2>1, <2>2 DEF InFlight, Outcomes, Failed
  <2> QED BY <1>1, <1>2, <1>8, <2>1, <2>3, <2>4, CallbackKeeps
<1>9. CASE Wake(j) /\ MoveTo(j, "send")
  <2>1. /\ pc[j] = "sleep" /\ receipts[j] = "none" /\ attempt[j] \in 1..(MaxRetries - 1)
        /\ attempt' = [attempt EXCEPT ![j] = @ + 1]
        /\ UNCHANGED <<mempool, receipts>>
    BY <1>1, <1>9 DEF Wake, JobInv, ClientInv, AttemptInv, chainVars
  <2>2. /\ attempt' \in [Jobs -> 0..MaxRetries] /\ attempt'[j] = attempt[j] + 1
        /\ \A i \in Jobs \ {j} : attempt'[i] = attempt[i]
    BY <1>1, <2>1
  <2>3. attempt'[j] # 0 /\ attempt'[j] # 1 /\ attempt[j] <= attempt'[j]
    BY <2>1, <2>2
  <2>4. pc'[j] = "send" => JobInv(j)'
    BY <2>1, <2>3 DEF JobInv, NotSent, Validating
  <2>5. pc[j] \in InFlight /\ "send" \in InFlight \cup Outcomes
    BY <2>1 DEF InFlight
  <2> QED BY <1>2, <1>9, <2>1, <2>2, <2>3, <2>4, <2>5, CallbackKeeps
<1> QED BY <1>5, <1>6, <1>7, <1>8, <1>9 DEF Answer, Disconnect

(* Enqueue moves the job that is offered and may start others.             *)
LEMMA EnqueueMoves ==
  ASSUME ClientInv, QueueInv, NEW j \in Jobs, Enqueue(j)
  PROVE  /\ pc[j] = "unread" /\ pc'[j] \in {"dropped", "queued", "expired", "readNonce"}
         /\ \A i \in Jobs \ {j} : Stays(i, pc[i])
<1>1. pc \in [Jobs -> Points] /\ Waits(queue, pc) /\ running \in 0..Concurrency
  BY DEF ClientInv, ClientTypeOK, QueueInv, SlotsInv
<1>2. CASE stopped
  BY <1>1, <1>2 DEF Enqueue, Stays
<1>3. CASE ~stopped
  <2> DEFINE at == [pc EXCEPT ![j] = "queued"]
             q == Append(queue, j)
  <2>1. /\ at \in [Jobs -> Points] /\ pc[j] = "unread"
        /\ Drain(q, running, FALSE, at)
        /\ at[j] = "queued" /\ \A i \in Jobs \ {j} : at[i] = pc[i]
    BY <1>1, <1>3 DEF Enqueue, Points
  <2>2. Waits(q, at)
    <3>1. queue \in Seq(Jobs) /\ pc[j] # "queued"
      BY <1>1, <2>1 DEF Waits
    <3> QED BY <1>1, <3>1, AppendedWaits
  <2> HIDE DEF at, q
  <2>3. \A i \in Jobs : Stays(i, at[i])
    BY <1>1, <2>1, <2>2, DrainStarts
  <2> QED BY <2>1, <2>3 DEF Stays
<1> QED BY <1>2, <1>3

(* The steps of the queue and the service in which no job is offered or    *)
(* answered.                                                               *)
LEMMA ServiceMoves ==
  ASSUME ClientInv, QueueInv,
         (\E j \in Jobs : ReadRejected(j)) \/ Stop \/ Resume \/ CloseInput \/ Exit
  PROVE  \A i \in Jobs :
           \/ Stays(i, pc[i])
           \/ pc[i] \in {"readNonce", "readTEE", "readPair"} /\ pc'[i] = "lost"
<1>1. pc \in [Jobs -> Points] /\ Waits(queue, pc) /\ running \in 0..Concurrency
  BY DEF ClientInv, ClientTypeOK, QueueInv, SlotsInv
<1>2. ASSUME NEW j \in Jobs, ReadRejected(j)
      PROVE  /\ pc[j] \in {"readNonce", "readTEE", "readPair"} /\ pc'[j] = "lost"
             /\ \A i \in Jobs \ {j} : pc'[i] = pc[i]
  BY <1>1, <1>2 DEF ReadRejected
<1>3. CASE Resume
  <2>1. Drain(queue, running, FALSE, pc)
    BY <1>3 DEF Resume
  <2> QED BY <1>1, <2>1, DrainStarts
<1>4. CASE Stop \/ CloseInput \/ Exit
  BY <1>4 DEF Stop, CloseInput, Exit, Stays
<1> QED BY <1>2, <1>3, <1>4 DEF Stays

LEMMA QueueKeepsOutcomes ==
  ASSUME ClientInv, QueueInv, OutcomeInv,
         \/ \E j \in Jobs : Enqueue(j) \/ ReadRejected(j)
         \/ Stop \/ Resume \/ CloseInput \/ Exit
  PROVE  OutcomeInv'
<1>1. UNCHANGED <<attempt, mempool, receipts, trades>>
  BY DEF Enqueue, ReadRejected, Stop, Resume, CloseInput, Exit, chainVars
<1>2. attempt' \in [Jobs -> 0..MaxRetries] /\ \A i \in Jobs : attempt[i] <= attempt'[i]
  <2>1. \A i \in Jobs : attempt[i] \in Nat
    BY DEF ClientInv, ClientTypeOK
  <2> QED BY <1>1, <2>1 DEF ClientInv, ClientTypeOK
<1>3. SentInv'
  BY <1>1, <1>2, SentKept DEF OutcomeInv
<1>4. ASSUME NEW i \in Jobs PROVE JobInv(i)'
  <2>1. CASE Stays(i, pc[i])
    BY <1>1, <2>1, OthersUnmoved DEF OutcomeInv
  <2>2. CASE /\ pc[i] \in {"unread", "readNonce", "readTEE", "readPair"}
             /\ pc'[i] \in {"dropped", "queued", "expired", "readNonce", "lost"}
    <3>1. attempt[i] = 0 /\ receipts[i] = "none" /\ Clear(i)
      BY <2>2 DEF OutcomeInv, JobInv, NotSent, Validating
    <3>2. Clear(i)'
      BY <1>1, <3>1 DEF Clear, NoneLeft, SettledBy
    <3> QED BY <1>1, <2>2, <3>1, <3>2 DEF JobInv
  <2> QED BY <2>1, <2>2, EnqueueMoves, ServiceMoves
<1> QED BY <1>3, <1>4 DEF OutcomeInv

(* Another trade settles: those settled before remain.                     *)
LEMMA SettleAppends ==
  ASSUME ClientInv, NEW k \in Keys, NEW by \in Jobs \cup {Other}, Settle(k, by)
  PROVE  /\ Len(trades) \in Nat /\ Len(trades') = Len(trades) + 1
         /\ \A a \in 1..Len(trades) : trades'[a] = trades[a]
         /\ trades'[Len(trades) + 1] = [key |-> k, by |-> by]
         /\ \A a \in 1..Len(trades') : a \in 1..Len(trades) \/ a = Len(trades) + 1
         /\ \A i \in Jobs : SettledBy(i)' <=> SettledBy(i) \/ by = i
<1> DEFINE e == [key |-> k, by |-> by]
<1>1. /\ trades \in Seq([key : Keys, by : Jobs \cup {Other}])
      /\ e \in [key : Keys, by : Jobs \cup {Other}]
      /\ trades' = Append(trades, e)
  BY DEF ClientInv, ClientTypeOK, Settle
<1>2. e.by = by
  OBVIOUS
<1> HIDE DEF e
<1>3. /\ Len(trades) \in Nat /\ Len(trades') = Len(trades) + 1
      /\ \A a \in 1..Len(trades) : trades'[a] = trades[a]
      /\ trades'[Len(trades) + 1] = e
  BY <1>1
<1>4. /\ \A a \in 1..Len(trades') : a \in 1..Len(trades) \/ a = Len(trades) + 1
      /\ \A a \in 1..Len(trades) : a \in 1..Len(trades')
      /\ Len(trades) + 1 \in 1..Len(trades')
  BY <1>3
<1>5. \A i \in Jobs : SettledBy(i)' <=> SettledBy(i) \/ by = i
  BY <1>2, <1>3, <1>4 DEF SettledBy
<1> QED BY <1>3, <1>4, <1>5 DEF e

LEMMA ChainKeepsOutcomes ==
  ASSUME ClientInv, OutcomeInv, ChainStep
  PROVE  OutcomeInv'
<1>1. UNCHANGED <<attempt, pc>>
  BY DEF ChainStep, Mine, Interfere
<1>2. /\ mempool \in Seq(Txs) /\ Len(mempool) \in Nat
      /\ \A i \in Jobs : attempt[i] \in 0..MaxRetries
      /\ receipts \in [Jobs -> {"none", "settled", "reverted"}]
  BY DEF ClientInv, ClientTypeOK
<1>3. CASE Interfere
  <2>1. UNCHANGED <<mempool, receipts>>
    BY <1>3 DEF Interfere, OwnerOrClock, OtherSettles
  <2>2. CASE UNCHANGED trades
    <3>1. \A i \in Jobs : JobInv(i)'
      BY <1>1, <2>1, <2>2 DEF OutcomeInv, JobInv, Clear, NoneLeft, OneLeft, SettledBy
    <3> QED BY <1>1, <2>1, <2>2, <3>1 DEF OutcomeInv, SentInv
  <2>3. ASSUME NEW k \in Keys, Settle(k, Other)
        PROVE  OutcomeInv'
    <3>1. \A i \in Jobs : SettledBy(i)' <=> SettledBy(i)
      BY <2>3, SettleAppends
    <3>2. \A i \in Jobs : JobInv(i)'
      BY <1>1, <2>1, <3>1 DEF OutcomeInv, JobInv, Clear, NoneLeft, OneLeft
    <3>3. SentInv'
      <4>1. \A a \in 1..Len(mempool') : mempool'[a].attempt <= attempt'[mempool'[a].job]
        BY <1>1, <2>1 DEF OutcomeInv, SentInv
      <4>2. \A a \in 1..Len(trades') :
              trades'[a].by # Other => trades'[a].key = KeyOf[trades'[a].by]
        <5>1. SUFFICES ASSUME NEW a \in 1..Len(trades'), trades'[a].by # Other
                       PROVE  trades'[a].key = KeyOf[trades'[a].by]
          OBVIOUS
        <5>2. a \in 1..Len(trades) /\ trades'[a] = trades[a]
          <6>1. trades'[Len(trades) + 1] = [key |-> k, by |-> Other]
            BY <2>3, SettleAppends
          <6> QED BY <2>3, <5>1, <6>1, SettleAppends
        <5> QED BY <5>1, <5>2 DEF OutcomeInv, SentInv
      <4> QED BY <4>1, <4>2 DEF SentInv
    <3> QED BY <3>2, <3>3 DEF OutcomeInv
  <2> QED BY <1>3, <2>2, <2>3 DEF Interfere, OwnerOrClock, OtherSettles
<1>4. CASE Mine
  <2>1. PICK tx : tx = Head(mempool)
    OBVIOUS
  <2>2. /\ mempool # <<>> /\ mempool' = Tail(mempool)
        /\ \/ Settle(KeyOf[tx.job], tx.job) /\ Receive(tx, "settled")
           \/ Receive(tx, "reverted") /\ UNCHANGED trades
    BY <1>4, <2>1 DEF Mine
  <2>3. /\ Len(mempool) > 0 /\ tx = mempool[1] /\ tx \in Txs
        /\ Len(mempool') = Len(mempool) - 1
        /\ \A a \in 1..Len(mempool') : mempool'[a] = mempool[a + 1] /\ a + 1 \in 1..Len(mempool)
    BY <1>2, <2>1, <2>2
  <2>4. /\ tx.job \in Jobs /\ tx.attempt \in 1..MaxRetries /\ KeyOf[tx.job] \in Keys
        /\ tx.attempt <= attempt[tx.job] /\ 1 \in 1..Len(mempool)
    BY <1>2, <2>3 DEF Txs, OutcomeInv, SentInv
  <2>5. ~Clear(tx.job) /\ attempt[tx.job] # 0
    BY <2>3, <2>4 DEF Clear, NoneLeft, OutcomeInv, JobInv
  <2>6. SentInv'
    <3>1. \A a \in 1..Len(mempool') : mempool'[a].attempt <= attempt'[mempool'[a].job]
      BY <1>1, <2>3 DEF OutcomeInv, SentInv
    <3>2. CASE UNCHANGED trades
      BY <3>1, <3>2 DEF OutcomeInv, SentInv
    <3>3. CASE Settle(KeyOf[tx.job], tx.job)
      <4>1. \A a \in 1..Len(trades') :
              trades'[a].by # Other => trades'[a].key = KeyOf[trades'[a].by]
        <5>1. SUFFICES ASSUME NEW a \in 1..Len(trades'), trades'[a].by # Other
                       PROVE  trades'[a].key = KeyOf[trades'[a].by]
          OBVIOUS
        <5>2. \/ a \in 1..Len(trades) /\ trades'[a] = trades[a]
              \/ trades'[a] = [key |-> KeyOf[tx.job], by |-> tx.job]
          BY <2>4, <3>3, SettleAppends
        <5> QED BY <5>1, <5>2 DEF OutcomeInv, SentInv
      <4> QED BY <3>1, <4>1 DEF SentInv
    <3> QED BY <2>2, <3>2, <3>3
  <2>7. ASSUME NEW i \in Jobs, i # tx.job PROVE JobInv(i)'
    <3>1. receipts'[i] = receipts[i]
      BY <1>2, <2>2, <2>7 DEF Receive
    <3>2. SettledBy(i)' <=> SettledBy(i)
      <4>1. CASE UNCHANGED trades
        BY <4>1 DEF SettledBy
      <4>2. CASE Settle(KeyOf[tx.job], tx.job)
        BY <2>4, <2>7, <4>2, SettleAppends
      <4> QED BY <2>2, <4>1, <4>2
    <3>3. Clear(i) => Clear(i)'
      BY <2>3, <3>2 DEF Clear, NoneLeft
    <3>4. NoneLeft(i) => NoneLeft(i)'
      BY <2>3 DEF NoneLeft
    <3>5. OneLeft(i) => OneLeft(i)'
      <4>1. ASSUME OneLeft(i), NEW a \in 1..Len(mempool'), NEW b \in 1..Len(mempool'),
                   mempool'[a].job = i, mempool'[b].job = i
            PROVE  a = b
        <5>1. a + 1 = b + 1
          BY <2>3, <4>1 DEF OneLeft
        <5> QED BY <5>1
      <4> QED BY <3>2, <4>1 DEF OneLeft
    <3> QED BY <1>1, <3>1, <3>2, <3>3, <3>4, <3>5 DEF OutcomeInv, JobInv
  <2>8. JobInv(tx.job)'
    <3>1. PICK j \in Jobs : j = tx.job
      BY <2>4
    <3>2. JobInv(j) /\ ~Clear(j) /\ attempt[j] # 0 /\ attempt'[j] = attempt[j] /\ pc'[j] = pc[j]
      BY <1>1, <2>5, <3>1 DEF OutcomeInv
    <3>3. SettledBy(j) => SettledBy(j)'
      <4>1. CASE UNCHANGED trades
        BY <4>1 DEF SettledBy
      <4>2. CASE Settle(KeyOf[tx.job], tx.job)
        BY <2>4, <3>1, <4>2, SettleAppends
      <4> QED BY <2>2, <4>1, <4>2
    <3>4. attempt[j] # 1 => JobInv(j)'
      <4>1. receipts'[j] = receipts[j] \/ (pc[j] = "wait" /\ receipts'[j] \in {"settled", "reverted"})
        BY <1>2, <2>2, <3>1 DEF Receive
      <4>2. receipts'[j] = "settled" => SettledBy(j)'
        <5>1. CASE Settle(KeyOf[tx.job], tx.job)
          BY <2>4, <3>1, <5>1, SettleAppends
        <5>2. CASE Receive(tx, "reverted")
          BY <1>2, <3>1, <3>2, <3>3, <5>2 DEF Receive, JobInv
        <5> QED BY <2>2, <5>1, <5>2
      <4> QED BY <3>2, <3>3, <4>1, <4>2 DEF JobInv, NotSent, Validating
    <3>5. ASSUME attempt[j] = 1 PROVE JobInv(j)'
      <4>1. tx = Tx(j)
        <5>1. tx.attempt = 1
          BY <2>4, <3>1, <3>5
        <5> QED BY <2>3, <3>1, <3>5, <5>1 DEF Txs, Tx
      <4>2. pc[j] = "wait" => receipts[j] = "none" /\ OneLeft(j)
        <5>1. ~NoneLeft(j)
          BY <2>3, <2>4, <3>1 DEF NoneLeft
        <5> QED BY <1>2, <3>2, <3>5, <5>1 DEF JobInv
      <4>3. CASE pc[j] # "wait"
        <5>1. receipts'[j] = receipts[j]
          BY <2>2, <3>1, <4>3 DEF Receive
        <5> QED BY <3>2, <3>3, <3>5, <4>3, <5>1 DEF JobInv, NotSent, Validating
      <4>4. pc[j] = "wait" => NoneLeft(j)'
        <5>1. SUFFICES ASSUME pc[j] = "wait", NEW a \in 1..Len(mempool'), mempool'[a].job = j
                       PROVE  FALSE
          BY DEF NoneLeft
        <5>2. mempool[a + 1].job = j /\ mempool[1].job = j /\ a + 1 \in 1..Len(mempool)
          BY <2>3, <3>1, <5>1
        <5>3. a + 1 = 1
          BY <2>4, <4>2, <5>1, <5>2 DEF OneLeft
        <5> QED BY <5>3
      <4>5. CASE pc[j] = "wait" /\ Settle(KeyOf[tx.job], tx.job) /\ Receive(tx, "settled")
        <5>1. receipts'[j] = "settled"
          BY <1>2, <3>1, <4>1, <4>5 DEF Receive
        <5>2. SettledBy(j)'
          BY <2>4, <3>1, <4>5, SettleAppends
        <5> QED BY <3>2, <3>5, <4>4, <4>5, <5>1, <5>2 DEF JobInv, NotSent, Validating
      <4>6. CASE pc[j] = "wait" /\ Receive(tx, "reverted") /\ UNCHANGED trades
        <5>1. receipts'[j] = "reverted"
          BY <1>2, <3>1, <4>1, <4>6 DEF Receive
        <5>2. ~SettledBy(j)'
          BY <4>2, <4>6 DEF OneLeft, SettledBy
        <5> QED BY <3>2, <3>5, <4>4, <4>6, <5>1, <5>2 DEF JobInv, NotSent, Validating, Clear
      <4> QED BY <2>2, <4>3, <4>5, <4>6
    <3> QED BY <3>1, <3>4, <3>5
  <2> QED BY <2>6, <2>7, <2>8 DEF OutcomeInv
<1> QED BY <1>3, <1>4 DEF ChainStep

LEMMA OutcomeInvariance == Spec => []OutcomeInv
<1>1. ASSUME ClientInv, QueueInv, OutcomeInv, [Next]_vars
      PROVE  OutcomeInv'
  <2>1. CASE UNCHANGED vars
    BY <1>1, <2>1 DEF vars, chainVars, OutcomeInv, SentInv, JobInv, Clear, NoneLeft, OneLeft, SettledBy
  <2>2. CASE \E j \in Jobs : Answer(j) \/ Disconnect(j)
    BY <1>1, <2>2, AnswerKeepsOutcomes
  <2>3. CASE \/ \E j \in Jobs : Enqueue(j) \/ ReadRejected(j)
             \/ Stop \/ Resume \/ CloseInput \/ Exit
    BY <1>1, <2>3, QueueKeepsOutcomes
  <2>4. CASE ChainStep
    BY <1>1, <2>4, ChainKeepsOutcomes
  <2> QED BY <1>1, <2>1, <2>2, <2>3, <2>4 DEF Next
<1> QED BY <1>1, OutcomeInvInit, ClientInvariance, QueueInvariance, PTL DEF Spec

(* A revert that ends the first attempt is final: the trade was not        *)
(* settled by it and has no transaction left that could settle it, so that *)
(* not trying again is sound (vault-client.ts, submitTrade).               *)
THEOREM FirstRevertsAreFinal == Spec => []FirstRevertIsFinal
<1>1. OutcomeInv => FirstRevertIsFinal
  BY DEF OutcomeInv, JobInv, Clear, NoneLeft, FirstRevertIsFinal
<1> QED BY <1>1, OutcomeInvariance, PTL

-----------------------------------------------------------------------------
(* Order, with one slot.                                                   *)

(* The queue that _drain leaves: one job less, if it starts one.           *)
LEMMA DrainTakesFirst ==
  ASSUME NEW q, NEW busy, NEW isStopped, NEW at \in [Jobs -> Points],
         Waits(q, at), busy \in {0, 1}, Concurrency = 1,
         Drain(q, busy, isStopped, at)
  PROVE  \/ queue' = q /\ pc' = at
         \/ /\ busy = 0 /\ Len(q) > 0
            /\ queue' \in Seq(Jobs) /\ Len(queue') = Len(q) - 1
            /\ \A a \in 1..Len(queue') : queue'[a] = q[a + 1]
            /\ at[q[1]] = "queued" /\ pc'[q[1]] \in InFlight
            /\ \A i \in Jobs \ {q[1]} : pc'[i] = at[i]
<1> DEFINE n == Slots(q, busy, isStopped)
<1>1. q \in Seq(Jobs) /\ Len(q) \in Nat
  BY DEF Waits
<1>2. n = 0 \/ (n = 1 /\ busy = 0 /\ Len(q) > 0)
  BY <1>1 DEF Slots, Min2
<1>3. /\ queue' = SubSeq(q, n + 1, Len(q))
      /\ pc' = [i \in Jobs |-> IF i \in Firsts(q, n) THEN Begin(i) ELSE at[i]]
  BY DEF Drain
<1> HIDE DEF n
<1>4. /\ queue' \in Seq(Jobs) /\ Len(queue') = Len(q) - n
      /\ \A a \in 1..(Len(q) - n) : queue'[a] = q[a + n]
  BY <1>1, <1>2, <1>3
<1>5. CASE n = 0
  <2>1. queue' = q
    BY <1>1, <1>3, <1>5
  <2>2. Firsts(q, n) = {}
    BY <1>5 DEF Firsts
  <2>3. pc' = at
    BY <1>3, <2>2
  <2> QED BY <2>1, <2>3
<1>6. CASE n = 1 /\ busy = 0 /\ Len(q) > 0
  <2>1. Firsts(q, n) = {q[1]} /\ 1 \in 1..Len(q) /\ q[1] \in Jobs
    BY <1>1, <1>6 DEF Firsts
  <2>2. /\ queue' \in Seq(Jobs) /\ Len(queue') = Len(q) - 1
        /\ \A a \in 1..Len(queue') : queue'[a] = q[a + 1]
    BY <1>6, <1>4
  <2>3. at[q[1]] = "queued"
    BY <2>1 DEF Waits
  <2>4. pc'[q[1]] \in InFlight /\ \A i \in Jobs \ {q[1]} : pc'[i] = at[i]
    BY <1>3, <2>1 DEF Begin, InFlight
  <2> QED BY <1>6, <2>2, <2>3, <2>4
<1> QED BY <1>2, <1>5, <1>6

(* The jobs are started in their order, one after the other.               *)
LEMMA DrainKeepsOrder ==
  ASSUME NEW q, NEW busy, NEW isStopped, NEW at \in [Jobs -> Points],
         Waits(q, at), busy \in {0, 1}, Counts(busy, at, InFlight), Concurrency = 1,
         NEW taken, InOrder(taken, q, at), OneAtATime(taken, q, at),
         Drain(q, busy, isStopped, at)
  PROVE  /\ InOrder(taken, queue', pc') /\ OneAtATime(taken, queue', pc')
         /\ Len(queue') \in Nat /\ Len(queue') <= Len(q)
<1>1. q \in Seq(Jobs) /\ Len(q) \in Nat /\ taken \in Seq(Jobs) /\ Len(taken) \in Nat
      /\ Len(q) <= Len(taken)
  BY DEF Waits, InOrder
<1>2. CASE queue' = q /\ pc' = at
  BY <1>1, <1>2
<1>3. CASE /\ busy = 0 /\ Len(q) > 0
           /\ queue' \in Seq(Jobs) /\ Len(queue') = Len(q) - 1
           /\ \A a \in 1..Len(queue') : queue'[a] = q[a + 1]
           /\ at[q[1]] = "queued" /\ pc'[q[1]] \in InFlight
           /\ \A i \in Jobs \ {q[1]} : pc'[i] = at[i]
  <2>1. Len(queue') \in Nat /\ Len(queue') <= Len(q) /\ Len(queue') <= Len(taken)
    BY <1>1, <1>3
  <2>2. \A i \in Jobs : at[i] \notin InFlight
    BY <1>3, CountNat
  <2>3. \A i \in Jobs : pc'[i] \notin {"unread", "dropped"} <=> at[i] \notin {"unread", "dropped"}
    BY <1>3 DEF InFlight
  <2>4. ASSUME NEW a \in 1..Len(queue')
        PROVE  queue'[a] = taken[(Len(taken) - Len(queue')) + a]
    <3>1. queue'[a] = q[a + 1] /\ a + 1 \in 1..Len(q)
      BY <1>1, <1>3
    <3>2. q[a + 1] = taken[(Len(taken) - Len(q)) + (a + 1)]
      BY <3>1 DEF InOrder
    <3>3. (Len(taken) - Len(q)) + (a + 1) = (Len(taken) - Len(queue')) + a
      BY <1>1, <1>3, <2>1
    <3> QED BY <3>1, <3>2, <3>3
  <2>5. InOrder(taken, queue', pc')
    BY <2>1, <2>3, <2>4 DEF InOrder
  <2>6. Len(taken) - Len(queue') > 0 /\ taken[Len(taken) - Len(queue')] = q[1]
    <3>1. Len(taken) - Len(queue') = (Len(taken) - Len(q)) + 1 /\ 1 \in 1..Len(q)
      BY <1>1, <1>3
    <3>2. q[1] = taken[(Len(taken) - Len(q)) + 1]
      BY <3>1 DEF InOrder
    <3> QED BY <1>1, <1>3, <3>1, <3>2
  <2>7. OneAtATime(taken, queue', pc')
    BY <1>3, <2>2, <2>6 DEF OneAtATime
  <2> QED BY <2>1, <2>5, <2>7
<1> QED BY <1>2, <1>3, DrainTakesFirst

(* A job that is accepted comes last.                                      *)
LEMMA AppendKeepsOrder ==
  ASSUME NEW taken, NEW q \in Seq(Jobs), NEW at \in [Jobs -> Points],
         InOrder(taken, q, at), OneAtATime(taken, q, at),
         NEW j \in Jobs, at[j] = "unread"
  PROVE  /\ InOrder(Append(taken, j), Append(q, j), [at EXCEPT ![j] = "queued"])
         /\ OneAtATime(Append(taken, j), Append(q, j), [at EXCEPT ![j] = "queued"])
<1> DEFINE now == [at EXCEPT ![j] = "queued"]
<1>1. PICK t, r : t = Append(taken, j) /\ r = Append(q, j)
  OBVIOUS
<1>2. taken \in Seq(Jobs) /\ Len(taken) \in Nat /\ Len(q) \in Nat /\ Len(q) <= Len(taken)
  BY DEF InOrder
<1>3. /\ t \in Seq(Jobs) /\ Len(t) = Len(taken) + 1 /\ t[Len(taken) + 1] = j
      /\ \A a \in 1..Len(taken) : t[a] = taken[a]
      /\ Len(r) = Len(q) + 1 /\ r[Len(q) + 1] = j
      /\ \A a \in 1..Len(q) : r[a] = q[a]
  BY <1>1, <1>2
<1>4. now[j] = "queued" /\ \A i \in Jobs \ {j} : now[i] = at[i]
  OBVIOUS
<1> HIDE DEF now
<1>5. /\ \A a \in 1..Len(t) : a \in 1..Len(taken) \/ a = Len(taken) + 1
      /\ \A a \in 1..Len(taken) : a \in 1..Len(t) /\ taken[a] # j
      /\ Len(taken) + 1 \in 1..Len(t)
  BY <1>2, <1>3 DEF InOrder
<1>6. Len(t) - Len(r) = Len(taken) - Len(q) /\ Len(r) <= Len(t)
  BY <1>2, <1>3
<1>7. \A a, b \in 1..Len(t) : t[a] = t[b] => a = b
  BY <1>3, <1>5 DEF InOrder
<1>8. ASSUME NEW i \in Jobs
      PROVE  now[i] \notin {"unread", "dropped"} <=> \E a \in 1..Len(t) : t[a] = i
  <2>1. CASE i = j
    BY <1>3, <1>4, <1>5, <2>1
  <2>2. CASE i # j
    <3>1. (\E a \in 1..Len(t) : t[a] = i) <=> \E a \in 1..Len(taken) : taken[a] = i
      BY <1>3, <1>5, <2>2
    <3> QED BY <1>4, <2>2, <3>1 DEF InOrder
  <2> QED BY <2>1, <2>2
<1>9. ASSUME NEW a \in 1..Len(r) PROVE r[a] = t[(Len(t) - Len(r)) + a]
  <2>1. CASE a \in 1..Len(q)
    <3>1. (Len(taken) - Len(q)) + a \in 1..Len(taken)
      BY <1>2, <2>1
    <3> QED BY <1>3, <1>6, <2>1, <3>1 DEF InOrder
  <2>2. CASE a = Len(q) + 1
    <3>1. (Len(t) - Len(r)) + a = Len(taken) + 1
      BY <1>2, <1>6, <2>2
    <3> QED BY <1>3, <2>2, <3>1
  <2> QED BY <1>2, <1>3, <2>1, <2>2
<1>10. InOrder(t, r, now)
  BY <1>3, <1>6, <1>7, <1>8, <1>9 DEF InOrder
<1>11. OneAtATime(t, r, now)
  <2>1. SUFFICES ASSUME NEW i \in Jobs, now[i] \in InFlight
                 PROVE  Len(t) - Len(r) > 0 /\ t[Len(t) - Len(r)] = i
    BY DEF OneAtATime
  <2>2. i # j /\ at[i] \in InFlight
    BY <1>4, <2>1 DEF InFlight
  <2>3. Len(taken) - Len(q) > 0 /\ taken[Len(taken) - Len(q)] = i
    BY <2>2 DEF OneAtATime
  <2>4. Len(taken) - Len(q) \in 1..Len(taken)
    BY <1>2, <2>3
  <2> QED BY <1>3, <1>6, <2>3, <2>4
<1> QED BY <1>1, <1>10, <1>11 DEF now

(* A job that moves on, without waiting again, changes no order.           *)
LEMMA MoveKeepsOrder ==
  ASSUME NEW taken, NEW q, NEW at \in [Jobs -> Points],
         InOrder(taken, q, at), OneAtATime(taken, q, at),
         NEW j \in Jobs, NEW p,
         at[j] \in {"unread", "dropped"} <=> p \in {"unread", "dropped"},
         p \in InFlight => at[j] \in InFlight
  PROVE  /\ InOrder(taken, q, [at EXCEPT ![j] = p])
         /\ OneAtATime(taken, q, [at EXCEPT ![j] = p])
<1>1. PICK now : now = [at EXCEPT ![j] = p]
  OBVIOUS
<1>2. now[j] = p /\ \A i \in Jobs \ {j} : now[i] = at[i]
  BY <1>1
<1>3. InOrder(taken, q, now)
  <2>1. \A i \in Jobs : now[i] \notin {"unread", "dropped"} <=> at[i] \notin {"unread", "dropped"}
    BY <1>2
  <2> QED BY <2>1 DEF InOrder
<1>4. OneAtATime(taken, q, now)
  BY <1>2 DEF OneAtATime
<1> QED BY <1>1, <1>3, <1>4

(* What is on record stays so while more jobs start.                       *)
LEMMA StartsGrow ==
  ASSUME Started \in Nat, Started' \in Nat, Started <= Started',
         \A a \in 1..Started : accepted'[a] = accepted[a],
         NEW i, NEW j, NotAfter(i, j)
  PROVE  NotAfter(i, j)'
<1>1. PICK a, b \in 1..Started : a <= b /\ accepted[a] = i /\ accepted[b] = j
  BY DEF NotAfter
<1>2. a \in 1..Started' /\ b \in 1..Started'
  BY <1>1
<1>3. accepted'[a] = i /\ accepted'[b] = j
  BY <1>1
<1> QED BY <1>1, <1>2, <1>3 DEF NotAfter

(* A step of the queue keeps what is on record of the chain.  Only the job *)
(* that was started last sends.                                            *)
LEMMA QueueKeepsChainOrder ==
  ASSUME ClientInv, OrderInv,
         Started \in Nat, Started' \in Nat, Started <= Started',
         \A a \in 1..Started : accepted'[a] = accepted[a],
         UNCHANGED trades,
         \/ UNCHANGED mempool
         \/ \E j \in Jobs : pc[j] \in InFlight /\ attempt[j] \in 1..MaxRetries /\ Broadcast(j)
  PROVE  ChainOrderInv'
<1>1. ASSUME NEW i, NEW j, NotAfter(i, j) PROVE NotAfter(i, j)'
  BY <1>1, StartsGrow
<1>2. CASE UNCHANGED mempool
  BY <1>1, <1>2 DEF OrderInv, ChainOrderInv
<1>3. ASSUME NEW j \in Jobs, pc[j] \in InFlight, attempt[j] \in 1..MaxRetries, Broadcast(j)
      PROVE  ChainOrderInv'
  <2>1. Started > 0 /\ accepted[Started] = j
    BY <1>3 DEF OrderInv, OneAtATime, Started
  <2>2. ASSUME NEW i, NotAfter(i, i) PROVE NotAfter(i, j)'
    <3>1. PICK a, b \in 1..Started : a <= b /\ accepted[a] = i
      BY <2>2 DEF NotAfter
    <3>2. NotAfter(i, j)
      BY <2>1, <3>1 DEF NotAfter
    <3> QED BY <1>1, <3>2
  <2>3. NotAfter(j, j)'
    <3>1. NotAfter(j, j)
      BY <2>1 DEF NotAfter
    <3> QED BY <2>2, <3>1
  <2>4. mempool \in Seq(Txs) /\ Tx(j) \in Txs /\ mempool' = Append(mempool, Tx(j))
    BY <1>3 DEF ClientInv, ClientTypeOK, Broadcast, Tx, Txs
  <2> PICK sent : sent = mempool'
    OBVIOUS
  <2>5. /\ Len(mempool) \in Nat /\ Len(sent) = Len(mempool) + 1
        /\ \A a \in 1..Len(mempool) : sent[a] = mempool[a]
        /\ sent[Len(mempool) + 1] = Tx(j)
    BY <2>4
  <2>6. /\ \A a \in 1..Len(sent) : a \in 1..Len(mempool) \/ a = Len(mempool) + 1
        /\ sent[Len(mempool) + 1].job = j
    BY <2>5 DEF Tx
  <2>7. ASSUME NEW a \in 1..Len(sent), NEW b \in 1..Len(sent), a <= b
        PROVE  NotAfter(sent[a].job, sent[b].job)'
    <3>1. CASE a \in 1..Len(mempool) /\ b \in 1..Len(mempool)
      BY <1>1, <2>5, <2>7, <3>1 DEF OrderInv, ChainOrderInv
    <3>2. CASE a \in 1..Len(mempool) /\ b = Len(mempool) + 1
      <4>1. NotAfter(mempool[a].job, mempool[a].job)
        BY <3>2 DEF OrderInv, ChainOrderInv
      <4> QED BY <2>2, <2>5, <2>6, <3>2, <4>1
    <3>3. CASE a = Len(mempool) + 1
      <4>1. b = Len(mempool) + 1
        BY <2>5, <2>6, <2>7, <3>3
      <4> QED BY <2>3, <2>6, <3>3, <4>1
    <3> QED BY <2>6, <3>1, <3>2, <3>3
  <2>8. ASSUME NEW a \in 1..Len(trades), trades[a].by # Other, NEW b \in 1..Len(sent)
        PROVE  NotAfter(trades[a].by, sent[b].job)'
    <3>1. CASE b \in 1..Len(mempool)
      BY <1>1, <2>5, <2>8, <3>1 DEF OrderInv, ChainOrderInv
    <3>2. CASE b = Len(mempool) + 1
      BY <2>2, <2>6, <2>8, <3>2 DEF OrderInv, ChainOrderInv
    <3> QED BY <2>6, <3>1, <3>2
  <2>9. ASSUME NEW a \in 1..Len(trades), trades[a].by # Other, NEW b \in 1..Len(trades),
               a <= b, trades[b].by # Other
        PROVE  NotAfter(trades[a].by, trades[b].by)'
    BY <1>1, <2>9 DEF OrderInv, ChainOrderInv
  <2>10. ASSUME NEW a \in 1..Len(trades), trades[a].by # Other
         PROVE  NotAfter(trades[a].by, trades[a].by)'
    BY <1>1, <2>10 DEF OrderInv, ChainOrderInv
  <2> QED BY <2>7, <2>8, <2>9, <2>10 DEF ChainOrderInv
<1> QED BY <1>2, <1>3

(* A step of the queue keeps the order of the jobs.                        *)
KeepsOrder ==
  /\ InOrder(accepted', queue', pc') /\ OneAtATime(accepted', queue', pc')
  /\ Started \in Nat /\ Started' \in Nat /\ Started <= Started'
  /\ \A a \in 1..Started : accepted'[a] = accepted[a]

LEMMA EnqueueKeepsOrder ==
  ASSUME Concurrency = 1, ClientInv, QueueInv, OrderInv, NEW j \in Jobs, Enqueue(j)
  PROVE  KeepsOrder
<1>1. /\ pc \in [Jobs -> Points] /\ pc[j] = "unread" /\ Live
      /\ Waits(queue, pc) /\ queue \in Seq(Jobs) /\ Len(queue) \in Nat
      /\ running \in {0, 1} /\ Counts(running, pc, InFlight)
      /\ InOrder(accepted, queue, pc) /\ OneAtATime(accepted, queue, pc)
  <2>1. pc \in [Jobs -> Points] /\ pc[j] = "unread" /\ Live
    BY DEF Enqueue, ClientInv, ClientTypeOK, Live
  <2>2. Waits(queue, pc) /\ running \in {0, 1} /\ Counts(running, pc, InFlight)
    BY <2>1 DEF QueueInv, SlotsInv
  <2>3. queue \in Seq(Jobs) /\ Len(queue) \in Nat
    BY <2>2 DEF Waits
  <2> QED BY <2>1, <2>2, <2>3 DEF OrderInv
<1>2. /\ accepted \in Seq(Jobs) /\ Len(accepted) \in Nat /\ Len(queue) <= Len(accepted)
      /\ Started \in 0..Len(accepted)
  BY <1>1 DEF InOrder, Started
<1>3. CASE stopped
  <2>1. pc' = [pc EXCEPT ![j] = "dropped"] /\ UNCHANGED <<queue, accepted>>
    BY <1>3 DEF Enqueue
  <2>2. "dropped" \notin InFlight
    BY DEF InFlight
  <2>3. InOrder(accepted, queue, pc') /\ OneAtATime(accepted, queue, pc')
    BY <1>1, <2>1, <2>2, MoveKeepsOrder
  <2> QED BY <1>2, <2>1, <2>3 DEF KeepsOrder, Started
<1>4. CASE ~stopped
  <2> DEFINE at == [pc EXCEPT ![j] = "queued"]
             q == Append(queue, j)
             taken == Append(accepted, j)
  <2>1. at \in [Jobs -> Points] /\ Drain(q, running, FALSE, at) /\ accepted' = taken
    BY <1>1, <1>4 DEF Enqueue, Points
  <2>2. Waits(q, at)
    BY <1>1, AppendedWaits
  <2>3. InOrder(taken, q, at) /\ OneAtATime(taken, q, at)
    BY <1>1, AppendKeepsOrder
  <2>4. Counts(running, at, InFlight)
    <3>1. pc[j] \notin InFlight /\ "queued" \notin InFlight
      BY <1>1 DEF InFlight
    <3> QED BY <1>1, <3>1, CountSame
  <2>5. /\ Len(q) = Len(queue) + 1 /\ Len(taken) = Len(accepted) + 1
        /\ \A a \in 1..Len(accepted) : taken[a] = accepted[a]
    BY <1>1, <1>2
  <2> HIDE DEF at, q, taken
  <2>6. /\ InOrder(taken, queue', pc') /\ OneAtATime(taken, queue', pc')
        /\ Len(queue') \in Nat /\ Len(queue') <= Len(q)
    BY <1>1, <2>1, <2>2, <2>3, <2>4, DrainKeepsOrder
  <2>7. Len(queue') <= Len(taken)
    BY <2>6 DEF InOrder
  <2>8. Started' = Len(taken) - Len(queue')
    BY <2>1 DEF Started
  <2>9. Started \in Nat /\ Started' \in Nat /\ Started <= Started'
    BY <1>1, <1>2, <2>5, <2>6, <2>7, <2>8 DEF Started
  <2>10. \A a \in 1..Started : accepted'[a] = accepted[a]
    BY <1>2, <2>1, <2>5
  <2> QED BY <2>1, <2>6, <2>9, <2>10 DEF KeepsOrder
<1> QED BY <1>3, <1>4

(* The other steps of the queue accept no job.                             *)
LEMMA DrainStepKeepsOrder ==
  ASSUME Concurrency = 1, UNCHANGED accepted,
         NEW busy \in {0, 1}, NEW isStopped, NEW at \in [Jobs -> Points],
         Waits(queue, at), Counts(busy, at, InFlight),
         InOrder(accepted, queue, at), OneAtATime(accepted, queue, at),
         \/ Drain(queue, busy, isStopped, at)
         \/ pc' = at /\ UNCHANGED queue
  PROVE  KeepsOrder
<1>1. /\ accepted \in Seq(Jobs) /\ Len(accepted) \in Nat
      /\ queue \in Seq(Jobs) /\ Len(queue) \in Nat /\ Len(queue) <= Len(accepted)
  BY DEF InOrder, Waits
<1>2. /\ InOrder(accepted, queue', pc') /\ OneAtATime(accepted, queue', pc')
      /\ Len(queue') \in Nat /\ Len(queue') <= Len(queue)
  <2>1. CASE Drain(queue, busy, isStopped, at)
    BY <2>1, DrainKeepsOrder
  <2>2. CASE pc' = at /\ UNCHANGED queue
    BY <1>1, <2>2
  <2> QED BY <2>1, <2>2
<1>3. Started \in Nat /\ Started' \in Nat /\ Started <= Started'
  <2>1. Started' = Len(accepted) - Len(queue')
    BY DEF Started
  <2> QED BY <1>1, <1>2, <2>1 DEF Started
<1> QED BY <1>2, <1>3 DEF KeepsOrder

LEMMA MoveToKeepsOrder ==
  ASSUME Concurrency = 1, ClientInv, QueueInv, OrderInv, NEW j \in Jobs, pc[j] \in InFlight,
         NEW next \in InFlight \cup Outcomes, MoveTo(j, next)
  PROVE  KeepsOrder
<1>1. /\ pc \in [Jobs -> Points] /\ Live /\ UNCHANGED accepted
      /\ Waits(queue, pc) /\ running \in {0, 1} /\ Counts(running, pc, InFlight)
      /\ InOrder(accepted, queue, pc) /\ OneAtATime(accepted, queue, pc)
  <2>1. pc \in [Jobs -> Points] /\ Live /\ UNCHANGED accepted
    BY DEF MoveTo, ClientInv, ClientTypeOK
  <2> QED BY <2>1 DEF QueueInv, SlotsInv, OrderInv
<1> DEFINE at == [pc EXCEPT ![j] = next]
<1>2. /\ at \in [Jobs -> Points] /\ next \notin {"unread", "dropped", "queued"}
      /\ pc[j] \notin {"unread", "dropped", "queued"}
  BY <1>1 DEF Points, InFlight, Outcomes, Failed
<1>3. InOrder(accepted, queue, at) /\ OneAtATime(accepted, queue, at)
  BY <1>1, <1>2, MoveKeepsOrder
<1>4. Waits(queue, at)
  <2>1. \A i \in Jobs : at[i] = "queued" <=> pc[i] = "queued"
    BY <1>1, <1>2
  <2> QED BY <1>1, <2>1 DEF Waits
<1>5. CASE Continue(j, next)
  <2>1. next \in InFlight /\ pc' = at /\ UNCHANGED queue
    BY <1>5 DEF Continue
  <2>2. Counts(running, at, InFlight)
    BY <1>1, <2>1, CountSame
  <2> HIDE DEF at
  <2> QED BY <1>1, <1>2, <1>3, <1>4, <2>1, <2>2, DrainStepKeepsOrder
<1>6. CASE Finish(j, next)
  <2>1. next \notin InFlight /\ Drain(queue, running - 1, stopped, at)
    BY <1>6 DEF Finish, InFlight, Outcomes, Failed
  <2>2. Counts(running - 1, at, InFlight)
    BY <1>1, <2>1, CountOut
  <2>3. running - 1 \in {0, 1}
    <3>1. running > 0
      BY <1>1, CountNat
    <3> QED BY <1>1, <3>1
  <2>4. PICK busy \in {0, 1} : busy = running - 1
    BY <2>3
  <2> HIDE DEF at
  <2>5. Drain(queue, busy, stopped, at) /\ Counts(busy, at, InFlight)
    BY <2>1, <2>2, <2>4
  <2> QED BY <1>1, <1>2, <1>3, <1>4, <2>5, DrainStepKeepsOrder
<1> QED BY <1>5, <1>6 DEF MoveTo

LEMMA OthersKeepOrder ==
  ASSUME Concurrency = 1, ClientInv, QueueInv, OrderInv,
         (\E j \in Jobs : ReadRejected(j)) \/ Stop \/ Resume \/ CloseInput \/ Exit
  PROVE  KeepsOrder
<1>1. /\ pc \in [Jobs -> Points] /\ UNCHANGED accepted /\ Waits(queue, pc)
      /\ InOrder(accepted, queue, pc) /\ OneAtATime(accepted, queue, pc)
  BY DEF ReadRejected, Stop, Resume, CloseInput, Exit, ClientInv, ClientTypeOK,
         QueueInv, SlotsInv, OrderInv
<1>2. CASE Resume
  <2>1. /\ Drain(queue, running, FALSE, pc)
        /\ running \in {0, 1} /\ Counts(running, pc, InFlight)
    <3>1. Live /\ Drain(queue, running, FALSE, pc)
      BY <1>2 DEF Resume
    <3>2. running \in {0, 1} /\ Counts(running, pc, InFlight)
      BY <3>1 DEF QueueInv, SlotsInv
    <3> QED BY <3>1, <3>2
  <2> QED BY <1>1, <2>1, DrainStepKeepsOrder
<1>3. /\ accepted \in Seq(Jobs) /\ Len(accepted) \in Nat
      /\ queue \in Seq(Jobs) /\ Len(queue) \in Nat /\ Len(queue) <= Len(accepted)
  BY <1>1 DEF InOrder, Waits
<1>4. ASSUME UNCHANGED queue, InOrder(accepted, queue, pc'), OneAtATime(accepted, queue, pc')
      PROVE  KeepsOrder
  BY <1>1, <1>3, <1>4 DEF KeepsOrder, Started
<1>5. ASSUME NEW j \in Jobs, ReadRejected(j)
      PROVE  KeepsOrder
  <2>1. /\ pc' = [pc EXCEPT ![j] = "lost"] /\ UNCHANGED queue
        /\ pc[j] \notin {"unread", "dropped"} /\ "lost" \notin InFlight
    BY <1>5 DEF ReadRejected, InFlight
  <2> QED BY <1>1, <1>4, <2>1, MoveKeepsOrder
<1>6. CASE Stop \/ CloseInput \/ Exit
  BY <1>1, <1>4, <1>6 DEF Stop, CloseInput, Exit
<1> QED BY <1>2, <1>5, <1>6

(* A callback of a job in flight sends one transaction at most.            *)
LEMMA AnswerSends ==
  ASSUME ClientInv, NEW j \in Jobs, Answer(j) \/ Disconnect(j)
  PROVE  /\ pc[j] \in InFlight /\ UNCHANGED trades
         /\ UNCHANGED mempool \/ (attempt[j] \in 1..MaxRetries /\ Broadcast(j))
         /\ \E next \in InFlight \cup Outcomes : MoveTo(j, next)
<1>1. CASE Validate(j) /\ MoveTo(j, AfterRead(j))
  BY <1>1 DEF Validate, Validating, AfterRead, InFlight, Outcomes, chainVars
<1>2. pc[j] = "send" => attempt[j] \in 1..MaxRetries
  BY DEF ClientInv, AttemptInv
<1>3. CASE Send(j) /\ MoveTo(j, "wait")
  BY <1>2, <1>3 DEF Send, InFlight
<1>4. CASE (SendFails(j) \/ WaitFails(j)) /\ MoveTo(j, AfterError(j))
  BY <1>2, <1>4 DEF SendFails, WaitFails, AfterError, InFlight, Outcomes, Failed
<1>5. CASE WaitReturns(j) /\ MoveTo(j, AfterReceipt(j))
  BY <1>5 DEF WaitReturns, AfterReceipt, InFlight, Outcomes, Failed
<1>6. CASE Wake(j) /\ MoveTo(j, "send")
  BY <1>6 DEF Wake, InFlight, chainVars
<1> QED BY <1>1, <1>3, <1>4, <1>5, <1>6 DEF Answer, Disconnect

LEMMA QueueKeepsOrderInv ==
  ASSUME Concurrency = 1, ClientInv, QueueInv, OrderInv,
         \/ \E j \in Jobs : Enqueue(j) \/ Answer(j) \/ Disconnect(j) \/ ReadRejected(j)
         \/ Stop \/ Resume \/ CloseInput \/ Exit
  PROVE  OrderInv'
<1>1. KeepsOrder
  BY AnswerSends, EnqueueKeepsOrder, MoveToKeepsOrder, OthersKeepOrder
<1>2. ChainOrderInv'
  <2>1. CASE \E j \in Jobs : Answer(j) \/ Disconnect(j)
    BY <1>1, <2>1, AnswerSends, QueueKeepsChainOrder DEF KeepsOrder
  <2>2. CASE \/ \E j \in Jobs : Enqueue(j) \/ ReadRejected(j)
             \/ Stop \/ Resume \/ CloseInput \/ Exit
    <3>1. UNCHANGED <<mempool, trades>>
      BY <2>2 DEF Enqueue, ReadRejected, Stop, Resume, CloseInput, Exit, chainVars
    <3> QED BY <1>1, <3>1, QueueKeepsChainOrder DEF KeepsOrder
  <2> QED BY <2>1, <2>2
<1> QED BY <1>1, <1>2 DEF OrderInv, KeepsOrder

(* The chain settles the oldest of the transactions that were sent.        *)
LEMMA ChainKeepsOrderInv ==
  ASSUME ClientInv, OrderInv, ChainStep, UNCHANGED queueVars
  PROVE  OrderInv'
<1>1. UNCHANGED <<accepted, queue, pc>>
  BY DEF ChainStep, Mine, Interfere, queueVars
<1>2. \A i, j : NotAfter(i, j)' <=> NotAfter(i, j)
  BY <1>1 DEF NotAfter, Started
<1>3. ChainOrderInv'
  <2>1. CASE Interfere
    <3>1. UNCHANGED mempool
      BY <2>1 DEF Interfere, OwnerOrClock, OtherSettles
    <3>2. CASE UNCHANGED trades
      BY <1>2, <3>1, <3>2 DEF OrderInv, ChainOrderInv
    <3>3. ASSUME NEW k \in Keys, Settle(k, Other)
          PROVE  ChainOrderInv'
      <4> PICK settled : settled = trades'
        OBVIOUS
      <4>1. /\ \A a \in 1..Len(trades) : settled[a] = trades[a]
            /\ settled[Len(trades) + 1] = [key |-> k, by |-> Other]
            /\ \A a \in 1..Len(settled) : a \in 1..Len(trades) \/ a = Len(trades) + 1
        BY <3>3, SettleAppends
      <4>2. \A a \in 1..Len(settled) : settled[a].by # Other
              => a \in 1..Len(trades) /\ settled[a] = trades[a]
        BY <4>1
      <4> QED BY <1>2, <3>1, <4>2 DEF OrderInv, ChainOrderInv
    <3> QED BY <2>1, <3>2, <3>3 DEF Interfere, OwnerOrClock, OtherSettles
  <2>2. CASE Mine
    <3>1. PICK tx : tx = Head(mempool)
      OBVIOUS
    <3> PICK left : left = mempool'
      OBVIOUS
    <3>2. /\ mempool # <<>> /\ left = Tail(mempool)
          /\ Settle(KeyOf[tx.job], tx.job) \/ UNCHANGED trades
          /\ mempool \in Seq(Txs) /\ Len(mempool) \in Nat
      BY <2>2, <3>1 DEF Mine, ClientInv, ClientTypeOK
    <3>3. /\ Len(mempool) > 0 /\ tx = mempool[1] /\ tx \in Txs /\ 1 \in 1..Len(mempool)
          /\ Len(left) = Len(mempool) - 1
          /\ \A a \in 1..Len(left) : left[a] = mempool[a + 1] /\ a + 1 \in 1..Len(mempool)
      BY <3>1, <3>2
    <3>4. tx.job \in Jobs /\ KeyOf[tx.job] \in Keys
      BY <3>3 DEF Txs
    <3>5. \A a, b \in 1..Len(left) : a <= b => NotAfter(left[a].job, left[b].job)
      BY <3>3 DEF OrderInv, ChainOrderInv
    <3>6. ASSUME NEW a \in 1..Len(trades), trades[a].by # Other
          PROVE  /\ NotAfter(trades[a].by, trades[a].by)
                 /\ NotAfter(trades[a].by, tx.job)
                 /\ \A b \in 1..Len(left) : NotAfter(trades[a].by, left[b].job)
                 /\ \A b \in 1..Len(trades) : a <= b /\ trades[b].by # Other
                      => NotAfter(trades[a].by, trades[b].by)
      BY <3>3, <3>6 DEF OrderInv, ChainOrderInv
    <3>7. CASE UNCHANGED trades
      BY <1>2, <3>5, <3>6, <3>7 DEF ChainOrderInv
    <3>8. CASE Settle(KeyOf[tx.job], tx.job)
      <4> PICK settled : settled = trades'
        OBVIOUS
      <4>1. /\ Len(trades) \in Nat
            /\ \A a \in 1..Len(trades) : settled[a] = trades[a]
            /\ settled[Len(trades) + 1] = [key |-> KeyOf[tx.job], by |-> tx.job]
            /\ \A a \in 1..Len(settled) : a \in 1..Len(trades) \/ a = Len(trades) + 1
        BY <3>4, <3>8, SettleAppends
      <4>2. settled[Len(trades) + 1].by = tx.job
        BY <4>1
      <4>3. /\ NotAfter(tx.job, tx.job)
            /\ \A b \in 1..Len(left) : NotAfter(tx.job, left[b].job)
        BY <3>3 DEF OrderInv, ChainOrderInv
      <4>4. ASSUME NEW a \in 1..Len(settled), settled[a].by # Other
            PROVE  /\ NotAfter(settled[a].by, settled[a].by)
                   /\ \A b \in 1..Len(left) : NotAfter(settled[a].by, left[b].job)
                   /\ \A b \in 1..Len(settled) : a <= b /\ settled[b].by # Other
                        => NotAfter(settled[a].by, settled[b].by)
        <5>1. CASE a \in 1..Len(trades)
          BY <3>6, <4>1, <4>2, <4>4, <5>1
        <5>2. CASE a = Len(trades) + 1
          <6>1. \A b \in 1..Len(settled) : a <= b => b = a
            BY <4>1, <5>2
          <6> QED BY <4>2, <4>3, <5>2, <6>1
        <5> QED BY <4>1, <5>1, <5>2
      <4> QED BY <1>2, <3>5, <4>4 DEF ChainOrderInv
    <3> QED BY <3>2, <3>7, <3>8
  <2> QED BY <2>1, <2>2 DEF ChainStep
<1> QED BY <1>1, <1>3 DEF OrderInv

LEMMA OrderInvInit == Init => OrderInv
<1> SUFFICES ASSUME Init PROVE OrderInv
  OBVIOUS
<1>1. /\ accepted = <<>> /\ queue = <<>> /\ mempool = <<>> /\ trades = <<>>
      /\ \A j \in Jobs : pc[j] = "unread"
  BY DEF Init, ClientInit
<1>2. InOrder(accepted, queue, pc)
  BY <1>1 DEF InOrder
<1>3. OneAtATime(accepted, queue, pc)
  BY <1>1 DEF OneAtATime, InFlight
<1>4. ChainOrderInv
  BY <1>1 DEF ChainOrderInv
<1> QED BY <1>2, <1>3, <1>4 DEF OrderInv

(* With one slot, as service.ts has it, trades settle in the order in      *)
(* which they were accepted, retries and lost answers included.  With more *)
(* than one it does not hold: a trade that is tried again falls behind.    *)
THEOREM OneSlotSettlesInOrder ==
  ASSUME Concurrency = 1
  PROVE  Spec => []SettlesInOrder
<1>1. ASSUME ClientInv, QueueInv, OrderInv, [Next]_vars
      PROVE  OrderInv'
  <2>1. CASE UNCHANGED vars
    BY <1>1, <2>1 DEF vars, chainVars, queueVars, OrderInv, ChainOrderInv, NotAfter, Started
  <2>2. CASE \/ \E j \in Jobs : Enqueue(j) \/ Answer(j) \/ Disconnect(j) \/ ReadRejected(j)
             \/ Stop \/ Resume \/ CloseInput \/ Exit
    BY <1>1, <2>2, QueueKeepsOrderInv
  <2>3. CASE ChainStep /\ UNCHANGED queueVars
    BY <1>1, <2>3, ChainKeepsOrderInv
  <2> QED BY <1>1, <2>1, <2>2, <2>3 DEF Next
<1>2. ASSUME ClientInv, QueueInv, OutcomeInv, OrderInv
      PROVE  SettlesInOrder
  <2>1. SUFFICES ASSUME NEW a \in 1..Len(trades), NEW b \in 1..Len(trades), a < b,
                        trades[a].by # Other, trades[b].by # Other
                 PROVE  Before(trades[a].by, trades[b].by)
    BY DEF SettlesInOrder
  <2>2. NotAfter(trades[a].by, trades[b].by)
    BY <1>2, <2>1 DEF OrderInv, ChainOrderInv
  <2>3. PICK x, y \in 1..Started :
          x <= y /\ accepted[x] = trades[a].by /\ accepted[y] = trades[b].by
    BY <2>2 DEF NotAfter
  <2>4. trades[a].by # trades[b].by
    <3>1. trades[a].key # trades[b].key
      BY <1>2, <2>1 DEF ClientInv, MarkInv, SettledOnce
    <3> QED BY <1>2, <2>1, <3>1 DEF OutcomeInv, SentInv
  <2>5. x < y
    BY <2>3, <2>4
  <2>6. x \in 1..Len(accepted) /\ y \in 1..Len(accepted)
    <3>1. Len(accepted) \in Nat /\ Len(queue) \in Nat
      BY <1>2 DEF QueueInv, FlagsInv, SlotsInv, Waits
    <3> QED BY <3>1 DEF Started
  <2> QED BY <2>3, <2>5, <2>6 DEF Before
<1> QED BY <1>1, <1>2, OrderInvInit, OutcomeInvariance, ClientInvariance, QueueInvariance,
           PTL DEF Spec

-----------------------------------------------------------------------------
(* The promise of TradeOutcomes.tla.                                       *)

(* Who has settled a trade is told by its one event, if there is one.      *)
SettlerTold ==
  \A k \in Keys :
    /\ \A a \in 1..Len(trades) : trades[a].key = k => Settler(k) = trades[a].by
    /\ (\A a \in 1..Len(trades) : trades[a].key # k) => Settler(k) = Nobody

LEMMA SettlerOfTrade == ClientInv => SettlerTold
<1> SUFFICES ASSUME ClientInv, NEW k \in Keys
             PROVE  /\ \A a \in 1..Len(trades) : trades[a].key = k => Settler(k) = trades[a].by
                    /\ (\A a \in 1..Len(trades) : trades[a].key # k) => Settler(k) = Nobody
  BY DEF SettlerTold
<1> DEFINE I == {a \in 1..Len(trades) : trades[a].key = k}
           i == IF I # {} THEN Min(I) ELSE 0
<1>1. Settler(k) = IF i = 0 THEN Nobody ELSE trades[i].by
  BY DEF Settler, SelectInSeq
<1>2. \A a \in I, b \in I : a = b
  BY DEF ClientInv, MarkInv, SettledOnce
<1>3. \A a \in I : a \in Nat \ {0}
  <2>1. Len(trades) \in Nat
    BY DEF ClientInv, ClientTypeOK
  <2> QED BY <2>1
<1>4. ASSUME NEW a \in I PROVE i = a
  <2>1. I = {a}
    BY <1>2
  <2>2. Min(I) = a
    BY <1>3, <2>1 DEF Min
  <2> QED BY <2>2
<1> HIDE DEF i
<1>5. ASSUME NEW a \in 1..Len(trades), trades[a].key = k PROVE Settler(k) = trades[a].by
  BY <1>1, <1>3, <1>4, <1>5
<1>6. ASSUME \A a \in 1..Len(trades) : trades[a].key # k PROVE Settler(k) = Nobody
  BY <1>1, <1>6 DEF i
<1> QED BY <1>5, <1>6

(* The events tell who has settled what.                                   *)
LEMMA SettlerMoves ==
  ASSUME ClientInv, ClientInv', NEW k \in Keys, NEW by \in Jobs \cup {Other}, Settle(k, by)
  PROVE  /\ Settler(k) = Nobody /\ Settler(k)' = by
         /\ \A l \in Keys \ {k} : Settler(l)' = Settler(l)
<1> PICK settled : settled = trades'
  OBVIOUS
<1>1. \A l \in Keys :
        /\ \A a \in 1..Len(settled) : settled[a].key = l => Settler(l)' = settled[a].by
        /\ (\A a \in 1..Len(settled) : settled[a].key # l) => Settler(l)' = Nobody
  <2>1. (ClientInv => SettlerTold)'
    BY SettlerOfTrade, PTL
  <2> QED BY <2>1 DEF SettlerTold
<1>2. /\ Len(trades) \in Nat /\ Len(settled) = Len(trades) + 1
      /\ \A a \in 1..Len(trades) : settled[a] = trades[a]
      /\ settled[Len(trades) + 1] = [key |-> k, by |-> by]
      /\ \A a \in 1..Len(settled) : a \in 1..Len(trades) \/ a = Len(trades) + 1
  BY SettleAppends
<1>3. settled[Len(trades) + 1].key = k /\ settled[Len(trades) + 1].by = by
  BY <1>2
<1>4. \A a \in 1..Len(trades) : trades[a].key # k
  BY DEF Settle, Executable, ClientInv, MarkInv
<1>5. Settler(k) = Nobody
  BY <1>4, SettlerOfTrade DEF SettlerTold
<1>6. Len(trades) + 1 \in 1..Len(settled) /\ \A a \in 1..Len(trades) : a \in 1..Len(settled)
  BY <1>2
<1>7. Settler(k)' = by
  BY <1>1, <1>3, <1>6
<1>8. ASSUME NEW l \in Keys \ {k} PROVE Settler(l)' = Settler(l)
  <2>1. CASE \E a \in 1..Len(trades) : trades[a].key = l
    BY <1>1, <1>2, <1>6, <2>1, SettlerOfTrade DEF SettlerTold
  <2>2. CASE \A a \in 1..Len(trades) : trades[a].key # l
    <3>1. \A a \in 1..Len(settled) : settled[a].key # l
      BY <1>2, <1>3, <2>2
    <3> QED BY <1>1, <2>2, <3>1, SettlerOfTrade DEF SettlerTold
  <2> QED BY <2>1, <2>2
<1> QED BY <1>5, <1>7, <1>8

(* What the service has said of a job, by its place.                       *)
LEMMA FateOfPlace ==
  ASSUME NEW j \in Jobs
  PROVE  /\ pc[j] \in {"queued", "lost"} \cup InFlight => Fate(j) = "accepted"
         /\ pc[j] \in Failed => Fate(j) = "failed"
         /\ pc[j] \in {"unread", "dropped", "submitted", "skipped"} => Fate(j) = pc[j]
         /\ pc'[j] \in {"queued", "lost"} \cup InFlight => Fate(j)' = "accepted"
         /\ pc'[j] \in Failed => Fate(j)' = "failed"
         /\ pc'[j] \in {"unread", "dropped", "submitted", "skipped"} => Fate(j)' = pc'[j]
BY DEF Fate, InFlight, Failed

LEMMA FateStays ==
  ASSUME NEW j \in Jobs, Stays(j, pc[j])
  PROVE  Fate(j)' = Fate(j)
<1>1. CASE pc'[j] = pc[j]
  BY <1>1 DEF Fate
<1>2. CASE pc[j] = "queued" /\ pc'[j] \in {"expired", "readNonce"}
  BY <1>2, FateOfPlace DEF InFlight
<1> QED BY <1>1, <1>2 DEF Stays

LEMMA SettlerStays ==
  ASSUME UNCHANGED trades
  PROVE  \A k \in Keys : Settler(k)' = Settler(k)
BY DEF Settler, SelectInSeq

(* A step that says nothing of any trade.                                  *)
LEMMA PromiseStutters ==
  ASSUME \A j \in Jobs : Fate(j)' = Fate(j), UNCHANGED trades
  PROVE  UNCHANGED Promise!vars
<1>1. \A k \in Keys : Settler(k)' = Settler(k)
  BY SettlerStays
<1> QED BY <1>1 DEF Promise!vars

LEMMA PromiseInit == Init => Promise!Init
<1> SUFFICES ASSUME Init PROVE Promise!Init
  OBVIOUS
<1>1. \A j \in Jobs : Fate(j) = "unread"
  <2>1. \A j \in Jobs : pc[j] = "unread"
    BY DEF Init, ClientInit
  <2> QED BY <2>1, FateOfPlace
<1>2. \A k \in Keys : Settler(k) = Nobody
  <2>1. trades = <<>> /\ Len(trades) = 0
    BY DEF Init, ClientInit
  <2> QED BY <2>1, ClientInvInit, SettlerOfTrade DEF SettlerTold
<1> QED BY <1>1, <1>2 DEF Promise!Init

(* A trade is dropped at once or accepted.                                 *)
LEMMA EnqueueTakes ==
  ASSUME ClientInv, QueueInv, NEW j \in Jobs, Enqueue(j)
  PROVE  Promise!Next
<1>1. /\ pc[j] = "unread" /\ pc'[j] \in {"dropped", "queued", "expired", "readNonce"}
      /\ \A i \in Jobs \ {j} : Stays(i, pc[i])
  BY EnqueueMoves
<1>2. /\ Fate(j) = "unread" /\ Fate(j)' \in {"dropped", "accepted"}
      /\ \A i \in Jobs \ {j} : Fate(i)' = Fate(i)
  BY <1>1, FateOfPlace, FateStays DEF InFlight
<1>3. \A k \in Keys : Settler(k)' = Settler(k)
  BY SettlerStays DEF Enqueue, chainVars
<1>4. PICK to \in {"dropped", "accepted"} : Fate(j)' = to
  BY <1>2
<1>5. Promise!Take(j, to)
  BY <1>2, <1>3, <1>4 DEF Promise!Take
<1> QED BY <1>5 DEF Promise!Next

(* A trade that ends is reported, and what is said of it is true.          *)
LEMMA AnswerReports ==
  ASSUME ClientInv, QueueInv, OutcomeInv, OutcomeInv', NEW j \in Jobs, pc[j] \in InFlight,
         NEW next \in InFlight \cup Outcomes, MoveTo(j, next), UNCHANGED trades
  PROVE  [Promise!Next]_(Promise!vars)
<1>1. pc'[j] = next /\ \A i \in Jobs \ {j} : Stays(i, pc[i])
  BY MoveToMoves
<1>2. Fate(j) = "accepted" /\ \A i \in Jobs \ {j} : Fate(i)' = Fate(i)
  BY <1>1, FateOfPlace, FateStays
<1>3. CASE next \in InFlight
  BY <1>1, <1>2, <1>3, FateOfPlace, PromiseStutters
<1>4. CASE next \in Outcomes
  <2>1. \A k \in Keys : Settler(k)' = Settler(k)
    BY SettlerStays
  <2>2. KeyOf[j] \in Keys /\ j # Other /\ j # Nobody
    BY NobodyAssumption
  <2>3. next = "submitted" => Settler(KeyOf[j]) = j
    <3>1. SUFFICES ASSUME next = "submitted" PROVE Settler(KeyOf[j]) = j
      OBVIOUS
    <3>2. SettledBy(j)
      <4>1. SettledBy(j)'
        BY <1>1, <3>1 DEF OutcomeInv, JobInv
      <4> QED BY <4>1 DEF SettledBy
    <3>3. PICK a \in 1..Len(trades) : trades[a].by = j
      BY <3>2 DEF SettledBy
    <3>4. trades[a].key = KeyOf[j]
      BY <2>2, <3>3 DEF OutcomeInv, SentInv
    <3> QED BY <2>2, <3>3, <3>4, SettlerOfTrade DEF SettlerTold
  <2>4. next = "skipped" => Settler(KeyOf[j]) # j
    <3>1. SUFFICES ASSUME next = "skipped" PROVE Settler(KeyOf[j]) # j
      OBVIOUS
    <3>2. ~SettledBy(j)
      <4>1. ~SettledBy(j)'
        BY <1>1, <3>1 DEF OutcomeInv, JobInv, NotSent, Clear
      <4> QED BY <4>1 DEF SettledBy
    <3> QED BY <2>2, <3>2, SettlerOfTrade DEF SettlerTold, SettledBy
  <2>5. PICK outcome \in {"submitted", "skipped", "failed"} :
          /\ Fate(j)' = outcome
          /\ outcome = "submitted" => Settler(KeyOf[j]) = j
          /\ outcome = "skipped" => Settler(KeyOf[j]) # j
    BY <1>1, <1>4, <2>3, <2>4, FateOfPlace DEF Outcomes
  <2>6. Promise!Report(j, outcome)
    BY <1>2, <2>1, <2>2, <2>5 DEF Promise!Report
  <2> QED BY <2>6 DEF Promise!Next
<1> QED BY <1>3, <1>4

(* The chain settles a trade that nobody has settled before, and for the   *)
(* service only one that it was given and has not reported otherwise.      *)
LEMMA ChainSettles ==
  ASSUME ClientInv, ClientInv', OutcomeInv, ChainStep
  PROVE  [Promise!Next]_(Promise!vars)
<1>1. \A j \in Jobs : Fate(j)' = Fate(j)
  BY DEF ChainStep, Mine, Interfere, Fate
<1>2. CASE UNCHANGED trades
  BY <1>1, <1>2, PromiseStutters
<1>3. ASSUME NEW k \in Keys, NEW by \in Jobs \cup {Other}, Settle(k, by),
             by # Other => KeyOf[by] = k /\ Fate(by) \in {"accepted", "failed"}
      PROVE  Promise!Next
  <2>1. /\ Settler(k) = Nobody /\ Settler(k)' = by
        /\ \A l \in Keys \ {k} : Settler(l)' = Settler(l)
    BY <1>3, SettlerMoves
  <2>2. Promise!Settle(k, by)
    BY <1>1, <1>3, <2>1 DEF Promise!Settle
  <2> QED BY <2>2 DEF Promise!Next
<1>4. CASE Interfere
  BY <1>2, <1>3, <1>4 DEF Interfere, OwnerOrClock, OtherSettles
<1>5. CASE Mine
  <2>1. PICK tx : tx = Head(mempool)
    OBVIOUS
  <2>2. /\ mempool # <<>> /\ mempool \in Seq(Txs)
        /\ Settle(KeyOf[tx.job], tx.job) \/ UNCHANGED trades
    BY <1>5, <2>1 DEF Mine, ClientInv, ClientTypeOK
  <2>3. tx \in Txs /\ 1 \in 1..Len(mempool) /\ tx = mempool[1]
    BY <2>1, <2>2
  <2>4. /\ tx.job \in Jobs /\ KeyOf[tx.job] \in Keys
        /\ tx.attempt \in 1..MaxRetries /\ tx.attempt <= attempt[tx.job]
    BY <2>3 DEF Txs, OutcomeInv, SentInv
  <2>5. PICK j \in Jobs : j = tx.job
    BY <2>4
  <2>6. attempt[j] # 0 /\ j # Other
    BY <2>4, <2>5
  <2>7. ASSUME Settle(KeyOf[j], j) PROVE Fate(j) \in {"accepted", "failed"}
    <3>1. pc[j] \in Points \ NotSent
      BY <2>6 DEF OutcomeInv, JobInv, ClientInv, ClientTypeOK
    <3>2. pc[j] # "submitted"
      <4>1. SUFFICES ASSUME pc[j] = "submitted" PROVE FALSE
        OBVIOUS
      <4>2. PICK a \in 1..Len(trades) : trades[a].by = j
        BY <4>1 DEF OutcomeInv, JobInv, SettledBy
      <4>3. trades[a].key = KeyOf[j]
        BY <2>6, <4>2 DEF OutcomeInv, SentInv
      <4>4. KeyOf[j] \in usedNonces
        BY <4>3 DEF ClientInv, MarkInv
      <4> QED BY <2>7, <4>4 DEF Settle, Executable
    <3>3. pc[j] \in InFlight \cup Failed
      BY <3>1, <3>2 DEF Points, NotSent, Outcomes
    <3> QED BY <3>3, FateOfPlace
  <2> QED BY <1>2, <1>3, <2>2, <2>4, <2>5, <2>6, <2>7
<1> QED BY <1>4, <1>5 DEF ChainStep

LEMMA PromiseNext ==
  ASSUME ClientInv, ClientInv', QueueInv, OutcomeInv, OutcomeInv', [Next]_vars
  PROVE  [Promise!Next]_(Promise!vars)
<1>1. CASE UNCHANGED vars
  <2>1. UNCHANGED trades /\ \A j \in Jobs : Fate(j)' = Fate(j)
    BY <1>1 DEF vars, chainVars, Fate
  <2> QED BY <2>1, PromiseStutters
<1>2. CASE \E j \in Jobs : Enqueue(j)
  BY <1>2, EnqueueTakes
<1>3. ASSUME NEW j \in Jobs, Answer(j) \/ Disconnect(j)
      PROVE  [Promise!Next]_(Promise!vars)
  <2>1. pc[j] \in InFlight /\ UNCHANGED trades /\ \E next \in InFlight \cup Outcomes : MoveTo(j, next)
    BY <1>3, AnswerSends
  <2> QED BY <2>1, AnswerReports
<1>4. CASE (\E j \in Jobs : ReadRejected(j)) \/ Stop \/ Resume \/ CloseInput \/ Exit
  <2>1. UNCHANGED trades
    BY <1>4 DEF ReadRejected, Stop, Resume, CloseInput, Exit, chainVars
  <2>2. ASSUME NEW i \in Jobs PROVE Fate(i)' = Fate(i)
    <3>1. CASE Stays(i, pc[i])
      BY <3>1, FateStays
    <3>2. CASE pc[i] \in {"readNonce", "readTEE", "readPair"} /\ pc'[i] = "lost"
      BY <3>2, FateOfPlace DEF InFlight
    <3> QED BY <1>4, <3>1, <3>2, ServiceMoves
  <2> QED BY <2>1, <2>2, PromiseStutters
<1>5. CASE ChainStep
  BY <1>5, ChainSettles
<1> QED BY <1>1, <1>2, <1>3, <1>4, <1>5 DEF Next

(* The service keeps its promise: whatever the connection, the retries,    *)
(* the chain and others do, every behaviour of the queue is one of         *)
(* TradeOutcomes.tla.                                                      *)
THEOREM PromiseKept == Spec => ImplementsPromise
<1>1. ClientInv /\ ClientInv' /\ QueueInv /\ OutcomeInv /\ OutcomeInv' /\ [Next]_vars
        => [Promise!Next]_(Promise!vars)
  BY PromiseNext
<1> QED BY <1>1, PromiseInit, OutcomeInvariance, ClientInvariance, QueueInvariance,
           PTL DEF Spec, ImplementsPromise, Promise!Spec

=============================================================================
