---------------------------- MODULE TradeQueue ----------------------------
(***************************************************************************)
(* packages/settlement/src/queue.ts and the part of service.ts that feeds  *)
(* it and ends it, over the client of VaultClient.tla.                     *)
(*                                                                         *)
(* JavaScript runs one callback at a time: each action is one callback     *)
(* with the synchronous code it leads to.  Where a callback ends a job,    *)
(* the outcome, the count of running jobs and the drain that starts the    *)
(* next ones are one step.                                                 *)
(***************************************************************************)
EXTENDS VaultClient, FiniteSets, SequencesExt

CONSTANT Concurrency

ASSUME QueueAssumption == Concurrency \in Nat \ {0}

VARIABLES
  queue,     \* jobs waiting, oldest first
  running,   \* count of jobs in flight
  stopped,
  stats,     \* pending, submitted, failed
  service,   \* "open", "closing" (input has ended), "done" (5 s later), "exited"
  accepted   \* the jobs enqueue has taken, in order

queueVars == <<queue, running, stopped, stats, service, accepted>>
vars == <<pc, attempt, chainVars, queueVars>>

(* Types; the counts of running and waiting jobs never leave their range,  *)
(* whatever the callbacks of _drain do (queue.ts).                         *)
TypeOK ==
  /\ ClientTypeOK
  /\ queue \in Seq(Jobs)
  /\ running \in 0..Concurrency
  /\ stopped \in BOOLEAN
  /\ stats \in [pending : Nat, submitted : Nat, failed : Nat]
  /\ service \in {"open", "closing", "done", "exited"}
  /\ accepted \in Seq(Jobs)

Live == service \in {"open", "closing"}

Init ==
  /\ ClientInit
  /\ queue = <<>>
  /\ running = 0
  /\ stopped = FALSE
  /\ stats = [pending |-> 0, submitted |-> 0, failed |-> 0]
  /\ service = "open"
  /\ accepted = <<>>

-----------------------------------------------------------------------------
(* _drain: how many of the jobs q start when `busy` are running.           *)

Min2(a, b) == IF a < b THEN a ELSE b

(* Mutant of Slots: the bound on the running jobs is forgotten.            *)
SlotsUnbounded(q, busy, isStopped) ==
  IF isStopped THEN 0 ELSE Len(q)

Slots(q, busy, isStopped) ==
  IF isStopped THEN 0 ELSE Min2(Len(q), Concurrency - busy)

Firsts(q, n) == {q[i] : i \in 1..n}

(* Mutant of Drain: pop for shift.                                         *)
DrainNewestFirst(q, busy, isStopped, at) ==
  LET n == Slots(q, busy, isStopped)
      left == Len(q) - n IN
  /\ queue' = SubSeq(q, 1, left)
  /\ running' = busy + n
  /\ pc' = [i \in Jobs |-> IF i \in {q[x] : x \in (left + 1)..Len(q)}
                           THEN Begin(i) ELSE at[i]]

(* The queue drained, when the jobs not started are at the points `at`.    *)
Drain(q, busy, isStopped, at) ==
  LET n == Slots(q, busy, isStopped) IN
  /\ queue' = SubSeq(q, n + 1, Len(q))
  /\ running' = busy + n
  /\ pc' = [i \in Jobs |-> IF i \in Firsts(q, n) THEN Begin(i) ELSE at[i]]

(* The line handler of service.ts has refused an expired trade before.     *)
Enqueue(j) ==
  /\ service = "open"
  /\ pc[j] = "unread"
  /\ KeyOf[j] \notin expired
  /\ IF stopped
     THEN /\ pc' = [pc EXCEPT ![j] = "dropped"]
          /\ UNCHANGED <<queue, running, stats, accepted>>
     ELSE /\ Drain(Append(queue, j), running, FALSE, [pc EXCEPT ![j] = "queued"])
          /\ stats' = [stats EXCEPT !.pending = @ + 1 - (running' - running)]
          /\ accepted' = Append(accepted, j)
  /\ UNCHANGED <<attempt, chainVars, stopped, service>>

Stop ==
  /\ Live
  /\ stopped' = TRUE
  /\ UNCHANGED <<pc, attempt, chainVars, queue, running, stats, service, accepted>>

(* Mutant of Resume: the jobs that were waiting wait on.                   *)
ResumeWithoutDrain ==
  /\ Live
  /\ stopped' = FALSE
  /\ UNCHANGED <<pc, attempt, chainVars, queue, running, stats, service, accepted>>

Resume ==
  /\ Live
  /\ stopped' = FALSE
  /\ Drain(queue, running, FALSE, pc)
  /\ stats' = [stats EXCEPT !.pending = @ - (running' - running)]
  /\ UNCHANGED <<attempt, chainVars, service, accepted>>

-----------------------------------------------------------------------------
(* _process and the finally callback of _drain.                            *)

(* Mutant of Count: a trade that ran out of attempts is not counted.       *)
CountRevertsOnly(outcome) ==
  [stats EXCEPT !.pending = @ - (running' - (running - 1)),
                !.submitted = @ + (IF outcome = "submitted" THEN 1 ELSE 0),
                !.failed = @ + (IF outcome = "reverted" THEN 1 ELSE 0)]

Count(outcome) ==
  [stats EXCEPT !.pending = @ - (running' - (running - 1)),
                !.submitted = @ + (IF outcome = "submitted" THEN 1 ELSE 0),
                !.failed = @ + (IF outcome \in Failed THEN 1 ELSE 0)]

Continue(j, next) ==
  /\ next \notin Outcomes
  /\ pc' = [pc EXCEPT ![j] = next]
  /\ UNCHANGED <<queue, running, stats>>

(* Mutant of Finish: a finished job does not drain the queue.              *)
FinishWithoutDrain(j, outcome) ==
  /\ outcome \in Outcomes
  /\ running' = running - 1
  /\ pc' = [pc EXCEPT ![j] = outcome]
  /\ stats' = Count(outcome)
  /\ UNCHANGED queue

Finish(j, outcome) ==
  /\ outcome \in Outcomes
  /\ Drain(queue, running - 1, stopped, [pc EXCEPT ![j] = outcome])
  /\ stats' = Count(outcome)

MoveTo(j, next) ==
  /\ Live
  /\ Continue(j, next) \/ Finish(j, next)
  /\ UNCHANGED <<stopped, service, accepted>>

Answer(j) ==
  \/ Validate(j) /\ MoveTo(j, AfterRead(j))
  \/ Send(j) /\ MoveTo(j, "wait")
  \/ SendFails(j) /\ MoveTo(j, AfterError(j))
  \/ WaitReturns(j) /\ MoveTo(j, AfterReceipt(j))
  \/ Wake(j) /\ MoveTo(j, "send")

Disconnect(j) == WaitFails(j) /\ MoveTo(j, AfterError(j))

(* A read of validateTrade is rejected.  It is awaited outside the try, so *)
(* nothing is emitted and the rejection ends the process.                  *)
ReadRejected(j) ==
  /\ Live
  /\ pc[j] \in {"readNonce", "readTEE", "readPair"}
  /\ pc' = [pc EXCEPT ![j] = "lost"]
  /\ service' = "exited"
  /\ UNCHANGED <<attempt, chainVars, queue, running, stopped, stats, accepted>>

-----------------------------------------------------------------------------
(* The process: its input ends, and 5 s later it exits; or SIGINT.         *)

CloseInput ==
  /\ service = "open"
  /\ service' = "closing"
  /\ UNCHANGED <<pc, attempt, chainVars, queue, running, stopped, stats, accepted>>

Exit ==
  /\ \/ service = "closing" /\ service' = "done"
     \/ Live /\ service' = "exited"
  /\ UNCHANGED <<pc, attempt, chainVars, queue, running, stopped, stats, accepted>>

Next ==
  \/ \E j \in Jobs : Enqueue(j) \/ Answer(j) \/ Disconnect(j) \/ ReadRejected(j)
  \/ Stop
  \/ Resume
  \/ CloseInput
  \/ Exit
  \/ ChainStep /\ UNCHANGED queueVars

Spec == Init /\ [][Next]_vars

(* An event loop runs every callback that is ready: requests end with an   *)
(* answer or an error, timers fire.  tx.wait has no timeout and returns    *)
(* once the chain has mined the transaction, which chains do.              *)
Fairness ==
  /\ \A j \in Jobs : WF_vars(Answer(j))
  /\ WF_vars(Mine /\ UNCHANGED queueVars)

FairSpec == Spec /\ Fairness

-----------------------------------------------------------------------------
(* Properties.                                                             *)

InProgress == {j \in Jobs : pc[j] \in InFlight}
HasEnded(outcomes) == {j \in Jobs : pc[j] \in outcomes}

(* _drain is entered from every enqueue, resume and finished job; between  *)
(* callbacks no slot is idle while a trade waits, and never more than      *)
(* `concurrency` trades are in flight (queue.ts, _drain).                  *)
SlotsInUse ==
  Live => /\ running = Cardinality(InProgress)
          /\ running <= Concurrency
          /\ ~stopped => queue = <<>> \/ running = Concurrency

(* What getStats reports is what became of the trades, each counted once,  *)
(* and the jobs that wait are those of the queue (queue.ts, stats).        *)
StatsAddUp ==
  /\ stats.pending = Cardinality(HasEnded({"queued"}))
  /\ {queue[i] : i \in 1..Len(queue)} = HasEnded({"queued"})
  /\ stats.submitted = Cardinality(HasEnded({"submitted"}))
  /\ stats.failed = Cardinality(HasEnded(Failed))

SettledBy(j) == \E a \in 1..Len(trades) : trades[a].by = j

(* "Don't retry on contract revert errors" (vault-client.ts:46) is sound   *)
(* as far as the first attempt goes: a trade whose first transaction has   *)
(* reverted was not settled by it and has none left that could.            *)
FirstRevertIsFinal ==
  \A j \in Jobs : pc[j] = "reverted" /\ attempt[j] = 1
    => /\ ~SettledBy(j)
       /\ \A a \in 1..Len(mempool) : mempool[a].job # j

(* The service keeps the promise of TradeOutcomes.tla.                     *)
Fate(j) == CASE pc[j] \in {"queued", "lost"} \cup InFlight -> "accepted"
             [] pc[j] \in Failed -> "failed"
             [] OTHER -> pc[j]

Nobody == "nobody"
ASSUME NobodyAssumption == Nobody \notin Jobs

Settler(k) == LET i == SelectInSeq(trades, LAMBDA t : t.key = k)
              IN IF i = 0 THEN Nobody ELSE trades[i].by

Promise == INSTANCE TradeOutcomes WITH
  fate <- [j \in Jobs |-> Fate(j)],
  settler <- [k \in Keys |-> Settler(k)]

ImplementsPromise == Promise!Spec

(* With one trade in flight at a time, as service.ts has it, trades settle *)
(* in the order in which they were accepted, retries included.             *)
Before(i, j) == \E a, b \in 1..Len(accepted) :
                  a < b /\ accepted[a] = i /\ accepted[b] = j

SettlesInOrder ==
  \A a, b \in 1..Len(trades) :
    a < b /\ trades[a].by # Other /\ trades[b].by # Other
      => Before(trades[a].by, trades[b].by)

(* A trade that was accepted, whether it waits or started at once, gets    *)
(* its outcome, unless the process ends or the queue is stopped and not    *)
(* resumed (queue.ts, enqueue, _drain, _process).                          *)
EveryTradeIsReported ==
  ([]<>~stopped) =>
    \A j \in Jobs : pc[j] \in {"queued"} \cup InFlight ~> pc[j] \in Outcomes \/ ~Live

(* "Trade failed" (queue.ts:109): a trade reported as failed because its   *)
(* transaction reverted was not settled by the service.                    *)
FailedMeansNotSettled == \A j \in Jobs : pc[j] = "reverted" => ~SettledBy(j)

(* "Give the queue time to finish submitting" (service.ts:131): the        *)
(* process that exits after the end of its input has finished.             *)
DoneMeansDrained ==
  service = "done" => queue = <<>> /\ InProgress = {}
=============================================================================
