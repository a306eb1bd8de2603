-------------------------- MODULE AgentLoopProofs --------------------------
(***************************************************************************)
(* Proofs about AgentLoop.tla: the types, one transaction pending at most, *)
(* settlement in the order of signing, nonces that repeat only across      *)
(* restarts, a price that is not older than the book it is read with, and  *)
(* the one gap of the monitor's history, for any pairs, updates, trades    *)
(* and restarts.                                                           *)
(***************************************************************************)
EXTENDS AgentLoop, FiniteSetTheorems, SequenceTheorems, TLAPS

Signed == [life : Nat, nonce : Nat]
Positive == Nat \ {0}

USE RunnerAssumption, StreamAssumption DEF Positive

RunnerTypes ==
  /\ pc \in {"idle", "book", "price", "process", "count", "send", "receipt"}
  /\ nonce \in Nat /\ life \in Nat /\ slot \in Nat
  /\ signed \in Seq(Signed)
  /\ todo \in Seq(Nat)
  /\ mempool \subseteq [slot : Nat, trade : Positive]
  /\ reverted \subseteq Nat /\ IsFiniteSet(reverted)
  /\ log \in Seq(Positive)

(* A life takes its nonces in ascending order.                             *)
NoncesRise ==
  /\ \A t \in 1..Len(signed) :
       /\ signed[t].life <= life
       /\ signed[t].life = life => signed[t].nonce < nonce
  /\ \A s, t \in 1..Len(signed) :
       s # t /\ signed[s].life = signed[t].life => signed[s].nonce # signed[t].nonce

(* What is to do are the last trades signed, in order.                     *)
InOrder ==
  /\ Len(todo) <= Len(signed)
  /\ \A i \in 1..Len(todo) : todo[i] = Len(signed) - Len(todo) + i
  /\ pc \in {"count", "send", "receipt"} <=> Len(todo) > 0

(* The trades sent or given up are those up to this one.                   *)
Done == Len(signed) - Len(todo) + (IF pc = "receipt" THEN 1 ELSE 0)

(* The one transaction that may be pending has the next slot and a trade   *)
(* later than all that have been mined.                                    *)
PendingLast ==
  /\ \A m, n \in mempool : m = n
  /\ \A m \in mempool :
       /\ m.slot = Mined /\ m.trade <= Done
       /\ \A t \in reverted : t < m.trade
       /\ \A i \in 1..Len(log) : log[i] < m.trade
  /\ \A t \in reverted : t <= Done
  /\ \A i \in 1..Len(log) : log[i] <= Done
  /\ pc = "send" => slot <= Mined

LogRises == \A i, j \in 1..Len(log) : i < j => log[i] < log[j]

(* The inductive invariant of the runner.                                  *)
RunnerInv == RunnerTypes /\ NoncesRise /\ InOrder /\ PendingLast /\ LogRises

-----------------------------------------------------------------------------
(* Sequences that shrink and grow. *)

LEMMA TailFacts ==
  ASSUME NEW s \in Seq(Nat), Len(s) > 0
  PROVE  /\ Head(s) = s[1] /\ Head(s) \in Nat
         /\ Tail(s) \in Seq(Nat) /\ Len(Tail(s)) = Len(s) - 1
         /\ \A i \in 1..Len(s) - 1 : Tail(s)[i] = s[i + 1]
         /\ Tail(s) = <<>> <=> Len(s) = 1
  <1>1. s # <<>> /\ Len(s) \in Nat
    BY EmptySeq, LenProperties
  <1>2. /\ Head(s) \in Nat
        /\ Tail(s) \in Seq(Nat) /\ Len(Tail(s)) = Len(s) - 1
        /\ \A i \in 1..Len(s) - 1 : Tail(s)[i] = s[i + 1]
    BY <1>1, HeadTailProperties
  <1>3. Tail(s) = <<>> <=> Len(Tail(s)) = 0
    BY <1>2, EmptySeq
  <1>4. Tail(s) = <<>> <=> Len(s) = 1
    <2>1. Len(Tail(s)) = Len(s) - 1
      BY <1>2
    <2>2. Len(s) - 1 = 0 <=> Len(s) = 1
      BY <1>1
    <2>3. QED
      BY <1>3, <2>1, <2>2
  <1>5. Head(s) = s[1]
    OBVIOUS
  <1>6. QED
    BY <1>2, <1>4, <1>5

-----------------------------------------------------------------------------
(* The start. *)

LEMMA RunnerStarts == ASSUME RunnerInit PROVE RunnerInv
  <1>1. IsFiniteSet({}) /\ Cardinality({}) = 0
    BY FS_EmptySet
  <1>2. RunnerTypes
    BY <1>1 DEF RunnerInit, RunnerTypes
  <1>3. NoncesRise /\ InOrder /\ LogRises
    BY DEF RunnerInit, NoncesRise, InOrder, LogRises
  <1>4. PendingLast
    BY <1>1 DEF RunnerInit, PendingLast, Mined
  <1>5. QED
    BY <1>2, <1>3, <1>4 DEF RunnerInv

LEMMA MinedType == ASSUME RunnerTypes PROVE Mined \in Nat
  BY FS_CardinalityType DEF RunnerTypes, Mined

(* Steps that touch nothing but the tick.                                  *)
LEMMA Quiet ==
  ASSUME RunnerInv, UNCHANGED <<agentVars, life, todo, accountVars>>,
         pc' \in {"idle", "book", "price", "process", "count", "send", "receipt"},
         slot' \in Nat,
         pc' \in {"count", "send", "receipt"} <=> pc \in {"count", "send", "receipt"},
         pc' = "receipt" <=> pc = "receipt",
         pc' = "send" => slot' <= Mined
  PROVE  RunnerInv'
  <1>. USE DEF RunnerInv, agentVars, accountVars
  <1>1. Mined' = Mined /\ Done' = Done
    BY DEF Mined, Done
  <1>2. RunnerTypes'
    BY DEF RunnerTypes
  <1>3. NoncesRise' /\ LogRises'
    BY DEF NoncesRise, LogRises
  <1>4. InOrder'
    BY DEF InOrder
  <1>5. PendingLast'
    BY <1>1 DEF PendingLast
  <1>6. QED
    BY <1>2, <1>3, <1>4, <1>5

(* The next trade is the one signed after this one.                        *)
LEMMA NextInOrder ==
  ASSUME RunnerTypes, InOrder, Len(todo) > 0, NextTrade, UNCHANGED signed
  PROVE  /\ InOrder'
         /\ todo' \in Seq(Nat) /\ Len(todo') = Len(todo) - 1
         /\ pc' \in {"idle", "count"}
  <1>1. Len(todo) \in Nat /\ Len(signed) \in Nat /\ todo \in Seq(Nat)
    BY LenProperties DEF RunnerTypes
  <1>2. /\ todo' \in Seq(Nat) /\ Len(todo') = Len(todo) - 1
        /\ \A i \in 1..Len(todo) - 1 : todo'[i] = todo[i + 1]
        /\ pc' = IF Len(todo) = 1 THEN "idle" ELSE "count"
    BY <1>1, TailFacts DEF NextTrade
  <1>3. ASSUME NEW i \in 1..Len(todo')
        PROVE  todo'[i] = Len(signed) - Len(todo') + i
    <2>1. i \in 1..Len(todo) - 1 /\ i + 1 \in 1..Len(todo) /\ i \in Int
      BY <1>1, <1>2, <1>3
    <2>2. todo[i + 1] = Len(signed) - Len(todo) + (i + 1)
      BY <2>1 DEF InOrder
    <2>3. QED
      BY <2>1, <2>2, <1>1, <1>2
  <1>4. pc' \in {"count", "send", "receipt"} <=> Len(todo') > 0
    <2>1. CASE Len(todo) = 1
      BY <1>2, <2>1
    <2>2. CASE Len(todo) # 1
      BY <1>1, <1>2, <2>2
    <2>3. QED
      BY <2>1, <2>2
  <1>5. Len(todo') <= Len(signed)
    BY <1>1, <1>2 DEF InOrder
  <1>6. QED
    BY <1>2, <1>3, <1>4, <1>5 DEF InOrder

(* The current trade is done with.                                         *)
LEMMA NextTradeKeeps ==
  ASSUME RunnerInv, NextTrade, pc \in {"count", "receipt", "send"},
         UNCHANGED <<agentVars, life, accountVars>>, slot' \in Nat
  PROVE  RunnerInv'
  <1>. USE DEF RunnerInv, agentVars, accountVars
  <1>1. Len(todo) > 0 /\ Len(todo) \in Nat /\ todo \in Seq(Nat)
    BY LenProperties DEF InOrder, RunnerTypes
  <1>2. Mined' = Mined
    BY DEF Mined
  <1>3. /\ InOrder'
        /\ todo' \in Seq(Nat) /\ Len(todo') = Len(todo) - 1
        /\ pc' \in {"idle", "count"}
    BY <1>1, NextInOrder
  <1>4. RunnerTypes'
    BY <1>3 DEF RunnerTypes
  <1>5. NoncesRise' /\ LogRises'
    BY DEF NoncesRise, LogRises
  <1>6. Done' \in Int /\ Done \in Int /\ Done <= Done' /\ pc' # "send"
    BY <1>1, <1>3 DEF Done, RunnerTypes
  <1>7. PendingLast'
    <2>1. \A t \in reverted : t \in Nat /\ t <= Done
      BY DEF PendingLast, RunnerTypes
    <2>2. \A i \in 1..Len(log) : log[i] \in Nat /\ log[i] <= Done
      BY ElementOfSeq DEF PendingLast, RunnerTypes
    <2>3. \A m \in mempool : m.trade \in Nat /\ m.trade <= Done
      BY DEF PendingLast, RunnerTypes
    <2>4. \A k \in Nat : k <= Done => k <= Done'
      BY <1>6
    <2>. HIDE DEF Done
    <2>5. QED
      BY <1>2, <1>6, <2>1, <2>2, <2>3, <2>4 DEF PendingLast
  <1>8. QED
    BY <1>3, <1>4, <1>5, <1>7

-----------------------------------------------------------------------------
(* Signing, sending, mining, restarting. *)

(* What a tick signs: m of the n trades decoded, in their order.           *)
Signs(n, m, place) ==
  /\ nonce + n <= MaxNonce /\ Len(signed) + m <= MaxTrades
  /\ signed' = signed \o [i \in 1..m |-> [life |-> life, nonce |-> TakeNonce(place[i])]]
  /\ nonce' = nonce + n
  /\ todo' = Batched(m)
  /\ pc' = IF m = 0 THEN "idle" ELSE "count"

LEMMA DecodedSome ==
  ASSUME Process
  PROVE  \E n \in Nat, m \in Nat : \E place \in Passed(m, n) : Signs(n, m, place)
  <1>. DEFINE priced == {i \in DOMAIN TargetPairs : prices[TargetPairs[i]] # None}
  <1>1. Cardinality(priced) \in Nat
    <2>1. IsFiniteSet(DOMAIN TargetPairs)
      BY FS_Interval
    <2>2. IsFiniteSet(priced)
      BY <2>1, FS_Subset
    <2>3. QED
      BY <2>2, FS_CardinalityType
  <1>2. \E n \in 0..Cardinality(priced) : \E m \in 0..n : \E place \in Passed(m, n) :
          Signs(n, m, place)
    BY DEF Process, NonceAfter, Signs
  <1>3. 0..Cardinality(priced) \subseteq Nat /\ \A n \in Nat : 0..n \subseteq Nat
    BY <1>1
  <1>. HIDE DEF priced
  <1>4. QED
    BY <1>2, <1>3

LEMMA ProcessKeeps == ASSUME RunnerInv, Process PROVE RunnerInv'
  <1>. USE DEF RunnerInv
  <1>0. PICK n \in Nat, m \in Nat : \E place \in Passed(m, n) : Signs(n, m, place)
    BY DecodedSome
  <1>1. PICK place \in Passed(m, n) : Signs(n, m, place)
    BY <1>0
  <1>. DEFINE batch == [i \in 1..m |-> [life |-> life, nonce |-> TakeNonce(place[i])]]
  <1>2. /\ \A i \in 1..m : place[i] \in 1..n
        /\ \A i, j \in 1..m : i # j => place[i] # place[j]
    <2>1. place \in [1..m -> 1..n] /\ \A i, j \in 1..m : i < j => place[i] < place[j]
      BY DEF Passed
    <2>2. \A i \in 1..m : place[i] \in 1..n /\ place[i] \in Int
      BY <2>1
    <2>3. ASSUME NEW i \in 1..m, NEW j \in 1..m, i # j PROVE place[i] # place[j]
      <3>1. place[i] < place[j] \/ place[j] < place[i]
        BY <2>1, <2>3
      <3>2. QED
        BY <3>1, <2>2
    <2>4. QED
      BY <2>2, <2>3
  <1>3. /\ nonce' = nonce + n
        /\ todo' = Batched(m)
        /\ pc' = IF m = 0 THEN "idle" ELSE "count"
    BY <1>1 DEF Signs
  <1>4. UNCHANGED <<life, slot, mempool, reverted, log>> /\ pc = "process"
    BY DEF Process, accountVars
  <1>5. /\ batch \in Seq(Signed) /\ Len(batch) = m
        /\ \A t \in 1..m : batch[t] = [life |-> life, nonce |-> nonce + place[t] - 1]
    <2>1. batch \in [1..m -> Signed]
      BY <1>2 DEF TakeNonce, Signed, RunnerTypes
    <2>2. batch \in Seq(Signed)
      BY <2>1, SeqDef
    <2>3. Len(batch) = m
      OBVIOUS
    <2>4. \A t \in 1..m : batch[t] = [life |-> life, nonce |-> nonce + place[t] - 1]
      BY DEF TakeNonce
    <2>5. QED
      BY <2>2, <2>3, <2>4
  <1>. HIDE DEF batch
  <1>6. /\ signed' \in Seq(Signed) /\ Len(signed') = Len(signed) + m
        /\ \A t \in 1..Len(signed) : signed'[t] = signed[t]
        /\ \A t \in 1..m : signed'[Len(signed) + t] = [life |-> life, nonce |-> nonce + place[t] - 1]
    <2>1. signed \in Seq(Signed) /\ Len(signed) \in Nat
      BY LenProperties DEF RunnerTypes
    <2>2. signed' = signed \o batch
      BY <1>1 DEF batch, Signs
    <2>3. /\ signed' \in Seq(Signed) /\ Len(signed') = Len(signed) + m
          /\ \A t \in 1..Len(signed) + m :
               signed'[t] = IF t <= Len(signed) THEN signed[t] ELSE batch[t - Len(signed)]
      BY <1>5, <2>1, <2>2, ConcatProperties
    <2>4. ASSUME NEW t \in 1..m
          PROVE  signed'[Len(signed) + t] = [life |-> life, nonce |-> nonce + place[t] - 1]
      <3>1. /\ Len(signed) + t \in 1..Len(signed) + m /\ ~(Len(signed) + t <= Len(signed))
            /\ Len(signed) + t - Len(signed) = t
        BY <2>1, <2>4
      <3>2. signed'[Len(signed) + t] = batch[t]
        BY <3>1, <2>3
      <3>3. QED
        BY <3>2, <1>5
    <2>5. \A t \in 1..Len(signed) : t \in 1..Len(signed) + m /\ t <= Len(signed)
      BY <2>1, <1>2
    <2>6. QED
      BY <2>3, <2>4, <2>5
  <1>7. todo = <<>> /\ Len(todo) = 0
    BY <1>4 DEF InOrder, RunnerTypes
  <1>8. /\ todo' \in Seq(Nat) /\ Len(todo') = m
        /\ \A i \in 1..m : todo'[i] = Len(signed) + i
    <2>1. todo' \in [1..m -> Nat]
      BY <1>2, <1>3 DEF Batched, RunnerTypes
    <2>2. QED
      BY <2>1, <1>2, <1>3 DEF Batched
  <1>9. RunnerTypes'
    <2>1. nonce' \in Nat
      BY <1>3 DEF RunnerTypes
    <2>2. pc' \in {"idle", "count"}
      BY <1>3
    <2>3. /\ life' \in Nat /\ slot' \in Nat /\ log' \in Seq(Positive)
          /\ mempool' \subseteq [slot : Nat, trade : Positive]
          /\ reverted' \subseteq Nat /\ IsFiniteSet(reverted')
      BY <1>4 DEF RunnerTypes
    <2>4. signed' \in Seq(Signed) /\ todo' \in Seq(Nat)
      BY <1>6, <1>8
    <2>. HIDE DEF RunnerInv
    <2>5. QED
      BY <2>1, <2>2, <2>3, <2>4 DEF RunnerTypes
  <1>10. NoncesRise'
    <2>. DEFINE k == Len(signed)
    <2>1. k \in Nat /\ nonce \in Nat /\ life \in Nat
      BY DEF RunnerTypes
    <2>2. \A t \in 1..k : signed[t] \in Signed
      BY DEF RunnerTypes
    <2>3. \A t \in 1..Len(signed') :
            \/ t \in 1..k /\ signed'[t] = signed[t] /\ signed[t].nonce \in Nat
            \/ /\ t - k \in 1..m
               /\ signed'[t].life = life /\ signed'[t].nonce = nonce + place[t - k] - 1
      <3>1. TAKE t \in 1..Len(signed')
      <3>2. CASE t \in 1..k
        BY <3>2, <1>6, <2>2 DEF Signed
      <3>3. CASE t \notin 1..k
        <4>1. t - k \in 1..m /\ k + (t - k) = t
          BY <3>3, <2>1, <1>2, <1>6
        <4>2. signed'[k + (t - k)] = [life |-> life, nonce |-> nonce + place[t - k] - 1]
          BY <4>1, <1>6
        <4>3. QED
          BY <4>1, <4>2
      <3>4. QED
        BY <3>2, <3>3
    <2>. HIDE DEF k
    <2>4. \A t \in 1..k : signed[t].life <= life /\ (signed[t].life = life => signed[t].nonce < nonce)
      BY DEF NoncesRise, k
    <2>5. \A s, t \in 1..k : s # t /\ signed[s].life = signed[t].life => signed[s].nonce # signed[t].nonce
      BY DEF NoncesRise, k
    <2>6. Len(signed') \in Nat
      BY <1>6, <1>2, <2>1 DEF k
    <2>7. ASSUME NEW t \in 1..Len(signed')
          PROVE  /\ signed'[t].life <= life'
                 /\ signed'[t].life = life' => signed'[t].nonce < nonce'
      <3>1. CASE t \in 1..k /\ signed'[t] = signed[t] /\ signed[t].nonce \in Nat
        <4>1. signed[t].life <= life /\ (signed[t].life = life => signed[t].nonce < nonce)
          BY <3>1, <2>4
        <4>2. life' = life /\ nonce' = nonce + n
          BY <1>3, <1>4
        <4>3. QED
          BY <3>1, <4>1, <4>2, <2>1, <1>2
      <3>2. CASE /\ t - k \in 1..m
                 /\ signed'[t].life = life /\ signed'[t].nonce = nonce + place[t - k] - 1
        <4>1. life' = life /\ nonce' = nonce + n
          BY <1>3, <1>4
        <4>2. place[t - k] \in 1..n
          BY <3>2, <1>2
        <4>3. QED
          BY <3>2, <4>1, <4>2, <2>1
      <3>3. QED
        BY <3>1, <3>2, <2>3
    <2>8. ASSUME NEW s \in 1..Len(signed'), NEW t \in 1..Len(signed'),
                 s # t, signed'[s].life = signed'[t].life
          PROVE  signed'[s].nonce # signed'[t].nonce
      <3>. DEFINE Old(i) == i \in 1..k /\ signed'[i] = signed[i] /\ signed[i].nonce \in Nat
                  New(i) == /\ i - k \in 1..m /\ place[i - k] \in 1..n
                            /\ signed'[i].life = life /\ signed'[i].nonce = nonce + place[i - k] - 1
      <3>1. CASE Old(s) /\ Old(t)
        BY <3>1, <2>5, <2>8
      <3>2. CASE Old(s) /\ New(t)
        <4>1. signed[s].nonce < nonce /\ signed[s].nonce \in Nat
          BY <3>2, <2>4, <2>8
        <4>2. signed'[t].nonce >= nonce
          BY <3>2, <2>1
        <4>3. QED
          BY <3>2, <4>1, <4>2, <2>1
      <3>3. CASE New(s) /\ Old(t)
        <4>1. signed[t].nonce < nonce /\ signed[t].nonce \in Nat
          BY <3>3, <2>4, <2>8
        <4>2. signed'[s].nonce >= nonce
          BY <3>3, <2>1
        <4>3. QED
          BY <3>3, <4>1, <4>2, <2>1
      <3>4. CASE New(s) /\ New(t)
        <4>1. s \in Int /\ t \in Int /\ k \in Int /\ s - k # t - k
          BY <2>1, <2>6, <2>8
        <4>2. /\ signed'[s].nonce = nonce + place[s - k] - 1
              /\ signed'[t].nonce = nonce + place[t - k] - 1
              /\ place[s - k] \in 1..n /\ place[t - k] \in 1..n
          BY <3>4
        <4>3. place[s - k] # place[t - k]
          BY <3>4, <4>1, <1>2
        <4>4. QED
          BY <4>2, <4>3, <2>1
      <3>5. \A i \in 1..Len(signed') : Old(i) \/ New(i)
        BY <2>3, <1>2
      <3>6. QED
        BY <3>1, <3>2, <3>3, <3>4, <3>5
    <2>9. QED
      BY <2>7, <2>8 DEF NoncesRise
  <1>11. InOrder'
    BY <1>2, <1>3, <1>6, <1>8 DEF InOrder, RunnerTypes
  <1>12. Done' = Done /\ Mined' = Mined /\ pc' # "send"
    BY <1>2, <1>3, <1>4, <1>6, <1>7, <1>8 DEF Done, Mined, RunnerTypes
  <1>13. PendingLast'
    BY <1>4, <1>12 DEF PendingLast
  <1>14. LogRises'
    BY <1>4 DEF LogRises
  <1>15. QED
    BY <1>9, <1>10, <1>11, <1>13, <1>14

LEMMA SendKeeps == ASSUME RunnerInv, Send PROVE RunnerInv'
  <1>. USE DEF RunnerInv
  <1>1. pc = "send" /\ slot' = 0 /\ UNCHANGED <<agentVars, life, reverted, log>>
    BY DEF Send
  <1>2. Mined' = Mined /\ Mined \in Nat
    BY <1>1, MinedType DEF Mined
  <1>3. CASE Accepted
    <2>. DEFINE new == [slot |-> slot, trade |-> Head(todo)]
    <2>1. slot = Mined
      BY <1>1, <1>2, <1>3 DEF Accepted, PendingLast, RunnerTypes
    <2>2. mempool' = {new}
      BY <1>3, <2>1 DEF Accepted, PendingLast
    <2>3. Len(todo) > 0 /\ Head(todo) = Len(signed) - Len(todo) + 1 /\ Done = Len(signed) - Len(todo)
      BY <1>1 DEF InOrder, RunnerTypes, Done
    <2>4. Head(todo) \in Positive /\ Len(signed) \in Nat /\ Len(todo) \in Nat
      BY <2>3 DEF RunnerTypes, InOrder
    <2>5. \A t \in reverted : t < Head(todo)
      BY <2>3, <2>4 DEF PendingLast, RunnerTypes
    <2>6. \A i \in 1..Len(log) : log[i] < Head(todo)
      BY <2>3, <2>4 DEF PendingLast, RunnerTypes
    <2>7. LogRises' /\ NoncesRise'
      BY <1>1 DEF LogRises, NoncesRise, agentVars
    <2>8. CASE pc' = "receipt" /\ UNCHANGED todo
      <3>1. Done' = Head(todo)
        BY <1>1, <2>3, <2>8 DEF Done, agentVars
      <3>2. RunnerTypes'
        BY <1>1, <2>2, <2>4, <2>8 DEF RunnerTypes, agentVars
      <3>3. InOrder'
        BY <1>1, <2>3, <2>8 DEF InOrder, agentVars
      <3>4. PendingLast'
        <4>1. \A t \in reverted' : t <= Done'
          BY <1>1, <2>4, <2>5, <3>1 DEF RunnerTypes
        <4>2. \A i \in 1..Len(log') : log'[i] <= Done'
          BY <1>1, <2>4, <2>6, <3>1 DEF RunnerTypes
        <4>3. \A m \in mempool' : m.slot = Mined' /\ m.trade = Head(todo)
          BY <1>2, <2>1, <2>2
        <4>4. \A m, n \in mempool' : m = n
          BY <2>2
        <4>5. QED
          BY <1>1, <2>4, <2>5, <2>6, <2>8, <3>1, <4>1, <4>2, <4>3, <4>4 DEF PendingLast
      <3>5. QED
        BY <2>7, <3>2, <3>3, <3>4
    <2>9. CASE NextTrade
      <3>1. /\ InOrder'
            /\ todo' \in Seq(Nat) /\ Len(todo') = Len(todo) - 1
            /\ pc' \in {"idle", "count"}
        BY <1>1, <2>3, <2>9, NextInOrder DEF agentVars
      <3>2. Done' = Head(todo)
        <4>1. pc' # "receipt" /\ Len(signed') = Len(signed)
          BY <1>1, <3>1 DEF agentVars
        <4>2. Done' = Len(signed) - (Len(todo) - 1) + 0
          BY <3>1, <4>1 DEF Done
        <4>3. QED
          BY <4>2, <2>3, <2>4
      <3>3. RunnerTypes'
        BY <1>1, <2>2, <2>4, <3>1 DEF RunnerTypes, agentVars
      <3>4. pc' # "send"
        BY <3>1
      <3>5. PendingLast'
        <4>1. \A t \in reverted' : t <= Done'
          BY <1>1, <2>4, <2>5, <3>2 DEF RunnerTypes
        <4>2. \A i \in 1..Len(log') : log'[i] <= Done'
          BY <1>1, <2>4, <2>6, <3>2 DEF RunnerTypes
        <4>3. \A m \in mempool' : m.slot = Mined' /\ m.trade = Head(todo)
          BY <1>2, <2>1, <2>2
        <4>4. \A m, n \in mempool' : m = n
          BY <2>2
        <4>5. QED
          BY <1>1, <2>4, <2>5, <2>6, <3>2, <3>4, <4>1, <4>2, <4>3, <4>4 DEF PendingLast
      <3>6. QED
        BY <2>7, <3>1, <3>3, <3>5
    <2>10. CASE UNCHANGED mempool
      <3>1. CASE NextTrade
        BY <2>9, <3>1
      <3>2. CASE pc' = "receipt" /\ UNCHANGED todo
        BY <2>8, <3>2
      <3>3. QED
        BY <3>1, <3>2 DEF Send
    <2>11. QED
      BY <2>8, <2>9, <2>10 DEF Send
  <1>4. CASE NextTrade /\ UNCHANGED mempool
    BY <1>1, <1>4, NextTradeKeeps DEF accountVars
  <1>5. QED
    BY <1>3, <1>4 DEF Send

LEMMA MineKeeps == ASSUME RunnerInv, Mine PROVE RunnerInv'
  <1>. USE DEF RunnerInv
  <1>1. PICK m \in mempool :
          /\ m.slot = Mined
          /\ mempool' = mempool \ {m}
          /\ \/ log' = Append(log, m.trade) /\ UNCHANGED reverted
             \/ reverted' = reverted \cup {m.trade} /\ UNCHANGED log
    BY DEF Mine
  <1>2. UNCHANGED <<pc, agentVars, life, todo, slot>>
    BY DEF Mine
  <1>3. mempool' = {}
    BY <1>1 DEF PendingLast
  <1>4. Done' = Done /\ Done \in Int
    BY <1>2 DEF Done, agentVars, RunnerTypes
  <1>5. NoncesRise' /\ InOrder'
    BY <1>2 DEF NoncesRise, InOrder, agentVars
  <1>6. m.trade \in Positive /\ m.trade <= Done /\ m.trade \notin reverted
    BY DEF RunnerTypes, PendingLast
  <1>7. Mined \in Nat
    BY MinedType
  <1>8. CASE log' = Append(log, m.trade) /\ UNCHANGED reverted
    <2>1. /\ log' \in Seq(Positive) /\ Len(log') = Len(log) + 1
          /\ \A i \in 1..Len(log) : log'[i] = log[i]
          /\ log'[Len(log) + 1] = m.trade
      BY <1>6, <1>8, AppendProperties DEF RunnerTypes
    <2>2. Mined' = Mined + 1
      <3>1. Len(log) \in Nat /\ Cardinality(reverted) \in Nat
        BY FS_CardinalityType, LenProperties DEF RunnerTypes
      <3>2. QED
        BY <3>1, <2>1, <1>8 DEF Mined
    <2>3. RunnerTypes'
      BY <1>2, <1>3, <1>8, <2>1 DEF RunnerTypes, agentVars
    <2>4. \A i \in 1..Len(log') : i \in 1..Len(log) \/ i = Len(log) + 1
      BY <2>1 DEF RunnerTypes
    <2>5. LogRises'
      <3>1. Len(log) \in Nat /\ \A i \in 1..Len(log) : log[i] < m.trade /\ log[i] \in Nat
        BY ElementOfSeq, LenProperties DEF PendingLast, RunnerTypes
      <3>2. SUFFICES ASSUME NEW i \in 1..Len(log'), NEW j \in 1..Len(log'), i < j
                     PROVE  log'[i] < log'[j]
        BY DEF LogRises
      <3>3. i \in 1..Len(log) /\ log'[i] = log[i]
        BY <3>1, <3>2, <2>1
      <3>4. CASE j \in 1..Len(log)
        BY <3>2, <3>3, <3>4, <2>1 DEF LogRises
      <3>5. CASE j = Len(log) + 1
        BY <3>1, <3>3, <3>5, <2>1
      <3>6. QED
        BY <3>4, <3>5, <2>4
    <2>6. \A i \in 1..Len(log') : log'[i] <= Done
      BY <2>1, <2>4, <1>6 DEF PendingLast
    <2>7. PendingLast'
      BY <1>2, <1>3, <1>4, <1>7, <1>8, <2>2, <2>6 DEF PendingLast, RunnerTypes
    <2>8. QED
      BY <1>5, <2>3, <2>5, <2>7
  <1>9. CASE reverted' = reverted \cup {m.trade} /\ UNCHANGED log
    <2>1. IsFiniteSet(reverted') /\ Cardinality(reverted') = Cardinality(reverted) + 1
      BY <1>6, <1>9, FS_AddElement DEF RunnerTypes
    <2>2. Mined' = Mined + 1
      <3>1. Len(log) \in Nat /\ Cardinality(reverted) \in Nat
        BY FS_CardinalityType, LenProperties DEF RunnerTypes
      <3>2. QED
        BY <3>1, <2>1, <1>9 DEF Mined
    <2>3. RunnerTypes'
      BY <1>2, <1>3, <1>6, <1>9, <2>1 DEF RunnerTypes, agentVars
    <2>4. LogRises'
      BY <1>9 DEF LogRises
    <2>5. PendingLast'
      BY <1>2, <1>3, <1>4, <1>6, <1>7, <1>9, <2>2 DEF PendingLast, RunnerTypes
    <2>6. QED
      BY <1>5, <2>3, <2>4, <2>5
  <1>10. QED
    BY <1>1, <1>8, <1>9

LEMMA RestartKeeps == ASSUME RunnerInv, Restart PROVE RunnerInv'
  <1>. USE DEF RunnerInv
  <1>1. /\ life' = life + 1 /\ nonce' = 0 /\ todo' = <<>> /\ pc' = "idle" /\ slot' = 0
        /\ UNCHANGED <<signed, mempool, reverted, log>>
    BY DEF Restart, accountVars
  <1>2. Mined' = Mined
    BY <1>1 DEF Mined
  <1>3. RunnerTypes' /\ InOrder' /\ LogRises'
    BY <1>1 DEF RunnerTypes, InOrder, LogRises
  <1>4. NoncesRise'
    <2>1. \A t \in 1..Len(signed) : signed[t].life \in Nat /\ signed[t].life <= life
      <3>1. \A t \in 1..Len(signed) : signed[t] \in Signed
        BY ElementOfSeq DEF RunnerTypes
      <3>2. QED
        BY <3>1 DEF NoncesRise, Signed
    <2>2. QED
      BY <1>1, <2>1 DEF NoncesRise, RunnerTypes
  <1>5. Done \in Int /\ Done' \in Int /\ Done <= Done'
    <2>1. pc = "receipt" => Len(todo) >= 1
      BY DEF InOrder, RunnerTypes
    <2>2. Done' = Len(signed)
      BY <1>1 DEF Done, RunnerTypes
    <2>3. QED
      BY <2>1, <2>2 DEF Done, RunnerTypes
  <1>6. PendingLast'
    BY <1>1, <1>2, <1>5 DEF PendingLast, RunnerTypes
  <1>7. QED
    BY <1>3, <1>4, <1>6

(* No step of the runner, the account or the vault breaks the invariant.   *)
LEMMA RunnerKeeps == ASSUME RunnerInv, RunnerStep PROVE RunnerInv'
  <1>1. CASE Tick
    BY <1>1, Quiet DEF Tick, RunnerInv, RunnerTypes
  <1>2. CASE ReadBook
    BY <1>2, Quiet DEF ReadBook, RunnerInv, RunnerTypes
  <1>3. CASE ReadPrice
    BY <1>3, Quiet DEF ReadPrice, RunnerInv, RunnerTypes
  <1>4. CASE ReadCount
    <2>1. pc = "count" /\ UNCHANGED <<agentVars, life, accountVars>>
      BY <1>4 DEF ReadCount
    <2>2. CASE slot' = AccountNonce /\ pc' = "send" /\ UNCHANGED todo
      <3>1. Mined' = Mined /\ slot' = Mined /\ Mined \in Nat
        BY <2>1, <2>2, MinedType DEF Mined, AccountNonce, accountVars, RunnerInv
      <3>2. QED
        BY <2>1, <2>2, <3>1, Quiet
    <2>3. CASE NextTrade /\ UNCHANGED slot
      BY <2>1, <2>3, NextTradeKeeps DEF RunnerInv, RunnerTypes
    <2>4. QED
      BY <1>4, <2>2, <2>3 DEF ReadCount
  <1>5. CASE Receipt
    BY <1>5, NextTradeKeeps DEF Receipt, RunnerInv, RunnerTypes
  <1>6. QED
    BY <1>1, <1>2, <1>3, <1>4, <1>5, ProcessKeeps, SendKeeps, MineKeeps, RestartKeeps
    DEF RunnerStep

-----------------------------------------------------------------------------
(* How far the counters go. *)

(* A trade that is mined or pending has been sent, and each was signed      *)
(* with a nonce of its own.                                                *)
Bounds ==
  /\ life \in 1..MaxLives
  /\ \A t \in 1..Len(signed) : signed[t] \in [life : 1..MaxLives, nonce : 0..MaxNonce]
  /\ nonce <= MaxNonce /\ Len(signed) <= MaxTrades
  /\ pc # "send" => slot = 0
  /\ Mined + (IF mempool = {} THEN 0 ELSE 1) <= Done
  /\ reverted \subseteq Positive

LEMMA BoundsStart == ASSUME RunnerInit PROVE Bounds
  <1>1. Cardinality({}) = 0
    BY FS_EmptySet
  <1>2. Mined = 0 /\ Done = 0
    BY <1>1 DEF RunnerInit, Mined, Done
  <1>3. QED
    BY <1>2 DEF RunnerInit, Bounds

(* Steps that mine nothing, send nothing and sign nothing.                 *)
LEMMA QuietBounds ==
  ASSUME RunnerInv, Bounds, UNCHANGED <<agentVars, life, accountVars>>,
         Done' \in Int, Done <= Done',
         pc' # "send" => slot' = 0
  PROVE  Bounds'
  <1>1. Mined' = Mined /\ Mined \in Nat
    BY MinedType DEF Mined, accountVars, RunnerInv
  <1>2. Done \in Int
    BY DEF Done, RunnerInv, RunnerTypes
  <1>3. Mined' + (IF mempool' = {} THEN 0 ELSE 1) <= Done'
    BY <1>1, <1>2 DEF Bounds, accountVars
  <1>4. QED
    BY <1>3 DEF Bounds, agentVars, accountVars

LEMMA BoundsKept == ASSUME RunnerInv, Bounds, RunnerStep PROVE Bounds'
  <1>1. /\ Len(todo) \in Nat /\ Len(signed) \in Nat /\ Len(todo) <= Len(signed)
        /\ pc \in {"count", "send", "receipt"} <=> Len(todo) > 0
        /\ Done = Len(signed) - Len(todo) + (IF pc = "receipt" THEN 1 ELSE 0)
    BY LenProperties DEF RunnerInv, RunnerTypes, InOrder, Done
  <1>2. Mined \in Nat /\ todo \in Seq(Nat)
    BY MinedType DEF RunnerInv, RunnerTypes
  <1>3. Done' = Len(signed') - Len(todo') + (IF pc' = "receipt" THEN 1 ELSE 0)
    BY DEF Done
  <1>4. ASSUME NextTrade, UNCHANGED signed, Len(todo) > 0
        PROVE  /\ Done' = Len(signed) - Len(todo) + 1 /\ pc' \in {"idle", "count"}
               /\ Done' \in Int /\ Done <= Done'
    <2>1. Len(todo') = Len(todo) - 1 /\ pc' \in {"idle", "count"}
      BY <1>2, <1>4, TailFacts DEF NextTrade
    <2>2. QED
      BY <1>1, <1>3, <1>4, <2>1
  <1>5. CASE Tick \/ ReadBook \/ ReadPrice
    <2>1. /\ UNCHANGED <<agentVars, life, accountVars, todo, slot>>
          /\ pc \notin {"count", "send", "receipt"} /\ pc' \notin {"count", "send", "receipt"}
      BY <1>5 DEF Tick, ReadBook, ReadPrice
    <2>2. Done' = Done
      BY <1>1, <1>3, <2>1 DEF agentVars
    <2>3. slot' = 0
      BY <2>1 DEF Bounds
    <2>4. QED
      BY <1>1, <2>1, <2>2, <2>3, QuietBounds
  <1>6. CASE ReadCount
    <2>1. pc = "count" /\ UNCHANGED <<agentVars, life, accountVars>>
      BY <1>6 DEF ReadCount
    <2>2. CASE pc' = "send" /\ UNCHANGED todo
      <3>1. Done' = Done
        BY <1>1, <1>3, <2>1, <2>2 DEF agentVars
      <3>2. QED
        BY <1>1, <2>1, <2>2, <3>1, QuietBounds
    <2>3. CASE NextTrade /\ UNCHANGED slot
      BY <1>1, <1>4, <2>1, <2>3, QuietBounds DEF agentVars, Bounds
    <2>4. QED
      BY <1>6, <2>2, <2>3 DEF ReadCount
  <1>7. CASE Receipt
    BY <1>1, <1>4, <1>7, QuietBounds DEF Receipt, agentVars, Bounds
  <1>8. CASE Restart
    <2>1. /\ life < MaxLives /\ life' = life + 1 /\ nonce' = 0 /\ todo' = <<>>
          /\ pc' = "idle" /\ slot' = 0
          /\ UNCHANGED <<signed, mempool, reverted, log>>
      BY <1>8 DEF Restart, accountVars
    <2>2. Mined' = Mined
      BY <2>1 DEF Mined
    <2>3. Done' = Len(signed) /\ Done <= Len(signed)
      BY <1>1, <1>3, <2>1
    <2>4. Mined' + (IF mempool' = {} THEN 0 ELSE 1) <= Done'
      BY <1>1, <1>2, <2>1, <2>2, <2>3 DEF Bounds
    <2>5. life' \in 1..MaxLives
      BY <2>1 DEF Bounds
    <2>6. QED
      BY <1>1, <2>1, <2>4, <2>5 DEF Bounds
  <1>9. CASE Send
    <2>1. pc = "send" /\ slot' = 0 /\ UNCHANGED <<agentVars, life, reverted, log>>
      BY <1>9 DEF Send
    <2>2. Mined' = Mined /\ Mined <= Done
      BY <1>1, <1>2, <2>1 DEF Mined, Bounds
    <2>3. CASE NextTrade
      <3>1. Done' = Done + 1
        BY <1>1, <1>4, <2>1, <2>3 DEF agentVars
      <3>2. Mined' + (IF mempool' = {} THEN 0 ELSE 1) <= Done'
        BY <1>1, <1>2, <2>2, <3>1
      <3>3. QED
        BY <2>1, <3>2 DEF Bounds, agentVars
    <2>4. CASE pc' = "receipt" /\ UNCHANGED todo
      <3>1. Done' = Done + 1
        BY <1>1, <1>3, <2>1, <2>4 DEF agentVars
      <3>2. Mined' + (IF mempool' = {} THEN 0 ELSE 1) <= Done'
        BY <1>1, <1>2, <2>2, <3>1
      <3>3. QED
        BY <2>1, <3>2 DEF Bounds, agentVars
    <2>5. QED
      BY <1>9, <2>3, <2>4 DEF Send
  <1>10. CASE Mine
    <2>1. PICK m \in mempool :
            /\ mempool' = mempool \ {m}
            /\ \/ log' = Append(log, m.trade) /\ UNCHANGED reverted
               \/ reverted' = reverted \cup {m.trade} /\ UNCHANGED log
      BY <1>10 DEF Mine
    <2>2. UNCHANGED <<pc, agentVars, life, todo, slot>>
      BY <1>10 DEF Mine
    <2>3. mempool' = {} /\ m.trade \in Positive /\ m.trade \notin reverted
      BY <2>1 DEF RunnerInv, RunnerTypes, PendingLast
    <2>4. Done' = Done /\ Mined + 1 <= Done
      BY <1>1, <1>2, <1>3, <2>1, <2>2 DEF agentVars, Bounds
    <2>5. Mined' = Mined + 1
      <3>1. Len(log) \in Nat /\ Cardinality(reverted) \in Nat /\ IsFiniteSet(reverted)
        BY FS_CardinalityType, LenProperties DEF RunnerInv, RunnerTypes
      <3>2. CASE log' = Append(log, m.trade) /\ UNCHANGED reverted
        <4>1. Len(log') = Len(log) + 1
          BY <2>3, <3>2, AppendProperties DEF RunnerInv, RunnerTypes
        <4>2. QED
          BY <3>1, <3>2, <4>1 DEF Mined
      <3>3. CASE reverted' = reverted \cup {m.trade} /\ UNCHANGED log
        <4>1. Cardinality(reverted') = Cardinality(reverted) + 1
          BY <2>3, <3>1, <3>3, FS_AddElement
        <4>2. QED
          BY <3>1, <3>3, <4>1 DEF Mined
      <3>4. QED
        BY <2>1, <3>2, <3>3
    <2>6. Mined' + (IF mempool' = {} THEN 0 ELSE 1) <= Done'
      BY <1>1, <1>2, <2>3, <2>4, <2>5
    <2>7. reverted' \subseteq Positive
      BY <2>1, <2>3 DEF Bounds
    <2>8. QED
      BY <2>2, <2>6, <2>7 DEF Bounds, agentVars
  <1>11. CASE Process
    <2>0. PICK n \in Nat, m \in Nat : \E place \in Passed(m, n) : Signs(n, m, place)
      BY <1>11, DecodedSome
    <2>1. PICK place \in Passed(m, n) :
            /\ nonce + n <= MaxNonce /\ Len(signed) + m <= MaxTrades
            /\ signed' = signed \o [i \in 1..m |-> [life |-> life, nonce |-> TakeNonce(place[i])]]
            /\ nonce' = nonce + n
            /\ todo' = Batched(m)
            /\ pc' = IF m = 0 THEN "idle" ELSE "count"
      BY <2>0 DEF Signs
    <2>2. UNCHANGED <<life, slot, mempool, reverted, log>> /\ pc = "process"
      BY <1>11 DEF Process, accountVars
    <2>. DEFINE batch == [i \in 1..m |-> [life |-> life, nonce |-> TakeNonce(place[i])]]
    <2>3. nonce \in Nat /\ life \in 1..MaxLives /\ signed \in Seq(Signed)
      BY DEF RunnerInv, RunnerTypes, Bounds
    <2>4. \A i \in 1..m : batch[i] \in [life : 1..MaxLives, nonce : 0..MaxNonce]
      <3>1. \A i \in 1..m : place[i] \in 1..n
        BY DEF Passed
      <3>2. \A i \in 1..m : nonce + place[i] - 1 \in 0..MaxNonce
        BY <2>1, <2>3, <3>1
      <3>3. QED
        BY <2>3, <3>2 DEF TakeNonce
    <2>5. batch \in Seq(Signed) /\ Len(batch) = m
      <3>1. [life : 1..MaxLives, nonce : 0..MaxNonce] \subseteq Signed
        BY DEF Signed
      <3>2. batch \in [1..m -> Signed]
        BY <2>4, <3>1
      <3>3. batch \in Seq(Signed)
        BY <3>2, SeqDef
      <3>4. QED
        BY <3>3
    <2>. HIDE DEF batch
    <2>6. signed' = signed \o batch
      BY <2>1 DEF batch
    <2>7. /\ Len(signed') = Len(signed) + m
          /\ \A t \in 1..Len(signed) + m :
               signed'[t] = IF t <= Len(signed) THEN signed[t] ELSE batch[t - Len(signed)]
      BY <2>3, <2>5, <2>6, ConcatProperties
    <2>8. \A t \in 1..Len(signed') : signed'[t] \in [life : 1..MaxLives, nonce : 0..MaxNonce]
      <3>1. TAKE t \in 1..Len(signed')
      <3>2. CASE t <= Len(signed)
        <4>1. t \in 1..Len(signed) /\ t \in 1..Len(signed) + m
          BY <1>1, <2>7, <3>2
        <4>2. signed'[t] = signed[t]
          BY <2>7, <3>2, <4>1
        <4>3. QED
          BY <4>1, <4>2 DEF Bounds
      <3>3. CASE ~(t <= Len(signed))
        <4>1. t - Len(signed) \in 1..m
          BY <1>1, <2>7, <3>3
        <4>2. QED
          BY <2>4, <2>7, <3>3, <4>1
      <3>4. QED
        BY <3>2, <3>3
    <2>9. Len(todo') = m /\ Len(todo) = 0
      BY <1>1, <2>1, <2>2 DEF Batched
    <2>10. Done' = Done
      BY <1>1, <1>3, <2>1, <2>2, <2>7, <2>9
    <2>11. Mined' = Mined
      BY <2>2 DEF Mined
    <2>12. nonce' <= MaxNonce /\ Len(signed') <= MaxTrades
      BY <1>1, <2>1, <2>3, <2>7
    <2>13. slot' = 0
      BY <2>2 DEF Bounds
    <2>14. QED
      BY <2>2, <2>8, <2>10, <2>11, <2>12, <2>13 DEF Bounds
  <1>12. QED
    BY <1>5, <1>6, <1>7, <1>8, <1>9, <1>10, <1>11 DEF RunnerStep

-----------------------------------------------------------------------------
(* The stream, and what the runner has read of it. *)

Wrote(i, k) == k \in Batch(applied[i])

(* Every key holds the value of the last batch that set it.                *)
StreamInv ==
  /\ calls \in [Updates -> {"unused", "executing", "ended"}]
  /\ stream \in [Keys -> Updates \cup {None}]
  /\ applied \in Seq(Updates)
  /\ \A i, j \in 1..Len(applied) : applied[i] = applied[j] => i = j
  /\ \A i \in 1..Len(applied) : calls[applied[i]] = "ended"
  /\ \A k \in Keys : stream[k] # None =>
       \E j \in 1..Len(applied) : stream[k] = applied[j] /\ Wrote(j, k)
  /\ \A k \in Keys : \A i \in 1..Len(applied) : Wrote(i, k) =>
       \E j \in 1..Len(applied) : i <= j /\ stream[k] = applied[j]

TickTypes ==
  /\ at \in 1..Len(TargetPairs)
  /\ books \in [Pairs -> Updates \cup {None}]
  /\ prices \in [Pairs -> Updates \cup {None}]

(* Only the prices of the pairs before this one have been read.            *)
PricesReadInTurn ==
  /\ pc \notin {"book", "price", "process"} => prices = Nothing /\ at = 1
  /\ pc \in {"book", "price"} =>
       \A p \in Pairs : prices[p] # None => \E i \in 1..at - 1 : TargetPairs[i] = p

(* What has been read was written, and each price after its book.          *)
ReadInv ==
  /\ PricesReadInTurn
  /\ \A p \in Pairs :
       /\ books[p] # None =>
            \E i \in 1..Len(applied) : books[p] = applied[i] /\ Wrote(i, <<"orderbook", p>>)
       /\ prices[p] # None => \E j \in 1..Len(applied) : prices[p] = applied[j]
       /\ \A i, j \in 1..Len(applied) : books[p] = applied[i] /\ prices[p] = applied[j] => i <= j

(* A set of natural numbers that is not empty has a least element.         *)
LEMMA LeastNatural ==
  ASSUME NEW T \in SUBSET Nat, T # {}
  PROVE  \E n \in T : \A m \in T : n <= m
  <1>. DEFINE R == {ss \in Nat \X Nat : ss[1] < ss[2]}
  <1>1. IsWellFoundedOn(R, Nat)
    BY NatLessThanWellFounded DEF OpToRel
  <1>2. \A m, n \in Nat : <<m, n>> \in R <=> m < n
    OBVIOUS
  <1>. HIDE DEF R
  <1>3. PICK n \in T : \A m \in T : ~(<<m, n>> \in R)
    BY <1>1, WFMin
  <1>4. ASSUME NEW m \in T PROVE n <= m
    <2>1. m \in Nat /\ n \in Nat
      OBVIOUS
    <2>2. ~(m < n)
      BY <2>1, <1>2, <1>3
    <2>3. QED
      BY <2>1, <2>2
  <1>5. QED
    BY <1>4

(* A set of indices that is not empty has a greatest one.                  *)
LEMMA GreatestIndex ==
  ASSUME NEW N \in Nat, NEW I \in SUBSET (1..N), I # {}
  PROVE  /\ Max(I) \in I
         /\ \A i \in I : i <= Max(I)
  <1>. DEFINE T == {N - i : i \in I}
  <1>1. T \in SUBSET Nat /\ T # {}
    <2>1. \A i \in I : N - i \in Nat
      OBVIOUS
    <2>2. QED
      BY <2>1
  <1>2. PICK d \in T : \A m \in T : d <= m
    BY <1>1, LeastNatural
  <1>3. PICK g \in I : d = N - g
    OBVIOUS
  <1>4. \A i \in I : g >= i
    <2>1. TAKE i \in I
    <2>2. d <= N - i
      BY <1>2
    <2>3. QED
      BY <1>3, <2>2
  <1>5. /\ Max(I) \in I
        /\ \A i \in I : Max(I) >= i
    BY <1>4 DEF Max
  <1>6. QED
    BY <1>5

LEMMA BatchesOfBooks ==
  ASSUME NEW u \in Updates, NEW p \in Pairs, <<"orderbook", p>> \in Batch(u)
  PROVE  <<"price", p>> \in Batch(u)
  <1>1. "orderbook" \in Fields(TopicOf[u].kind) /\ TopicOf[u].of = p
    BY DEF Batch
  <1>2. TopicOf[u].kind = "book"
    BY <1>1 DEF Fields, Kinds
  <1>3. QED
    BY <1>1, <1>2 DEF Batch, Fields

LEMMA StreamStarts == ASSUME StreamInit PROVE StreamInv
  <1>1. /\ applied = Earlier
        /\ calls = [u \in Updates |-> IF u \in ToSet(Earlier) THEN "ended" ELSE "unused"]
    BY DEF StreamInit
  <1>2. /\ Earlier \in Seq(Updates) /\ Len(Earlier) \in Nat /\ DOMAIN Earlier = 1..Len(Earlier)
        /\ \A i \in 1..Len(Earlier) : Earlier[i] \in Updates
    BY LenProperties, ElementOfSeq
  <1>3. \A i, j \in 1..Len(applied) : applied[i] = applied[j] => i = j
    BY <1>1, <1>2 DEF IsInjective
  <1>4. \A i \in 1..Len(applied) : calls[applied[i]] = "ended"
    BY <1>1, <1>2 DEF ToSet
  <1>. DEFINE I(k) == {i \in 1..Len(Earlier) : k \in Batch(Earlier[i])}
  <1>5. /\ stream \in [Keys -> Updates \cup {None}]
        /\ \A k \in Keys : stream[k] = IF I(k) = {} THEN None ELSE Earlier[Max(I(k))]
    <2>. DEFINE last(k) == SelectLastInSeq(Earlier, LAMBDA u : k \in Batch(u))
    <2>1. \A k \in Keys : last(k) = IF I(k) # {} THEN Max(I(k)) ELSE 0
      BY DEF SelectLastInSeq
    <2>2. \A k \in Keys : I(k) # {} => Max(I(k)) \in 1..Len(Earlier)
      <3>1. TAKE k \in Keys
      <3>2. I(k) \in SUBSET (1..Len(Earlier))
        OBVIOUS
      <3>. HIDE DEF I
      <3>3. QED
        BY <1>2, <3>2, GreatestIndex
    <2>3. stream = [k \in Keys |-> IF last(k) = 0 THEN None ELSE Earlier[last(k)]]
      BY DEF StreamInit
    <2>. HIDE DEF I, last
    <2>4. \A k \in Keys : stream[k] = IF I(k) = {} THEN None ELSE Earlier[Max(I(k))]
      BY <2>1, <2>2, <2>3
    <2>5. \A k \in Keys : stream[k] \in Updates \cup {None}
      BY <1>2, <2>2, <2>4
    <2>6. QED
      BY <2>3, <2>4, <2>5
  <1>6. ASSUME NEW k \in Keys
        PROVE  /\ stream[k] # None =>
                    \E j \in 1..Len(applied) : stream[k] = applied[j] /\ Wrote(j, k)
               /\ \A i \in 1..Len(applied) : Wrote(i, k) =>
                    \E j \in 1..Len(applied) : i <= j /\ stream[k] = applied[j]
    <2>. DEFINE J == {i \in 1..Len(Earlier) : k \in Batch(Earlier[i])}
    <2>1. stream[k] = IF J = {} THEN None ELSE Earlier[Max(J)]
      BY <1>5
    <2>2. \A i \in 1..Len(applied) : Wrote(i, k) <=> i \in J
      BY <1>1 DEF Wrote
    <2>3. J \in SUBSET (1..Len(Earlier))
      OBVIOUS
    <2>. HIDE DEF J
    <2>4. J # {} => Max(J) \in J /\ \A i \in J : i <= Max(J)
      BY <1>2, <2>3, GreatestIndex
    <2>5. QED
      BY <1>1, <2>1, <2>2, <2>3, <2>4
  <1>7. QED
    BY <1>1, <1>2, <1>3, <1>4, <1>5, <1>6 DEF StreamInv

LEMMA StreamKeeps == ASSUME StreamInv, StreamStep PROVE StreamInv'
  <1>1. PICK u \in Updates : Update(u) \/ BatchExecuted(u)
    BY DEF StreamStep
  <1>2. /\ Len(applied) \in Nat /\ applied \in Seq(Updates)
        /\ \A i \in 1..Len(applied) : applied[i] \in Updates
    BY LenProperties, ElementOfSeq DEF StreamInv
  <1>3. calls[u] # "ended" /\ \A i \in 1..Len(applied) : applied[i] # u
    BY <1>1 DEF StreamInv, Update, BatchExecuted
  <1>4. /\ calls' \in [Updates -> {"unused", "executing", "ended"}]
        /\ \A i \in 1..Len(applied) : calls'[applied[i]] = "ended"
    BY <1>1, <1>2, <1>3 DEF StreamInv, Update, BatchExecuted
  <1>5. CASE UNCHANGED <<stream, applied>>
    BY <1>4, <1>5 DEF StreamInv, Wrote
  <1>6. CASE /\ calls' = [calls EXCEPT ![u] = "ended"]
             /\ stream' = [k \in Keys |-> IF k \in Batch(u) THEN u ELSE stream[k]]
             /\ applied' = Append(applied, u)
    <2>0. PICK n \in Nat : n = Len(applied)
      BY <1>2
    <2>1. /\ applied' \in Seq(Updates) /\ Len(applied') = n + 1
          /\ \A i \in 1..n : applied'[i] = applied[i]
          /\ applied'[n + 1] = u
      BY <1>2, <1>6, <2>0, AppendProperties
    <2>2. \A i \in 1..n + 1 : i \in 1..n \/ i = n + 1
      BY <1>2
    <2>3. 1..n \subseteq 1..n + 1 /\ n + 1 \in 1..n + 1 /\ \A i \in 1..n + 1 : i <= n + 1
      BY <1>2
    <2>4. calls'[u] = "ended"
      BY <1>6 DEF StreamInv
    <2>5. \A i, j \in 1..n + 1 : applied'[i] = applied'[j] => i = j
      <3>1. SUFFICES ASSUME NEW i \in 1..n + 1, NEW j \in 1..n + 1, applied'[i] = applied'[j]
                     PROVE  i = j
        OBVIOUS
      <3>2. CASE i \in 1..n /\ j \in 1..n
        BY <2>0, <2>1, <3>1, <3>2 DEF StreamInv
      <3>3. CASE i \in 1..n /\ j = n + 1
        BY <1>3, <2>0, <2>1, <3>1, <3>3
      <3>4. CASE i = n + 1 /\ j \in 1..n
        BY <1>3, <2>0, <2>1, <3>1, <3>4
      <3>5. QED
        BY <2>2, <3>2, <3>3, <3>4
    <2>6. \A i \in 1..n + 1 : calls'[applied'[i]] = "ended"
      BY <1>4, <2>0, <2>1, <2>2, <2>4
    <2>7. /\ stream' \in [Keys -> Updates \cup {None}]
          /\ \A k \in Keys : stream'[k] = IF k \in Batch(u) THEN u ELSE stream[k]
      BY <1>6 DEF StreamInv
    <2>8. ASSUME NEW k \in Keys
          PROVE  /\ stream'[k] # None =>
                      \E j \in 1..n + 1 : stream'[k] = applied'[j] /\ Wrote(j, k)'
                 /\ \A i \in 1..n + 1 : Wrote(i, k)' =>
                      \E j \in 1..n + 1 : i <= j /\ stream'[k] = applied'[j]
      <3>1. \A i \in 1..n : Wrote(i, k)' <=> Wrote(i, k)
        BY <2>1 DEF Wrote
      <3>2. Wrote(n + 1, k)' <=> k \in Batch(u)
        BY <2>1 DEF Wrote
      <3>3. CASE k \in Batch(u)
        BY <2>1, <2>3, <2>7, <3>2, <3>3
      <3>4. CASE k \notin Batch(u)
        <4>1. stream'[k] = stream[k]
          BY <2>7, <3>4
        <4>2. stream'[k] # None =>
                \E j \in 1..n + 1 : stream'[k] = applied'[j] /\ Wrote(j, k)'
          BY <2>0, <2>1, <2>3, <3>1, <4>1 DEF StreamInv
        <4>3. \A i \in 1..n : Wrote(i, k) =>
                \E j \in 1..n + 1 : i <= j /\ stream'[k] = applied'[j]
          BY <2>0, <2>1, <2>3, <4>1 DEF StreamInv
        <4>4. QED
          BY <2>2, <3>1, <3>2, <3>4, <4>2, <4>3
      <3>5. QED
        BY <3>3, <3>4
    <2>9. QED
      BY <1>4, <2>1, <2>5, <2>6, <2>7, <2>8 DEF StreamInv
  <1>7. QED
    BY <1>1, <1>5, <1>6 DEF Update, BatchExecuted

LEMMA ConfiguredPairs ==
  /\ Len(TargetPairs) \in Nat \ {0} /\ DOMAIN TargetPairs = 1..Len(TargetPairs)
  /\ \A i \in 1..Len(TargetPairs) :
       /\ TargetPairs[i] \in Pairs
       /\ <<"orderbook", TargetPairs[i]>> \in Keys /\ <<"price", TargetPairs[i]>> \in Keys
  <1>1. TargetPairs \in Seq(Pairs) /\ TargetPairs # <<>>
    OBVIOUS
  <1>2. Len(TargetPairs) \in Nat \ {0} /\ DOMAIN TargetPairs = 1..Len(TargetPairs)
    BY <1>1, LenProperties, EmptySeq
  <1>3. \A i \in 1..Len(TargetPairs) : TargetPairs[i] \in Pairs
    BY <1>1, ElementOfSeq
  <1>4. QED
    BY <1>2, <1>3 DEF Keys, Subjects

LEMMA TickTypesKept == ASSUME StreamInv, TickTypes, RunnerStep PROVE TickTypes'
  <1>. DEFINE p == TargetPairs[at]
  <1>1. /\ p \in Pairs /\ <<"orderbook", p>> \in Keys /\ <<"price", p>> \in Keys
        /\ 1 \in 1..Len(TargetPairs) /\ Len(TargetPairs) \in Nat
    BY ConfiguredPairs DEF TickTypes
  <1>. HIDE DEF p
  <1>2. CASE ReadBook
    <2>1. PICK v \in Answers("orderbook", p) :
            books' = [books EXCEPT ![p] = IF v = None THEN @ ELSE v]
      BY <1>2 DEF ReadBook, p
    <2>2. v \in Updates \cup {None} /\ UNCHANGED <<at, prices>>
      BY <1>1, <1>2, <2>1 DEF Answers, StreamInv, ReadBook
    <2>3. books' \in [Pairs -> Updates \cup {None}]
      BY <1>1, <2>1, <2>2 DEF TickTypes
    <2>4. QED
      BY <2>2, <2>3 DEF TickTypes
  <1>3. CASE ReadPrice
    <2>1. PICK v \in Answers("price", p) :
            prices' = [prices EXCEPT ![p] = IF v = None THEN @ ELSE v]
      BY <1>3 DEF ReadPrice, p
    <2>2. v \in Updates \cup {None} /\ UNCHANGED books
      BY <1>1, <1>3, <2>1 DEF Answers, StreamInv, ReadPrice
    <2>3. prices' \in [Pairs -> Updates \cup {None}]
      BY <1>1, <2>1, <2>2 DEF TickTypes
    <2>4. at' \in 1..Len(TargetPairs)
      BY <1>1, <1>3 DEF ReadPrice, MorePairs, TickTypes
    <2>5. QED
      BY <2>2, <2>3, <2>4 DEF TickTypes
  <1>4. CASE Process \/ Restart
    <2>1. at' = 1 /\ books' = Nothing /\ prices' = Nothing
      BY <1>4 DEF Process, Restart
    <2>2. Nothing \in [Pairs -> Updates \cup {None}]
      BY DEF Nothing
    <2>3. QED
      BY <1>1, <2>1, <2>2 DEF TickTypes
  <1>5. CASE UNCHANGED tickVars
    BY <1>5 DEF tickVars, TickTypes
  <1>6. QED
    BY <1>2, <1>3, <1>4, <1>5 DEF RunnerStep, Tick, ReadCount, Send, Receipt, Mine

LEMMA ReadsStart == ASSUME RunnerInit, StreamInv PROVE TickTypes /\ ReadInv
  <1>1. at = 1 /\ books = Nothing /\ prices = Nothing /\ pc = "idle"
    BY DEF RunnerInit
  <1>2. \A p \in Pairs : Nothing[p] = None
    BY DEF Nothing
  <1>3. Nothing \in [Pairs -> Updates \cup {None}]
    BY DEF Nothing
  <1>4. TickTypes
    BY <1>1, <1>3, ConfiguredPairs DEF TickTypes
  <1>5. PricesReadInTurn
    BY <1>1 DEF PricesReadInTurn
  <1>6. \A i \in 1..Len(applied) : applied[i] # None
    BY ElementOfSeq DEF StreamInv
  <1>7. QED
    BY <1>1, <1>2, <1>4, <1>5, <1>6 DEF ReadInv

(* What has been read does not change when the stream goes on.             *)
LEMMA StreamKeepsReads ==
  ASSUME StreamInv, TickTypes, ReadInv, StreamStep, UNCHANGED runnerVars
  PROVE  ReadInv'
  <1>1. StreamInv' /\ Len(applied) \in Nat /\ Len(applied') \in Nat
    BY StreamKeeps, LenProperties DEF StreamInv
  <1>2. /\ Len(applied) <= Len(applied')
        /\ \A i \in 1..Len(applied) : applied'[i] = applied[i]
    <2>1. PICK u \in Updates : applied' = applied \/ applied' = Append(applied, u)
      BY DEF StreamStep, Update, BatchExecuted
    <2>2. CASE applied' = Append(applied, u)
      BY <1>1, <2>2, AppendProperties DEF StreamInv
    <2>3. QED
      BY <1>1, <2>1, <2>2
  <1>3. 1..Len(applied) \subseteq 1..Len(applied')
    BY <1>1, <1>2
  <1>4. books' = books /\ prices' = prices /\ pc' = pc /\ at' = at
    BY DEF runnerVars, tickVars
  <1>5. PricesReadInTurn'
    BY <1>4 DEF ReadInv, PricesReadInTurn
  <1>6. ASSUME NEW p \in Pairs
        PROVE  /\ books[p] # None =>
                    \E i \in 1..Len(applied') :
                      books[p] = applied'[i] /\ Wrote(i, <<"orderbook", p>>)'
               /\ prices[p] # None => \E j \in 1..Len(applied') : prices[p] = applied'[j]
               /\ \A i, j \in 1..Len(applied') :
                    books[p] = applied'[i] /\ prices[p] = applied'[j] => i <= j
    <2>1. \A i \in 1..Len(applied) :
            Wrote(i, <<"orderbook", p>>)' <=> Wrote(i, <<"orderbook", p>>)
      BY <1>2 DEF Wrote
    <2>2. books[p] # None =>
            \E i \in 1..Len(applied) : books[p] = applied[i] /\ Wrote(i, <<"orderbook", p>>)
      BY DEF ReadInv
    <2>3. prices[p] # None => \E j \in 1..Len(applied) : prices[p] = applied[j]
      BY DEF ReadInv
    <2>4. \A i \in 1..Len(applied') : applied'[i] # None
      BY <1>1, ElementOfSeq DEF StreamInv
    <2>5. ASSUME NEW i \in 1..Len(applied'), NEW j \in 1..Len(applied'),
                 books[p] = applied'[i], prices[p] = applied'[j]
          PROVE  i <= j
      <3>1. PICK i0 \in 1..Len(applied) : books[p] = applied[i0]
        BY <2>2, <2>4, <2>5
      <3>2. PICK j0 \in 1..Len(applied) : prices[p] = applied[j0]
        BY <2>3, <2>4, <2>5
      <3>3. i = i0 /\ j = j0
        <4>1. \A m, n \in 1..Len(applied') : applied'[m] = applied'[n] => m = n
          BY <1>1 DEF StreamInv
        <4>2. applied'[i] = applied'[i0] /\ applied'[j] = applied'[j0]
          BY <1>2, <2>5, <3>1, <3>2
        <4>3. i0 \in 1..Len(applied') /\ j0 \in 1..Len(applied')
          BY <1>3
        <4>4. QED
          BY <2>5, <4>1, <4>2, <4>3
      <3>4. QED
        BY <3>1, <3>2, <3>3 DEF ReadInv
    <2>6. QED
      BY <1>2, <1>3, <2>1, <2>2, <2>3, <2>5
  <1>7. QED
    BY <1>4, <1>5, <1>6 DEF ReadInv

(* A step of the runner.  While a book is read its price has not been,     *)
(* since no pair is listed twice; the price is then read from a stream     *)
(* that holds that of the book or a later one.                             *)
LEMMA ReadsKept ==
  ASSUME IsInjective(TargetPairs), StreamInv, TickTypes, ReadInv, RunnerStep,
         UNCHANGED streamVars
  PROVE  ReadInv'
  <1>1. PICK p \in Pairs : p = TargetPairs[at]
    BY ConfiguredPairs DEF TickTypes
  <1>2. /\ at \in 1..Len(TargetPairs) /\ Len(TargetPairs) \in Nat
        /\ <<"orderbook", p>> \in Keys /\ <<"price", p>> \in Keys
    BY <1>1, ConfiguredPairs DEF TickTypes
  <1>3. applied' = applied /\ stream' = stream
    BY DEF streamVars
  <1>4. \A i, k : Wrote(i, k)' <=> Wrote(i, k)
    BY <1>3 DEF Wrote
  <1>5. /\ applied \in Seq(Updates)
        /\ \A i \in 1..Len(applied) : applied[i] \in Updates /\ applied[i] # None
    BY ElementOfSeq DEF StreamInv
  <1>6. CASE ReadBook
    <2>1. PICK v \in Answers("orderbook", p) :
            books' = [books EXCEPT ![p] = IF v = None THEN @ ELSE v]
      BY <1>1, <1>6 DEF ReadBook
    <2>2. pc = "book" /\ pc' = "price" /\ at' = at /\ prices' = prices
      BY <1>6 DEF ReadBook
    <2>3. PricesReadInTurn'
      BY <2>2 DEF ReadInv, PricesReadInTurn
    <2>4. prices[p] = None
      <3>1. SUFFICES ASSUME prices[p] # None PROVE FALSE
        OBVIOUS
      <3>2. PICK i \in 1..at - 1 : TargetPairs[i] = p
        BY <2>2, <3>1 DEF ReadInv, PricesReadInTurn
      <3>3. i \in 1..Len(TargetPairs) /\ i # at
        BY <1>2
      <3>4. QED
        BY <1>1, <1>2, <3>2, <3>3, ConfiguredPairs DEF IsInjective
    <2>5. v # None => \E i \in 1..Len(applied) : v = applied[i] /\ Wrote(i, <<"orderbook", p>>)
      BY <1>2, <2>1 DEF Answers, StreamInv
    <2>6. books' \in [Pairs -> Updates \cup {None}]
      BY <1>2, <2>1 DEF TickTypes, Answers, StreamInv
    <2>7. \A q \in Pairs : q # p => books'[q] = books[q]
      BY <2>1 DEF TickTypes
    <2>8. books'[p] = (IF v = None THEN books[p] ELSE v)
      BY <2>1 DEF TickTypes
    <2>9. ASSUME NEW q \in Pairs
          PROVE  /\ books'[q] # None =>
                      \E i \in 1..Len(applied) :
                        books'[q] = applied[i] /\ Wrote(i, <<"orderbook", q>>)
                 /\ prices[q] # None => \E j \in 1..Len(applied) : prices[q] = applied[j]
                 /\ \A i, j \in 1..Len(applied) :
                      books'[q] = applied[i] /\ prices[q] = applied[j] => i <= j
      <3>1. CASE q = p
        BY <1>5, <2>4, <2>5, <2>8, <3>1 DEF ReadInv
      <3>2. CASE q # p
        BY <2>7, <3>2 DEF ReadInv
      <3>3. QED
        BY <3>1, <3>2
    <2>10. QED
      BY <1>3, <1>4, <2>2, <2>3, <2>9 DEF ReadInv
  <1>7. CASE ReadPrice
    <2>1. PICK v \in Answers("price", p) :
            prices' = [prices EXCEPT ![p] = IF v = None THEN @ ELSE v]
      BY <1>1, <1>7 DEF ReadPrice
    <2>2. /\ pc = "price" /\ books' = books
          /\ \/ pc' = "book" /\ at' = at + 1
             \/ pc' = "process" /\ at' = at
      BY <1>7 DEF ReadPrice
    <2>3. \A q \in Pairs : q # p => prices'[q] = prices[q]
      BY <2>1 DEF TickTypes
    <2>4. prices'[p] = (IF v = None THEN prices[p] ELSE v)
      BY <2>1 DEF TickTypes
    <2>5. PricesReadInTurn'
      <3>1. CASE pc' = "process"
        BY <3>1 DEF PricesReadInTurn
      <3>2. CASE pc' = "book" /\ at' = at + 1
        <4>1. ASSUME NEW q \in Pairs, prices'[q] # None
              PROVE  \E i \in 1..at' - 1 : TargetPairs[i] = q
          <5>1. at \in 1..at' - 1 /\ 1..at - 1 \subseteq 1..at' - 1
            BY <1>2, <3>2
          <5>2. CASE q = p
            BY <1>1, <5>1, <5>2
          <5>3. CASE q # p
            BY <2>2, <2>3, <4>1, <5>1, <5>3 DEF ReadInv, PricesReadInTurn
          <5>4. QED
            BY <5>2, <5>3
        <4>2. QED
          BY <3>2, <4>1 DEF PricesReadInTurn
      <3>3. QED
        BY <2>2, <3>1, <3>2
    <2>6. v = stream[<<"price", p>>] \/ v = None
      BY <2>1 DEF Answers
    <2>7. v # None => \E j \in 1..Len(applied) : v = applied[j]
      BY <1>2, <2>6 DEF StreamInv
    <2>8. ASSUME NEW i \in 1..Len(applied), NEW j \in 1..Len(applied),
                 books[p] = applied[i], v = applied[j], v # None
          PROVE  i <= j
      <3>1. PICK i0 \in 1..Len(applied) :
              books[p] = applied[i0] /\ Wrote(i0, <<"orderbook", p>>)
        BY <1>5, <2>8 DEF ReadInv
      <3>2. i0 = i
        BY <2>8, <3>1 DEF StreamInv
      <3>3. Wrote(i, <<"price", p>>)
        BY <1>5, <3>1, <3>2, BatchesOfBooks DEF Wrote
      <3>4. PICK j0 \in 1..Len(applied) : i <= j0 /\ stream[<<"price", p>>] = applied[j0]
        BY <1>2, <3>3 DEF StreamInv
      <3>5. j0 = j
        BY <2>6, <2>8, <3>4 DEF StreamInv
      <3>6. QED
        BY <3>4, <3>5
    <2>9. ASSUME NEW q \in Pairs
          PROVE  /\ books[q] # None =>
                      \E i \in 1..Len(applied) :
                        books[q] = applied[i] /\ Wrote(i, <<"orderbook", q>>)
                 /\ prices'[q] # None => \E j \in 1..Len(applied) : prices'[q] = applied[j]
                 /\ \A i, j \in 1..Len(applied) :
                      books[q] = applied[i] /\ prices'[q] = applied[j] => i <= j
      <3>1. CASE q = p /\ v # None
        BY <2>4, <2>7, <2>8, <3>1 DEF ReadInv
      <3>2. CASE q # p \/ v = None
        <4>1. prices'[q] = prices[q]
          BY <2>3, <2>4, <3>2
        <4>2. QED
          BY <4>1 DEF ReadInv
      <3>3. QED
        BY <3>1, <3>2
    <2>10. QED
      BY <1>3, <1>4, <2>2, <2>5, <2>9 DEF ReadInv
  <1>8. CASE Process \/ Restart
    <2>1. at' = 1 /\ books' = Nothing /\ prices' = Nothing /\ pc' \notin {"book", "price", "process"}
      BY <1>8 DEF Process, Restart
    <2>2. \A q \in Pairs : Nothing[q] = None
      BY DEF Nothing
    <2>3. PricesReadInTurn'
      BY <2>1 DEF PricesReadInTurn
    <2>4. QED
      BY <1>3, <1>5, <2>1, <2>2, <2>3 DEF ReadInv
  <1>9. CASE UNCHANGED tickVars /\ (pc' = pc \/ pc \notin {"book", "price", "process"})
    <2>1. at' = at /\ books' = books /\ prices' = prices
      BY <1>9 DEF tickVars
    <2>2. PricesReadInTurn'
      <3>1. CASE pc' = pc
        BY <2>1, <3>1 DEF ReadInv, PricesReadInTurn
      <3>2. CASE pc \notin {"book", "price", "process"}
        BY <2>1, <3>2 DEF ReadInv, PricesReadInTurn, Nothing
      <3>3. QED
        BY <1>9, <3>1, <3>2
    <2>3. ASSUME NEW q \in Pairs
          PROVE  /\ books[q] # None =>
                      \E i \in 1..Len(applied) :
                        books[q] = applied[i] /\ Wrote(i, <<"orderbook", q>>)'
                 /\ prices[q] # None => \E j \in 1..Len(applied) : prices[q] = applied[j]
                 /\ \A i, j \in 1..Len(applied) :
                      books[q] = applied[i] /\ prices[q] = applied[j] => i <= j
      BY <1>4 DEF ReadInv
    <2>4. QED
      BY <1>3, <2>1, <2>2, <2>3 DEF ReadInv
  <1>10. QED
    BY <1>6, <1>7, <1>8, <1>9 DEF RunnerStep, Tick, ReadCount, Send, Receipt, Mine

-----------------------------------------------------------------------------
(* The monitor. *)

(* What the history is made of, the place of its gap included.             *)
MonitorInv ==
  /\ since \in Nat /\ delivered \in Nat /\ since + delivered <= Len(log)
  /\ service = "querying" => ~subscribed /\ history = <<>>
  /\ ~subscribed => since = 0 /\ delivered = 0
  /\ \E queried \in 0..Len(log) :
       /\ subscribed => queried <= since
       /\ history = SubSeq(log, 1, queried) \o SubSeq(log, since + 1, since + delivered)

(* A part of a log is not touched when the log grows.                      *)
LEMMA GrowthKeepsParts ==
  ASSUME NEW s \in Seq(Positive), NEW e \in Positive,
         NEW m \in Nat \ {0}, NEW n \in Nat, n <= Len(s)
  PROVE  SubSeq(Append(s, e), m, n) = SubSeq(s, m, n)
  <1>1. /\ Append(s, e) \in Seq(Positive) /\ Len(s) \in Nat
        /\ \A i \in 1..Len(s) : Append(s, e)[i] = s[i]
    BY AppendProperties, LenProperties
  <1>2. \A i \in m..n : i \in 1..Len(s) /\ s[i] \in Positive /\ Append(s, e)[i] = s[i]
    BY <1>1, ElementOfSeq
  <1>. DEFINE a == SubSeq(s, m, n)
              b == SubSeq(Append(s, e), m, n)
              size == IF m <= n THEN n - m + 1 ELSE 0
  <1>3. /\ a \in Seq(Positive) /\ Len(a) = size
        /\ \A i \in 1..n - m + 1 : a[i] = s[m + i - 1]
    BY <1>2, SubSeqProperties
  <1>4. /\ b \in Seq(Positive) /\ Len(b) = size
        /\ \A i \in 1..n - m + 1 : b[i] = Append(s, e)[m + i - 1]
    <2>. DEFINE t == Append(s, e)
    <2>1. \A i \in m..n : t[i] \in Positive
      BY <1>2
    <2>2. m \in Int /\ n \in Int
      OBVIOUS
    <2>. HIDE DEF t, Positive
    <2>3. /\ SubSeq(t, m, n) \in Seq(Positive)
          /\ Len(SubSeq(t, m, n)) = IF m <= n THEN n - m + 1 ELSE 0
          /\ \A i \in 1..n - m + 1 : SubSeq(t, m, n)[i] = t[m + i - 1]
      BY ONLY <2>1, <2>2, SubSeqProperties
    <2>4. QED
      BY <2>3 DEF t
  <1>5. \A i \in 1..size : i \in 1..n - m + 1 /\ m + i - 1 \in m..n
    OBVIOUS
  <1>. HIDE DEF a, b, size
  <1>6. \A i \in 1..Len(a) : a[i] = b[i]
    BY <1>2, <1>3, <1>4, <1>5
  <1>7. a = b
    BY <1>3, <1>4, <1>6, SeqEqual
  <1>8. QED
    BY <1>7 DEF a, b

LEMMA AppendedToSecond ==
  ASSUME NEW S, NEW a \in Seq(S), NEW b \in Seq(S), NEW e \in S
  PROVE  (a \o b) \o << e >> = a \o (b \o << e >>)
  <1>1. << e >> \in Seq(S)
    OBVIOUS
  <1>2. QED
    BY <1>1, ConcatAssociative

LEMMA MonitorStarts == ASSUME Init PROVE MonitorInv
  <1>1. /\ log = <<>> /\ service = "querying" /\ subscribed = FALSE
        /\ since = 0 /\ delivered = 0 /\ history = <<>>
    BY DEF Init, RunnerInit, MonitorInit
  <1>2. SubSeq(log, 1, 0) = <<>> /\ Len(log) = 0
    BY <1>1, SubSeqEmpty
  <1>3. SubSeq(log, 1, 0) \o SubSeq(log, since + 1, since + delivered) = <<>>
    BY <1>1, <1>2
  <1>4. QED
    BY <1>1, <1>2, <1>3 DEF MonitorInv

(* The vault settles another trade.                                        *)
LEMMA GrowthKeepsMonitor ==
  ASSUME MonitorInv, log \in Seq(Positive), NEW e \in Positive, log' = Append(log, e),
         UNCHANGED monitorVars
  PROVE  MonitorInv'
  <1>. USE DEF monitorVars
  <1>1. Len(log) \in Nat /\ Len(log') = Len(log) + 1
    BY AppendProperties, LenProperties
  <1>2. PICK queried \in 0..Len(log) :
          /\ subscribed => queried <= since
          /\ history = SubSeq(log, 1, queried) \o SubSeq(log, since + 1, since + delivered)
    BY DEF MonitorInv
  <1>3. SubSeq(log', 1, queried) = SubSeq(log, 1, queried)
    BY <1>1, GrowthKeepsParts
  <1>4. SubSeq(log', since + 1, since + delivered) = SubSeq(log, since + 1, since + delivered)
    BY <1>1, GrowthKeepsParts DEF MonitorInv
  <1>5. queried \in 0..Len(log')
    BY <1>1
  <1>6. since' + delivered' <= Len(log')
    BY <1>1 DEF MonitorInv
  <1>7. \E q \in 0..Len(log') :
          /\ subscribed' => q <= since'
          /\ history' = SubSeq(log', 1, q) \o SubSeq(log', since' + 1, since' + delivered')
    BY <1>2, <1>3, <1>4, <1>5
  <1>8. QED
    BY <1>6, <1>7 DEF MonitorInv

LEMMA MonitorKeeps ==
  ASSUME MonitorInv, log \in Seq(Positive), MonitorStep
  PROVE  MonitorInv'
  <1>. DEFINE Old(q) == SubSeq(log, 1, q)
              Late == SubSeq(log, since + 1, since + delivered)
  <1>1. log' = log /\ Len(log) \in Nat
    BY LenProperties DEF MonitorStep, Replay, Subscribe, Deliver, Exit
  <1>2. PICK queried \in 0..Len(log) :
          (subscribed => queried <= since) /\ history = Old(queried) \o Late
    BY DEF MonitorInv
  <1>3. since \in Nat /\ delivered \in Nat /\ since + delivered <= Len(log)
    BY DEF MonitorInv
  <1>4. CASE Replay
    <2>1. /\ service' = "listening" /\ history' = log
          /\ subscribed' = subscribed /\ since' = since /\ delivered' = delivered
          /\ ~subscribed /\ since = 0 /\ delivered = 0
      BY <1>4 DEF Replay, MonitorInv
    <2>2. Old(Len(log)) = log /\ Late = <<>>
      BY <2>1, SubSeqFull, SubSeqEmpty
    <2>3. history' = Old(Len(log)) \o Late
      BY <2>1, <2>2, ConcatEmptySeq
    <2>4. Len(log) \in 0..Len(log)
      BY <1>1
    <2>5. QED
      BY <1>1, <1>3, <2>1, <2>3, <2>4 DEF MonitorInv
  <1>5. CASE Subscribe
    <2>1. /\ service' = service /\ service # "querying" /\ history' = history
          /\ subscribed' = TRUE /\ since' = Len(log) /\ delivered' = delivered
          /\ since = 0 /\ delivered = 0
      BY <1>5 DEF Subscribe, Listening, MonitorInv
    <2>2. SubSeq(log, since' + 1, since' + delivered') = Late
      <3>1. Late = <<>>
        BY <2>1, SubSeqEmpty
      <3>2. SubSeq(log, Len(log) + 1, Len(log) + 0) = <<>>
        BY <1>1, SubSeqEmpty
      <3>3. QED
        BY <3>1, <3>2, <2>1
    <2>3. history' = Old(queried) \o SubSeq(log, since' + 1, since' + delivered')
      BY <1>2, <2>1, <2>2
    <2>4. QED
      BY <1>1, <1>2, <1>3, <2>1, <2>3 DEF MonitorInv
  <1>6. CASE Deliver
    <2>1. /\ service' = service /\ service # "querying"
          /\ subscribed' = subscribed /\ subscribed
          /\ since' = since /\ delivered' = delivered + 1
          /\ since + delivered < Len(log)
          /\ history' = Append(history, log[since + delivered + 1])
      BY <1>6 DEF Deliver, Listening
    <2>. DEFINE n == since + delivered + 1
    <2>2. n \in 1..Len(log) /\ since + 1 \in 1..Len(log) /\ n \in since + 1..Len(log)
      BY <1>1, <1>3, <2>1
    <2>3. n - 1 = since + delivered /\ since' + delivered' = n
      BY <1>3, <2>1
    <2>4. SubSeq(log, since + 1, n) = Late \o << log[n] >>
      BY <2>2, <2>3, SubSeqRecursiveSecond
    <2>5. Old(queried) \in Seq(Positive) /\ Late \in Seq(Positive)
      <3>1. \A i \in 1..Len(log) : log[i] \in Positive
        BY ElementOfSeq
      <3>2. Old(queried) \in Seq(Positive)
        BY <1>1, <3>1, SubSeqProperties
      <3>3. \A i \in since + 1..since + delivered : log[i] \in Positive
        BY <1>1, <1>3, <3>1
      <3>4. Late \in Seq(Positive)
        BY <1>3, <3>3, SubSeqProperties
      <3>5. QED
        BY <3>2, <3>4
    <2>6. log[n] \in Positive /\ << log[n] >> \in Seq(Positive)
      BY <2>2, ElementOfSeq
    <2>7. history \in Seq(Positive)
      BY <1>2, <2>5, ConcatProperties
    <2>. HIDE DEF Old, Late
    <2>8. history' = (Old(queried) \o Late) \o << log[n] >>
      BY <1>2, <2>1, <2>6, <2>7, AppendIsConcat
    <2>9. history' = Old(queried) \o (Late \o << log[n] >>)
      <3>. DEFINE e == log[n]
      <3>. HIDE DEF Positive, n, e
      <3>1. Old(queried) \in Seq(Positive) /\ Late \in Seq(Positive) /\ e \in Positive
        BY <2>5, <2>6 DEF e
      <3>2. (Old(queried) \o Late) \o << e >> = Old(queried) \o (Late \o << e >>)
        BY ONLY <3>1, AppendedToSecond
      <3>3. QED
        BY <2>8, <3>2 DEF e
    <2>10. history' = SubSeq(log, 1, queried) \o SubSeq(log, since' + 1, since' + delivered')
      BY <2>1, <2>3, <2>4, <2>9 DEF Old
    <2>11. since' \in Nat /\ delivered' \in Nat /\ since' + delivered' <= Len(log)
      BY <1>1, <1>3, <2>1
    <2>12. QED
      BY <1>1, <1>2, <2>1, <2>10, <2>11 DEF MonitorInv
  <1>7. CASE Exit
    BY <1>1, <1>7 DEF Exit, MonitorInv
  <1>8. QED
    BY <1>4, <1>5, <1>6, <1>7 DEF MonitorStep

-----------------------------------------------------------------------------
(* The theorems. *)

LoopInv == RunnerInv /\ MonitorInv

LEMMA LoopKeeps == ASSUME LoopInv, [Next]_vars PROVE LoopInv'
  <1>. USE DEF LoopInv
  <1>1. log \in Seq(Positive)
    BY DEF RunnerInv, RunnerTypes
  <1>2. CASE StreamStep /\ UNCHANGED <<runnerVars, monitorVars>>
    <2>1. RunnerInv'
      BY <1>2, Quiet, MinedType
      DEF RunnerInv, RunnerTypes, PendingLast, runnerVars, tickVars, agentVars, accountVars
    <2>2. QED
      BY <1>2, <2>1 DEF MonitorInv, runnerVars, accountVars, monitorVars
  <1>3. CASE RunnerStep /\ UNCHANGED <<streamVars, monitorVars>>
    <2>1. RunnerInv'
      BY <1>3, RunnerKeeps
    <2>2. CASE UNCHANGED log
      BY <1>3, <2>1, <2>2 DEF MonitorInv, monitorVars
    <2>3. CASE Mine
      <3>1. PICK m \in mempool : log' = Append(log, m.trade) \/ UNCHANGED log
        BY <2>3 DEF Mine
      <3>2. m.trade \in Positive
        BY DEF RunnerInv, RunnerTypes
      <3>3. QED
        BY <1>1, <1>3, <2>1, <2>2, <3>1, <3>2, GrowthKeepsMonitor
    <2>4. QED
      BY <1>3, <2>2, <2>3
      DEF RunnerStep, Tick, ReadBook, ReadPrice, Process, ReadCount, Send, Receipt, Restart,
          accountVars
  <1>4. CASE MonitorStep /\ UNCHANGED <<streamVars, runnerVars>>
    <2>1. MonitorInv'
      BY <1>1, <1>4, MonitorKeeps
    <2>2. RunnerInv'
      BY <1>4, Quiet, MinedType
      DEF RunnerInv, RunnerTypes, PendingLast, runnerVars, tickVars, agentVars, accountVars
    <2>3. QED
      BY <2>1, <2>2
  <1>5. CASE UNCHANGED vars
    <2>1. RunnerInv'
      BY <1>5, Quiet, MinedType
      DEF RunnerInv, RunnerTypes, PendingLast, vars, runnerVars, tickVars, agentVars, accountVars
    <2>2. QED
      BY <1>5, <2>1 DEF MonitorInv, vars, runnerVars, accountVars, monitorVars
  <1>6. QED
    BY <1>2, <1>3, <1>4, <1>5 DEF Next

LEMMA LoopInvariant == Spec => []LoopInv
  <1>1. Init => LoopInv
    BY RunnerStarts, MonitorStarts DEF Init, LoopInv
  <1>2. LoopInv /\ [Next]_vars => LoopInv'
    BY LoopKeeps
  <1>3. QED
    BY <1>1, <1>2, PTL DEF Spec

(* Types and bounds of all three parts.                                    *)
ServiceTypes ==
  /\ service \in {"querying", "listening", "exited"}
  /\ subscribed \in BOOLEAN

PartsInv == LoopInv /\ Bounds /\ StreamInv /\ TickTypes /\ ServiceTypes

LEMMA PartsKeep == ASSUME PartsInv, [Next]_vars PROVE PartsInv'
  <1>. USE DEF PartsInv
  <1>1. LoopInv' /\ LoopInv /\ RunnerInv
    BY LoopKeeps DEF LoopInv
  <1>2. ASSUME UNCHANGED runnerVars PROVE Bounds' /\ TickTypes'
    <2>1. Mined' = Mined /\ Done' = Done
      BY <1>2 DEF Mined, Done, runnerVars, agentVars, accountVars
    <2>2. QED
      BY <1>2, <2>1 DEF Bounds, TickTypes, runnerVars, agentVars, accountVars, tickVars
  <1>3. ASSUME UNCHANGED streamVars PROVE StreamInv'
    BY <1>3 DEF StreamInv, streamVars, Wrote
  <1>4. CASE StreamStep /\ UNCHANGED <<runnerVars, monitorVars>>
    BY <1>1, <1>2, <1>4, StreamKeeps DEF ServiceTypes, monitorVars
  <1>5. CASE RunnerStep /\ UNCHANGED <<streamVars, monitorVars>>
    BY <1>1, <1>3, <1>5, BoundsKept, TickTypesKept DEF ServiceTypes, monitorVars
  <1>6. CASE MonitorStep /\ UNCHANGED <<streamVars, runnerVars>>
    <2>1. ServiceTypes'
      BY <1>6 DEF ServiceTypes, MonitorStep, Replay, Subscribe, Deliver, Exit
    <2>2. QED
      BY <1>1, <1>2, <1>3, <1>6, <2>1
  <1>7. CASE UNCHANGED vars
    BY <1>1, <1>2, <1>3, <1>7 DEF vars, ServiceTypes, monitorVars
  <1>8. QED
    BY <1>4, <1>5, <1>6, <1>7 DEF Next

LEMMA PartsInvariant == Spec => []PartsInv
  <1>1. Init => PartsInv
    <2>1. SUFFICES ASSUME Init PROVE PartsInv
      OBVIOUS
    <2>2. LoopInv
      BY <2>1, RunnerStarts, MonitorStarts DEF Init, LoopInv
    <2>3. Bounds /\ StreamInv /\ TickTypes
      BY <2>1, BoundsStart, StreamStarts, ReadsStart DEF Init
    <2>4. ServiceTypes
      BY <2>1 DEF Init, MonitorInit, ServiceTypes
    <2>5. QED
      BY <2>2, <2>3, <2>4 DEF PartsInv
  <1>2. PartsInv /\ [Next]_vars => PartsInv'
    BY PartsKeep
  <1>3. QED
    BY <1>1, <1>2, PTL DEF Spec

(* The stream, the runner and the monitor keep their types, and their      *)
(* counters their bounds: the chain holds no trade that was not signed,    *)
(* the account nonce never runs ahead of the trades sent, and the monitor  *)
(* has no more trades than the vault has settled.                          *)
THEOREM LoopTypes == Spec => []TypeOK
  <1>1. PartsInv => TypeOK
    <2>1. SUFFICES ASSUME PartsInv PROVE TypeOK
      OBVIOUS
    <2>2. RunnerTypes /\ InOrder /\ PendingLast /\ Bounds /\ MonitorInv
      BY <2>1 DEF PartsInv, LoopInv, RunnerInv
    <2>3. StreamTypeOK
      BY <2>1 DEF PartsInv, StreamInv, StreamTypeOK
    <2>4. /\ Len(signed) \in Nat /\ Len(todo) \in Nat /\ Len(todo) <= Len(signed)
          /\ Done \in Int /\ Done <= Len(signed) /\ Mined \in Nat /\ Mined <= Done
      <3>1. Len(signed) \in Nat /\ Len(todo) \in Nat /\ Len(todo) <= Len(signed)
        BY <2>2, LenProperties DEF RunnerTypes, InOrder
      <3>2. pc = "receipt" => Len(todo) > 0
        BY <2>2 DEF InOrder
      <3>3. Done \in Int /\ Done <= Len(signed)
        BY <3>1, <3>2 DEF Done
      <3>4. Mined \in Nat
        BY <2>2, MinedType
      <3>5. Mined <= Done
        BY <2>2, <3>3, <3>4 DEF Bounds
      <3>6. QED
        BY <3>1, <3>3, <3>4, <3>5
    <2>5. RunnerTypeOK
      <3>1. nonce \in 0..MaxNonce /\ life \in 1..MaxLives /\ Len(signed) <= MaxTrades
        BY <2>2, <2>4 DEF RunnerTypes, Bounds
      <3>2. signed \in Seq([life : 1..MaxLives, nonce : 0..MaxNonce])
        <4>. DEFINE T == [life : 1..MaxLives, nonce : 0..MaxNonce]
        <4>1. \A t \in 1..Len(signed) : signed[t] \in T
          BY <2>2 DEF Bounds
        <4>. HIDE DEF T
        <4>2. signed \in [1..Len(signed) -> T]
          BY <2>2, <4>1 DEF RunnerTypes
        <4>3. signed \in Seq(T)
          BY <2>4, <4>2
        <4>4. QED
          BY <4>3 DEF T
      <3>3. todo \in Seq(Trades)
        <4>1. \A i \in 1..Len(todo) : todo[i] \in Trades
          BY <2>2, <2>4 DEF InOrder, Trades
        <4>2. todo \in [1..Len(todo) -> Trades]
          BY <2>2, <4>1 DEF RunnerTypes
        <4>3. QED
          BY <2>4, <4>2, SeqDef
      <3>4. slot \in 0..MaxTrades
        <4>1. slot \in Nat /\ (slot = 0 \/ slot <= Mined)
          BY <2>2 DEF RunnerTypes, PendingLast, Bounds
        <4>2. QED
          BY <2>4, <3>1, <4>1
      <3>5. mempool \subseteq [slot : 0..MaxTrades, trade : Trades]
        <4>1. SUFFICES ASSUME NEW m \in mempool
                       PROVE  m \in [slot : 0..MaxTrades, trade : Trades]
          OBVIOUS
        <4>2. /\ m \in [slot : Nat, trade : Positive]
              /\ m.slot = Mined /\ m.trade <= Done
          BY <2>2 DEF RunnerTypes, PendingLast
        <4>3. m.slot \in 0..MaxTrades /\ m.trade \in Trades
          BY <2>4, <3>1, <4>2 DEF Trades
        <4>4. QED
          BY <4>2, <4>3
      <3>6. reverted \subseteq Trades
        BY <2>2, <2>4 DEF RunnerTypes, PendingLast, Bounds, Trades
      <3>7. log \in Seq(Trades)
        <4>1. \A i \in 1..Len(log) : log[i] \in Positive /\ log[i] <= Done
          BY <2>2, ElementOfSeq DEF RunnerTypes, PendingLast
        <4>2. \A i \in 1..Len(log) : log[i] \in Trades
          BY <2>4, <4>1 DEF Trades
        <4>3. Len(log) \in Nat /\ log \in [1..Len(log) -> Trades]
          BY <2>2, <4>2 DEF RunnerTypes
        <4>4. QED
          BY <4>3, SeqDef
      <3>8. QED
        BY <2>1, <2>2, <3>1, <3>2, <3>3, <3>4, <3>5, <3>6, <3>7
        DEF RunnerTypeOK, RunnerTypes, PartsInv, TickTypes
    <2>6. MonitorTypeOK
      <3>1. Len(log) \in Nat /\ log \in Seq(Positive)
        BY <2>2, LenProperties DEF RunnerTypes
      <3>2. /\ since \in Nat /\ delivered \in Nat /\ since + delivered <= Len(log)
        BY <2>2 DEF MonitorInv
      <3>3. PICK queried \in 0..Len(log) :
              /\ subscribed => queried <= since
              /\ history = SubSeq(log, 1, queried) \o SubSeq(log, since + 1, since + delivered)
        BY <2>2 DEF MonitorInv
      <3>4. \A i \in 1..Len(log) : log[i] \in Positive
        BY <3>1, ElementOfSeq
      <3>5. SubSeq(log, 1, queried) \in Seq(Positive) /\ Len(SubSeq(log, 1, queried)) = queried
        <4>1. \A i \in 1..queried : log[i] \in Positive
          BY <3>1, <3>4
        <4>2. 1 \in Int /\ queried \in Int
          OBVIOUS
        <4>3. /\ SubSeq(log, 1, queried) \in Seq(Positive)
              /\ Len(SubSeq(log, 1, queried)) = IF 1 <= queried THEN queried - 1 + 1 ELSE 0
          BY <4>1, <4>2, SubSeqProperties
        <4>4. QED
          BY <4>3
      <3>6. /\ SubSeq(log, since + 1, since + delivered) \in Seq(Positive)
            /\ Len(SubSeq(log, since + 1, since + delivered)) = delivered
        <4>1. \A i \in since + 1..since + delivered : log[i] \in Positive
          BY <3>1, <3>2, <3>4
        <4>2. since + 1 \in Int /\ since + delivered \in Int
          BY <3>2
        <4>3. /\ SubSeq(log, since + 1, since + delivered) \in Seq(Positive)
              /\ Len(SubSeq(log, since + 1, since + delivered))
                   = IF since + 1 <= since + delivered THEN (since + delivered) - (since + 1) + 1
                     ELSE 0
          BY <4>1, <4>2, SubSeqProperties
        <4>4. QED
          BY <3>2, <4>3
      <3>7. Len(history) = queried + delivered
        BY <3>3, <3>5, <3>6, ConcatProperties
      <3>8. Len(history) <= Len(log)
        <4>1. CASE subscribed
          BY <3>1, <3>2, <3>3, <3>7, <4>1
        <4>2. CASE ~subscribed
          <5>1. delivered = 0
            BY <2>2, <4>2 DEF MonitorInv
          <5>2. queried + 0 = queried /\ queried <= Len(log)
            BY <3>1
          <5>3. QED
            BY <3>7, <5>1, <5>2
        <4>3. QED
          BY <4>1, <4>2
      <3>9. since \in 0..Len(log) /\ delivered \in 0..(Len(log) - since)
        BY <3>1, <3>2
      <3>10. QED
        BY <2>1, <3>8, <3>9 DEF MonitorTypeOK, PartsInv, ServiceTypes
    <2>7. QED
      BY <2>3, <2>5, <2>6 DEF TypeOK
  <1>2. QED
    BY <1>1, PartsInvariant, PTL

(* The price the agent infers from is never older than the book, although  *)
(* the two are read apart from a stream that goes on (runner.py, _tick).   *)
(* It holds for any configuration that lists no pair twice: for a pair     *)
(* listed twice a newer book may meet the older price.                     *)
THEOREM PriceFollowsBook ==
  ASSUME IsInjective(TargetPairs)
  PROVE  Spec => []PriceNotOlderThanBook
  <1>1. Init => ReadInv
    BY ReadsStart, StreamStarts DEF Init
  <1>2. ReadInv /\ PartsInv /\ [Next]_vars => ReadInv'
    <2>1. SUFFICES ASSUME ReadInv, PartsInv, [Next]_vars PROVE ReadInv'
      OBVIOUS
    <2>2. StreamInv /\ TickTypes
      BY <2>1 DEF PartsInv
    <2>3. ASSUME UNCHANGED <<streamVars, runnerVars>> PROVE ReadInv'
      <3>1. UNCHANGED <<applied, books, prices, pc, at>>
        BY <2>3 DEF streamVars, runnerVars, tickVars
      <3>2. PricesReadInTurn'
        BY <2>1, <3>1 DEF ReadInv, PricesReadInTurn
      <3>3. QED
        BY <2>1, <3>1, <3>2 DEF ReadInv, Wrote
    <2>4. CASE StreamStep /\ UNCHANGED <<runnerVars, monitorVars>>
      BY <2>1, <2>2, <2>4, StreamKeepsReads
    <2>5. CASE RunnerStep /\ UNCHANGED <<streamVars, monitorVars>>
      BY <2>1, <2>2, <2>5, ReadsKept
    <2>6. QED
      BY <2>1, <2>3, <2>4, <2>5 DEF Next, vars
  <1>3. PartsInv /\ ReadInv => PriceNotOlderThanBook
    <2>1. SUFFICES ASSUME PartsInv, ReadInv, NEW p \in Pairs, books[p] # None, prices[p] # None
                   PROVE  TakenAt(books[p]) <= TakenAt(prices[p])
      BY DEF PriceNotOlderThanBook
    <2>2. applied \in Seq(Updates) /\ DOMAIN applied = 1..Len(applied)
      BY <2>1 DEF PartsInv, StreamInv
    <2>3. /\ \E i \in 1..Len(applied) : books[p] = applied[i]
          /\ \E j \in 1..Len(applied) : prices[p] = applied[j]
      BY <2>1 DEF ReadInv
    <2>4. TakenAt(books[p]) \in 1..Len(applied) /\ applied[TakenAt(books[p])] = books[p]
      BY <2>2, <2>3 DEF TakenAt
    <2>5. TakenAt(prices[p]) \in 1..Len(applied) /\ applied[TakenAt(prices[p])] = prices[p]
      BY <2>2, <2>3 DEF TakenAt
    <2>6. QED
      BY <2>1, <2>4, <2>5 DEF ReadInv
  <1>4. QED
    BY <1>1, <1>2, <1>3, PartsInvariant, PTL DEF Spec

(* The runner of runner.py never has two transactions waiting.             *)
THEOREM OnePendingAlways == Spec => []OnePending
  <1>1. LoopInv => OnePending
    <2>1. SUFFICES ASSUME LoopInv PROVE OnePending
      OBVIOUS
    <2>2. \A m, n \in mempool : m = n
      BY <2>1 DEF LoopInv, RunnerInv, PendingLast
    <2>3. CASE mempool = {}
      BY <2>3, FS_EmptySet DEF OnePending
    <2>4. CASE mempool # {}
      <3>1. PICK m \in mempool : TRUE
        BY <2>4
      <3>2. mempool = {m}
        BY <2>2, <3>1
      <3>3. Cardinality({m}) = 1
        BY FS_Singleton
      <3>4. QED
        BY <3>2, <3>3 DEF OnePending
    <2>5. QED
      BY <2>3, <2>4
  <1>2. QED
    BY <1>1, LoopInvariant, PTL

(* Trades settle in the order in which the agent signed them, whatever     *)
(* hangs, is lost, is replaced or dies in between (runner.py).             *)
THEOREM SigningOrderAlways == Spec => []SettlesInSigningOrder
  <1>1. LoopInv => SettlesInSigningOrder
    BY LenProperties
    DEF LoopInv, RunnerInv, RunnerTypes, LogRises, SettlesInSigningOrder
  <1>2. QED
    BY <1>1, LoopInvariant, PTL

(* Within one life of the process no two trades have the same nonce: only  *)
(* after a restart may a trade lose its nonce to another (agent.py).       *)
THEOREM NonceReuseNeedsRestart == Spec => []OnlyRestartsReuseNonces
  <1>1. LoopInv => OnlyRestartsReuseNonces
    <2>1. SUFFICES ASSUME LoopInv,
                          NEW t \in Trades \ Settled, NEW s \in Settled,
                          signed[s].nonce = signed[t].nonce
                   PROVE  signed[s].life # signed[t].life
      BY DEF OnlyRestartsReuseNonces
    <2>2. /\ signed \in Seq(Signed) /\ log \in Seq(Positive)
          /\ Len(signed) \in Nat /\ Len(todo) \in Nat
          /\ DOMAIN log = 1..Len(log)
      BY <2>1, LenProperties DEF LoopInv, RunnerInv, RunnerTypes
    <2>3. PICK i \in 1..Len(log) : s = log[i]
      BY <2>2 DEF Settled, ToSet
    <2>4. s \in Positive
      BY <2>2, <2>3, ElementOfSeq
    <2>5. Done \in Int /\ Done <= Len(signed)
      <3>1. pc = "receipt" => Len(todo) > 0
        BY <2>1 DEF LoopInv, RunnerInv, InOrder
      <3>2. QED
        BY <2>2, <3>1 DEF Done
    <2>6. s \in 1..Len(signed)
      <3>1. s <= Done
        BY <2>1, <2>3 DEF LoopInv, RunnerInv, PendingLast
      <3>2. QED
        BY <3>1, <2>2, <2>4, <2>5
    <2>7. s # t /\ t \in 1..Len(signed)
      BY DEF Trades
    <2>8. QED
      BY <2>1, <2>6, <2>7 DEF LoopInv, RunnerInv, NoncesRise
  <1>2. QED
    BY <1>1, LoopInvariant, PTL

(* The monitor's history has one gap at most, between the query of the     *)
(* past events and the subscription, however trades settle around its      *)
(* start (monitor.ts, start).                                              *)
THEOREM HistoryHasOneGap == Spec => []MissesOnlyStartUp
  <1>1. LoopInv => MissesOnlyStartUp
    BY DEF LoopInv, MonitorInv, MissesOnlyStartUp
  <1>2. QED
    BY <1>1, LoopInvariant, PTL
=============================================================================
