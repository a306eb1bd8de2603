--------------------------- MODULE MarketStream ---------------------------
(***************************************************************************)
(* packages/storage-client/src/kv-layer/server.ts: RealTimeDataServer,     *)
(* which writes market data to a stream of the 0G key-value layer.         *)
(*                                                                         *)
(* An update is one call of updateOrderBook, updatePrice or publishSignal. *)
(* Its values are told apart by the update that wrote them.  Calls are     *)
(* asynchronous and may overlap; the stream takes each batch as a whole,   *)
(* in an order of its own.                                                 *)
(***************************************************************************)
EXTENDS Integers, Sequences, FiniteSets, SequencesExt

CONSTANTS Pairs, Updates,
          TopicOf,  \* update -> [kind, of]: which call, for which pair (or signal id)
          Earlier,  \* the updates the stream had taken before the agent started
          None      \* no value

Kinds == {"book", "price", "signal"}

ASSUME StreamAssumption ==
  /\ \A u \in Updates : TopicOf[u].kind \in Kinds
  /\ Earlier \in Seq(Updates) /\ IsInjective(Earlier)
  /\ None \notin Updates

VARIABLES
  calls,    \* update -> where its call is
  stream,   \* key -> the update whose value it holds
  applied   \* the updates whose batch the stream has taken, in order

streamVars == <<calls, stream, applied>>

Subjects == Pairs \cup {TopicOf[u].of : u \in Updates}
Keys == {"orderbook", "price", "spread", "signal", "opportunity"} \X Subjects

StreamTypeOK ==
  /\ calls \in [Updates -> {"unused", "executing", "ended"}]
  /\ stream \in [Keys -> Updates \cup {None}]
  /\ applied \in Seq(Updates)

(* Mutant of Fields: the price of a snapshot is left to updatePrice.       *)
FieldsWithoutPrice(kind) ==
  CASE kind = "book" -> {"orderbook", "spread"}
    [] kind = "price" -> {"price"}
    [] kind = "signal" -> {"signal", "opportunity"}

(* The keys one batch sets.                                                *)
Fields(kind) ==
  CASE kind = "book" -> {"orderbook", "price", "spread"}
    [] kind = "price" -> {"price"}
    [] kind = "signal" -> {"signal", "opportunity"}

Batch(u) == Fields(TopicOf[u].kind) \X {TopicOf[u].of}

StreamInit ==
  /\ calls = [u \in Updates |-> IF u \in ToSet(Earlier) THEN "ended" ELSE "unused"]
  /\ stream = [k \in Keys |->
       LET last == SelectLastInSeq(Earlier, LAMBDA u : k \in Batch(u)) IN
       IF last = 0 THEN None ELSE Earlier[last]]
  /\ applied = Earlier

(* The call up to its first await; selectNodes touches nothing.            *)
Update(u) ==
  /\ calls[u] = "unused"
  /\ calls' = [calls EXCEPT ![u] = "executing"]
  /\ UNCHANGED <<stream, applied>>

(* batcher.exec: the stream takes the batch, or no node was selected or    *)
(* the request is lost.                                                    *)
BatchExecuted(u) ==
  /\ calls[u] = "executing"
  /\ calls' = [calls EXCEPT ![u] = "ended"]
  /\ \/ /\ stream' = [k \in Keys |-> IF k \in Batch(u) THEN u ELSE stream[k]]
        /\ applied' = Append(applied, u)
     \/ UNCHANGED <<stream, applied>>

StreamStep == \E u \in Updates : Update(u) \/ BatchExecuted(u)

(* What a read of a key may return: its value, or nothing if it fails.     *)
Answers(field, pair) == {stream[<<field, pair>>], None}
=============================================================================
