-------------------------- MODULE StorageClient --------------------------
(***************************************************************************)
(* packages/storage-client: market feeds (MarketFeeds.tla) whose ticks the *)
(* archiver takes in (TickArchiver.tla), and the storage of models         *)
(* (ModelStorage.tla).  The halves share no state but the directory of     *)
(* temporary files, under different names: a process uses one of them,     *)
(* `half`.  `calls` counts what it is asked to do, for the bound.          *)
(***************************************************************************)
EXTENDS MarketFeeds, TickArchiver, ModelStorage

CONSTANTS MaxCalls  \* bound: half -> calls and ticks

ASSUME CallsAssumption == MaxCalls \in [{"feeds", "models"} -> Nat]

VARIABLES half, calls

vars == <<half, calls, clock, files, feedVars, archiverVars, modelVars>>

Bound == MaxCalls[half]
Roots == [by : 1..Bound \cup Models \cup {Torn}, key : EncKeys \cup {NoRecord},
          model : Models, at : 0..MaxClock \cup {Earlier}]
Ticks == 1..ingested

(* Types and ranges.                                                       *)
TypeOK ==
  /\ half \in {"feeds", "models"}
  /\ calls \in 0..Bound /\ clock \in 0..MaxClock
  /\ connects \in 0..MaxConnects /\ ws \in {"null", "open", "closed"}
  /\ others \in Nat /\ timers \in Nat
  /\ listeners \subseteq Pools
  /\ listened \in [Pools -> 0..Bound] /\ live \in [Pools -> 0..Bound]
  /\ ingested \in 0..Bound /\ buffer \in Seq(Ticks) /\ timer \in BOOLEAN
  /\ \A f \in flushing : f.batch \in Seq(Ticks) /\ f.step \in {"writing", "opening", "uploading"}
  /\ \A c \in uploads : c.step \in {"writing", "opening", "storing", "recording"}
  /\ \A c \in downloads : c.step \in {"looking", "fetching", "reading"}
  /\ blobs \subseteq Roots

Init ==
  /\ half \in {"feeds", "models"}
  /\ calls = 0 /\ clock = 0 /\ files = {}
  /\ FeedsInit /\ ArchiverInit /\ ModelInit

(* onTick, called by a socket that is not closed or by a pool's listener.  *)
OnTick ==
  /\ Connected \/ \E p \in Pools : Delivers(p)
  /\ Ingest

FeedCall == Connect \/ Disconnect \/ StopAll \/ \E p \in Pools : ListenToPool(p)

ModelCall ==
  \E m \in Models, k \in EncKeys : UploadModel(calls + 1, m, k) \/ DownloadModel(calls + 1, m, k)

Call ==
  /\ calls < Bound
  /\ calls' = calls + 1
  /\ UNCHANGED half
  /\ \/ half = "feeds" /\ FeedCall /\ UNCHANGED <<fileVars, archiverVars, modelVars>>
     \/ half = "feeds" /\ OnTick /\ UNCHANGED <<fileVars, feedVars, modelVars>>
     \/ half = "feeds" /\ Destroy /\ UNCHANGED <<feedVars, modelVars>>
     \/ half = "models" /\ ModelCall /\ UNCHANGED <<feedVars, archiverVars>>

TimedFlush == TimerFires /\ UNCHANGED <<half, calls, feedVars, modelVars>>

Next ==
  \/ Call
  \/ TimedFlush
  \/ (SocketCloses \/ ReconnectTimer) /\ UNCHANGED <<half, calls, fileVars, archiverVars, modelVars>>
  \/ (Flush \/ FlushStep) /\ UNCHANGED <<half, calls, feedVars, modelVars>>
  \/ ModelStep /\ UNCHANGED <<half, calls, feedVars, archiverVars>>
  \/ NextMillisecond /\ UNCHANGED <<half, calls, feedVars, archiverVars, modelVars>>

Spec == Init /\ [][Next]_vars

(* setInterval calls flush again and again until destroy.                  *)
FairSpec == Spec /\ WF_vars(TimedFlush)

-----------------------------------------------------------------------------
(* Properties *)

(* Each call of connect keeps one socket or one reconnection going for     *)
(* ever, through failures, overlapping calls and disconnect, which does    *)
(* not end it (binance.ts, the close handler): none is lost, none doubles. *)
(* stopAll silences the pools the map names; one listened to again before  *)
(* keeps a subscription that nothing can end (dex.ts, listenToPool).       *)
FeedsConserved ==
  /\ connects = (IF ws = "open" THEN 1 ELSE 0) + others + timers
  /\ \A p \in Pools :
       IF p \in listeners THEN Delivers(p) ELSE listened[p] = 1 => ~Delivers(p)

(* Every tick is in the buffer or in the batch of one flush, and the root  *)
(* of a flush holds that batch, however flushes overlap and fail: unless   *)
(* another began in the same millisecond.  The two share a file, and the   *)
(* root may hold the other's batch or parts of both; it holds nothing of   *)
(* another time (archiver.ts, flush, _uploadBatch).                        *)
Flushes == flushing \cup ToSet(roots) \cup lost
Batches == {f.batch : f \in Flushes}
TicksAccounted ==
  /\ IsInjective([i \in DOMAIN roots |-> roots[i].batch])
  /\ \A t \in Ticks : Cardinality({b \in Batches \cup {buffer} : t \in ToSet(b)}) = 1
  /\ \A r \in ToSet(roots) : r.content # r.batch =>
       \E f \in Flushes :
         f.at = r.at /\ f.batch # r.batch /\ r.content \in {f.batch, Torn}

(* The buffer is emptied in time, however long uploads hang, unless the    *)
(* archiver is destroyed before (archiver.ts, setInterval).                *)
BufferIsFlushed == buffer # <<>> ~> (buffer = <<>> \/ ~timer)

(* Whatever is on record of a model belongs to the weights on record: the  *)
(* blob they name is stored and was made by the upload that wrote the      *)
(* record, or with others of this model begun in the same millisecond, as  *)
(* they share a file (model-storage/index.ts, uploadModel, _uploadBytes).  *)
RecordsComplete ==
  \A m \in Models, f \in Fields :
    LET record == kv[<<f, m>>]
        weights == kv[<<"weights", m>>] IN
    record # NoRecord =>
      /\ weights # NoRecord /\ weights.root \in blobs
      /\ \/ weights.root.by = record.by
         \/ weights.root.model = m /\ weights.root.at = record.at

(* A download returns the weights that were on record when it looked, or   *)
(* those that another download begun in the same millisecond asked for,    *)
(* since they share a file: and never what does not open with its key      *)
(* (model-storage/index.ts, _downloadBytes, _decrypt).                     *)
DownloadsTheRecord ==
  \A d \in ended : d.got # NoRecord =>
    /\ d.got.key = d.key
    /\ \/ d.got = d.root
       \/ \E other \in ended \cup downloads :
            other.id # d.id /\ other.at = d.at /\ other.root = d.got
=============================================================================
