--------------------------- MODULE TickArchiver ---------------------------
(***************************************************************************)
(* packages/storage-client/src/log-layer/archiver.ts:                      *)
(* HistoricalDataArchiver, which buffers ticks and uploads them in batches.*)
(* Flushes are asynchronous and may overlap.  A tick is named by the order *)
(* in which it was ingested.                                               *)
(***************************************************************************)
EXTENDS TempFiles

VARIABLES
  ingested,   \* how many ticks have been ingested
  buffer,     \* ticks not yet taken by a flush
  flushing,   \* flushes under way: [batch, at (the millisecond), step, content]
  roots,      \* uploadedRoots: what each holds, and for which flush [batch, at, content]
  lost,       \* the flushes that failed: [batch, at]
  timer       \* the interval timer is set

archiverVars == <<ingested, buffer, flushing, roots, lost, timer>>

ArchiverInit ==
  /\ ingested = 0 /\ buffer = <<>> /\ timer = TRUE
  /\ flushing = {} /\ roots = <<>> /\ lost = {}

Ingest ==
  /\ ingested' = ingested + 1
  /\ buffer' = Append(buffer, ingested + 1)
  /\ UNCHANGED <<flushing, roots, lost, timer>>

(* Mutant of BufferTaken: the buffer is left until the upload is through.  *)
BufferTakenLater == buffer

(* What flush leaves in the buffer.                                        *)
BufferTaken == <<>>

(* Mutant of MayFlush: no flush begins while another is under way.         *)
MayFlushAlone == buffer # <<>> /\ flushing = {}

MayFlush == buffer # <<>>

(* flush up to its first await, the writing of the file.                   *)
Flush ==
  /\ MayFlush
  /\ buffer' = BufferTaken
  /\ flushing' = flushing \cup
       {[batch |-> buffer, at |-> clock, step |-> "writing", content |-> <<>>]}
  /\ UNCHANGED <<ingested, roots, lost, timer, fileVars>>

TimerFires == timer /\ Flush

TicksFile(f) == Path(<<"ticks">>, f.at)
Moved(f, g) == (flushing \ {f}) \cup {g}

(* writeFile truncates and then writes, so that flushes that share a file  *)
(* may find and leave parts of each other's batches.                       *)
Mixed(f) == {Torn : g \in {g \in flushing \ {f} : TicksFile(g) = TicksFile(f)}}

(* The file is written and then opened, wherever its path leads by then.   *)
WriteBatch(f) ==
  /\ f.step = "writing"
  /\ \E c \in {f.batch} \cup Mixed(f) : files' = Written(TicksFile(f), c)
  /\ flushing' = Moved(f, [f EXCEPT !.step = "opening"])
  /\ UNCHANGED <<ingested, buffer, roots, lost, timer, clock>>

OpenBatch(f) ==
  /\ f.step = "opening"
  /\ \E c \in ContentsOf(TicksFile(f)) \cup Mixed(f) :
       flushing' = Moved(f, [f EXCEPT !.step = "uploading", !.content = c])
  /\ UNCHANGED <<ingested, buffer, roots, lost, timer, fileVars>>

(* The upload has succeeded: the root is of what the file held.            *)
UploadBatch(f) ==
  /\ f.step = "uploading"
  /\ roots' = Append(roots, [batch |-> f.batch, at |-> f.at, content |-> f.content])
  /\ flushing' = flushing \ {f}
  /\ files' = Unlinked(TicksFile(f))
  /\ UNCHANGED <<ingested, buffer, lost, timer, clock>>

(* Any step may fail, the opening because another flush has unlinked the   *)
(* file.  The batch is not put back.                                       *)
FlushFails(f) ==
  /\ lost' = lost \cup {[batch |-> f.batch, at |-> f.at]}
  /\ flushing' = flushing \ {f}
  /\ files' = Unlinked(TicksFile(f))
  /\ UNCHANGED <<ingested, buffer, roots, timer, clock>>

Destroy ==
  /\ timer' = FALSE
  /\ UNCHANGED <<ingested, buffer, flushing, roots, lost, fileVars>>

FlushStep == \E f \in flushing : WriteBatch(f) \/ OpenBatch(f) \/ UploadBatch(f) \/ FlushFails(f)
=============================================================================
