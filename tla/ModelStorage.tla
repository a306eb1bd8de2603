--------------------------- MODULE ModelStorage ---------------------------
(***************************************************************************)
(* packages/storage-client/src/model-storage/index.ts: ModelStorageClient, *)
(* which keeps encrypted weights in the log layer and their records in the *)
(* key-value layer.  Calls are asynchronous and may overlap.               *)
(*                                                                         *)
(* An encrypted blob is named by the call that made it (its nonce is       *)
(* random), with its model and millisecond, or by its model if it was made *)
(* before this process.  It opens with the key it was made with only       *)
(* (AES-GCM); its root hash stands for it.  Uploads are of one version.    *)
(***************************************************************************)
EXTENDS TempFiles

CONSTANTS Models, EncKeys, NoRecord,
          EarlierKey  \* model -> the key of the weights recorded before, or NoRecord

ASSUME ModelAssumption ==
  /\ NoRecord \notin EncKeys
  /\ EarlierKey \in [Models -> EncKeys \cup {NoRecord}]

VARIABLES
  uploads,    \* uploadModel calls under way: [id, model, key, at, step, root]
  downloads,  \* downloadModel calls under way: [id, model, key, at, step, root]
  blobs,      \* roots the log layer holds
  kv,         \* <<field, model>> -> what the stream holds: [by, at, root] or NoRecord
  ended       \* downloads that have ended: [id, at, key, root, got]

modelVars == <<uploads, downloads, blobs, kv, ended>>

Fields == {"weights", "meta", "norm"}

Earlier == -1  \* the time of what has no millisecond of this process
EarlierRoot(m) == [by |-> m, key |-> EarlierKey[m], model |-> m, at |-> Earlier]
EarlierModels == {m \in Models : EarlierKey[m] # NoRecord}

ModelInit ==
  /\ uploads = {} /\ downloads = {} /\ ended = {}
  /\ blobs = {EarlierRoot(m) : m \in EarlierModels}
  /\ kv = [k \in Fields \X Models |->
       IF k[2] \in EarlierModels THEN [by |-> k[2], at |-> Earlier, root |-> EarlierRoot(k[2])]
       ELSE NoRecord]

Encrypted(c) == [by |-> c.id, key |-> c.key, model |-> c.model, at |-> c.at]
ModelFile(c) == Path(<<"model", c.model>>, c.at)
DownloadFile(c) == Path(<<"dl">>, c.at)
UploadTo(c, d) == uploads' = (uploads \ {c}) \cup {d}
DownloadTo(c, d) == downloads' = (downloads \ {c}) \cup {d}

-----------------------------------------------------------------------------
(* uploadModel.  A key of the wrong length is refused at once.             *)

UploadModel(id, m, k) ==
  /\ uploads' = uploads \cup {[id |-> id, model |-> m, key |-> k,
                               at |-> clock, step |-> "writing", root |-> NoRecord]}
  /\ UNCHANGED <<downloads, blobs, kv, ended, fileVars>>

(* Uploads that share a file may find and leave parts of both in it, which *)
(* no key opens.  (Of two downloads this is as if the file did not open.)  *)
TornBlob(c) == [by |-> Torn, key |-> NoRecord, model |-> c.model, at |-> c.at]
MixedBlobs(c) == {TornBlob(c) : d \in {d \in uploads \ {c} : ModelFile(d) = ModelFile(c)}}

WriteBlob(c) ==
  /\ c.step = "writing"
  /\ \E blob \in {Encrypted(c)} \cup MixedBlobs(c) : files' = Written(ModelFile(c), blob)
  /\ UploadTo(c, [c EXCEPT !.step = "opening"])
  /\ UNCHANGED <<downloads, blobs, kv, ended, clock>>

OpenBlob(c) ==
  /\ c.step = "opening"
  /\ \E blob \in ContentsOf(ModelFile(c)) \cup MixedBlobs(c) :
       UploadTo(c, [c EXCEPT !.step = "storing", !.root = blob])
  /\ UNCHANGED <<downloads, blobs, kv, ended, fileVars>>

StoreBlob(c) ==
  /\ c.step = "storing"
  /\ blobs' = blobs \cup {c.root}
  /\ files' = Unlinked(ModelFile(c))
  /\ UploadTo(c, [c EXCEPT !.step = "recording"])
  /\ UNCHANGED <<downloads, kv, ended, clock>>

(* Mutant of UploadFails: a failed upload is recorded all the same.        *)
UploadFailsUnnoticed(c) ==
  IF c.step = "storing" THEN UploadTo(c, [c EXCEPT !.step = "recording"])
  ELSE uploads' = uploads \ {c}

(* Whatever fails ends the call before the next step.                      *)
UploadFails(c) == uploads' = uploads \ {c}

AbandonUpload(c) ==
  /\ UploadFails(c)
  /\ files' = IF c.step = "recording" THEN files ELSE Unlinked(ModelFile(c))
  /\ UNCHANGED <<downloads, blobs, kv, ended, clock>>

(* Mutant of Recorded: the normalisation stays that of the first upload.   *)
RecordedOnce == {"weights", "meta"}

(* What one batch sets.                                                    *)
Recorded == Fields

(* batcher.exec *)
RecordModel(c) ==
  /\ c.step = "recording"
  /\ kv' = [k \in Fields \X Models |->
       IF k \in Recorded \X {c.model} THEN [by |-> c.id, at |-> c.at, root |-> c.root]
       ELSE kv[k]]
  /\ uploads' = uploads \ {c}
  /\ UNCHANGED <<downloads, blobs, ended, fileVars>>

-----------------------------------------------------------------------------
(* downloadModel.  Reads of the stream that fail count as no record.       *)

DownloadModel(id, m, k) ==
  /\ downloads' = downloads \cup {[id |-> id, model |-> m, key |-> k,
                                   at |-> Earlier, step |-> "looking", root |-> NoRecord]}
  /\ UNCHANGED <<uploads, blobs, kv, ended, fileVars>>

LookUp(c) ==
  /\ c.step = "looking"
  /\ LET record == kv[<<"weights", c.model>>] IN
     /\ record # NoRecord
     /\ DownloadTo(c, [c EXCEPT !.step = "fetching", !.root = record.root, !.at = clock])
  /\ UNCHANGED <<uploads, blobs, kv, ended, fileVars>>

(* indexer.download returns its errors; _downloadBytes ignores them.       *)
Fetch(c) ==
  /\ c.step = "fetching"
  /\ \/ c.root \in blobs /\ files' = Written(DownloadFile(c), c.root)
     \/ UNCHANGED files
  /\ DownloadTo(c, [c EXCEPT !.step = "reading"])
  /\ UNCHANGED <<uploads, blobs, kv, ended, clock>>

(* Mutant of Opens: an unauthenticated cipher.                             *)
OpensWithAny(blob, k) == TRUE

(* decipher.final throws unless the blob was made with this key.           *)
Opens(blob, k) == blob.key = k

Ended(c, got) ==
  /\ downloads' = downloads \ {c}
  /\ ended' = ended \cup
       {[id |-> c.id, at |-> c.at, key |-> c.key, root |-> c.root, got |-> got]}

ReadBack(c) ==
  /\ c.step = "reading"
  /\ \E blob \in ContentsOf(DownloadFile(c)) : Opens(blob, c.key) /\ Ended(c, blob)
  /\ files' = Unlinked(DownloadFile(c))
  /\ UNCHANGED <<uploads, blobs, kv, clock>>

(* The stream has no record or does not answer, the file is not there, or  *)
(* it does not open with the key.                                          *)
DownloadFails(c) ==
  /\ Ended(c, NoRecord)
  /\ files' = IF c.step = "looking" THEN files ELSE Unlinked(DownloadFile(c))
  /\ UNCHANGED <<uploads, blobs, kv, clock>>

ModelStep ==
  \/ \E c \in uploads :
       WriteBlob(c) \/ OpenBlob(c) \/ StoreBlob(c) \/ AbandonUpload(c) \/ RecordModel(c)
  \/ \E c \in downloads : LookUp(c) \/ Fetch(c) \/ ReadBack(c) \/ DownloadFails(c)
=============================================================================
