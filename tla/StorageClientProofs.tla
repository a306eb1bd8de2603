------------------------ MODULE StorageClientProofs ------------------------
(***************************************************************************)
(* Proofs about StorageClient.tla: sockets and subscriptions are conserved,*)
(* ticks are in one place each, records are complete and downloads return  *)
(* what was recorded, for any pools, models, keys, calls and overlaps.     *)
(***************************************************************************)
EXTENDS StorageClient, FiniteSetTheorems, SequenceTheorems, TLAPS

USE ClockAssumption, FeedAssumption, ModelAssumption, CallsAssumption

Frame == half \in {"feeds", "models"} /\ calls \in 0..Bound

LEMMA BoundType == half \in {"feeds", "models"} => Bound \in Nat
  BY DEF Bound

-----------------------------------------------------------------------------
(* The feeds. *)

FeedsInv ==
  /\ connects \in 0..MaxConnects /\ ws \in {"null", "open", "closed"}
  /\ others \in Nat /\ timers \in Nat
  /\ listeners \subseteq Pools
  /\ listened \in [Pools -> Nat] /\ live \in [Pools -> Nat]
  /\ \A p \in Pools : live[p] <= listened[p] /\ listened[p] <= calls
  /\ FeedsConserved

LEMMA FeedsQuiet ==
  ASSUME FeedsInv, calls \in Nat, calls' \in Nat, calls <= calls', UNCHANGED feedVars
  PROVE  FeedsInv'
  BY DEF FeedsInv, FeedsConserved, Delivers, feedVars, binanceVars, poolVars

LEMMA SocketsKeep ==
  ASSUME FeedsInv, calls \in Nat, calls' \in Nat, calls <= calls',
         Connect \/ Disconnect \/ SocketCloses \/ ReconnectTimer
  PROVE  FeedsInv'
  <1>1. UNCHANGED poolVars
    BY DEF Connect, Disconnect, SocketCloses, ReconnectTimer
  <1>2. /\ connects' \in 0..MaxConnects /\ ws' \in {"null", "open", "closed"}
        /\ others' \in Nat /\ timers' \in Nat
        /\ connects' = (IF ws' = "open" THEN 1 ELSE 0) + others' + timers'
    <2>. USE DEF FeedsInv, FeedsConserved
    <2>1. CASE Connect
      BY <2>1 DEF Connect, Reconnected
    <2>2. CASE Disconnect
      BY <2>2 DEF Disconnect, binanceVars
    <2>3. CASE SocketCloses
      BY <2>3 DEF SocketCloses, TimersAfterClose
    <2>4. CASE ReconnectTimer
      BY <2>4 DEF ReconnectTimer, Reconnected
    <2>5. QED
      BY <2>1, <2>2, <2>3, <2>4
  <1>3. /\ listeners' \subseteq Pools
        /\ listened' \in [Pools -> Nat] /\ live' \in [Pools -> Nat]
        /\ \A p \in Pools :
             /\ live'[p] <= listened'[p] /\ listened'[p] <= calls'
             /\ IF p \in listeners' THEN live'[p] > 0 ELSE listened'[p] = 1 => ~(live'[p] > 0)
    BY <1>1 DEF FeedsInv, FeedsConserved, Delivers, poolVars
  <1>4. QED
    BY <1>2, <1>3 DEF FeedsInv, FeedsConserved, Delivers

LEMMA PoolsKeep ==
  ASSUME FeedsInv, calls \in Nat, calls' = calls + 1,
         StopAll \/ \E p \in Pools : ListenToPool(p)
  PROVE  FeedsInv'
  <1>1. UNCHANGED binanceVars
    BY DEF StopAll, ListenToPool
  <1>2. CASE StopAll
    <2>1. /\ live' = [p \in Pools |-> IF p \in listeners THEN live[p] - 1 ELSE live[p]]
          /\ listeners' = {} /\ listened' = listened
      BY <1>2 DEF StopAll
    <2>2. \A p \in Pools : /\ live'[p] \in Nat
                           /\ live'[p] <= listened'[p] /\ listened'[p] <= calls'
                           /\ listened'[p] = 1 => ~(live'[p] > 0)
      BY <2>1 DEF FeedsInv, FeedsConserved, Delivers
    <2>3. live' \in [Pools -> Nat]
      BY <2>1, <2>2
    <2>4. QED
      BY <1>1, <2>1, <2>2, <2>3 DEF FeedsInv, FeedsConserved, Delivers, binanceVars
  <1>3. CASE \E p \in Pools : ListenToPool(p)
    <2>1. PICK p \in Pools : ListenToPool(p)
      BY <1>3
    <2>2. /\ listened' = [listened EXCEPT ![p] = @ + 1] /\ live' = [live EXCEPT ![p] = @ + 1]
          /\ listeners' = listeners \cup {p}
      BY <2>1 DEF ListenToPool
    <2>3. listened' \in [Pools -> Nat] /\ live' \in [Pools -> Nat]
      BY <2>2 DEF FeedsInv
    <2>4. ASSUME NEW q \in Pools
          PROVE  /\ live'[q] <= listened'[q] /\ listened'[q] <= calls'
                 /\ IF q \in listeners' THEN live'[q] > 0 ELSE listened'[q] = 1 => ~(live'[q] > 0)
      BY <2>2 DEF FeedsInv, FeedsConserved, Delivers
    <2>5. QED
      BY <1>1, <2>2, <2>3, <2>4 DEF FeedsInv, FeedsConserved, Delivers, binanceVars
  <1>4. QED
    BY <1>2, <1>3

-----------------------------------------------------------------------------
(* The archiver. *)

Places == Batches \cup {buffer}

(* A batch of a flush that began in this millisecond.                      *)
Flushed(t, b) == \E f \in Flushes : f.at = t /\ f.batch = b

(* What a flush of this batch has read: the batch, or something of another.*)
ReadFor(t, b, content) ==
  content # b => \E f \in Flushes : f.at = t /\ f.batch # b /\ content \in {f.batch, Torn}

(* What a file holds that flushes of this millisecond have.                *)
LeftBy(t, content) ==
  \/ Flushed(t, content)
  \/ content = Torn /\ \E b, d : b # d /\ Flushed(t, b) /\ Flushed(t, d)

FlushType(f) ==
  /\ f \in [batch : {f.batch}, at : {f.at}, content : {f.content},
            step : {"writing", "opening", "uploading"}]
  /\ f.step = "uploading" => ReadFor(f.at, f.batch, f.content)

TickFileOK(f) == f.path[1] = <<"ticks">> => LeftBy(f.path[2], f.content)

TicksInv ==
  /\ ingested \in Nat /\ ingested <= calls /\ timer \in BOOLEAN
  /\ \A f \in flushing : FlushType(f)
  /\ \E S : roots \in Seq(S)
  /\ \A b \in Places : b \in Seq(Ticks)
  /\ \A t \in Ticks : \E b \in Places : \A c \in Places : t \in ToSet(c) <=> c = b
  /\ buffer # <<>> => buffer \notin Batches
  /\ \A f, g \in flushing : f.batch = g.batch => f = g
  /\ \A f \in flushing : \A i \in DOMAIN roots : roots[i].batch # f.batch
  /\ \A i, j \in DOMAIN roots : roots[i].batch = roots[j].batch => i = j
  /\ \A r \in ToSet(roots) : ReadFor(r.at, r.batch, r.content)
  /\ \A f \in files : TickFileOK(f)

(* No flush is forgotten: it is under way, has its root or has failed.     *)
FlushesStay == \A f \in Flushes : \E g \in Flushes' : g.at = f.at /\ g.batch = f.batch

LEMMA StaysFlushed ==
  ASSUME FlushesStay, NEW t, NEW b, Flushed(t, b)
  PROVE  Flushed(t, b)'
  BY DEF FlushesStay, Flushed

LEMMA StaysRead ==
  ASSUME FlushesStay, NEW t, NEW b, NEW content, ReadFor(t, b, content)
  PROVE  ReadFor(t, b, content)'
  BY DEF FlushesStay, ReadFor

LEMMA TickFilesKeep ==
  ASSUME FlushesStay, NEW f, TickFileOK(f)
  PROVE  TickFileOK(f)'
  BY StaysFlushed DEF TickFileOK, LeftBy

(* What a flush finds in its file.                                         *)
LEMMA FoundInFile ==
  ASSUME NEW t, NEW b, NEW content, LeftBy(t, content)
  PROVE  ReadFor(t, b, content)
  BY DEF LeftBy, ReadFor, Flushed

(* Parts of batches are of two flushes, one of which is this.              *)
LEMMA MixedWithAnother ==
  ASSUME TicksInv, NEW f \in flushing, NEW c \in Mixed(f)
  PROVE  c = Torn /\ \E g \in Flushes : g.at = f.at /\ g.batch # f.batch
  <1>1. PICK g \in flushing \ {f} : TicksFile(g) = TicksFile(f) /\ c = Torn
    BY DEF Mixed
  <1>2. g.at = f.at
    BY <1>1 DEF TicksFile, Path
  <1>3. g \in Flushes /\ g.batch # f.batch
    BY <1>1 DEF TicksInv, Flushes
  <1>4. QED
    BY <1>1, <1>2, <1>3

LEMMA TicksFollow == TicksInv => TicksAccounted
  <1>1. SUFFICES ASSUME TicksInv PROVE TicksAccounted
    OBVIOUS
  <1>2. IsInjective([i \in DOMAIN roots |-> roots[i].batch])
    BY <1>1 DEF TicksInv, IsInjective
  <1>3. ASSUME NEW t \in Ticks
        PROVE  Cardinality({b \in Batches \cup {buffer} : t \in ToSet(b)}) = 1
    <2>1. PICK b \in Places : \A c \in Places : t \in ToSet(c) <=> c = b
      BY <1>1 DEF TicksInv
    <2>2. {c \in Batches \cup {buffer} : t \in ToSet(c)} = {b}
      BY <2>1 DEF Places
    <2>3. QED
      BY <2>2, FS_Singleton
  <1>4. \A r \in ToSet(roots) : r.content # r.batch =>
          \E f \in Flushes : f.at = r.at /\ f.batch # r.batch /\ r.content \in {f.batch, Torn}
    BY <1>1 DEF TicksInv, ReadFor
  <1>5. QED
    BY <1>2, <1>3, <1>4 DEF TicksAccounted

LEMMA TicksQuiet ==
  ASSUME TicksInv, calls \in Nat, calls' \in Nat, calls <= calls',
         UNCHANGED <<ingested, buffer, flushing, roots, lost>>, timer' \in BOOLEAN,
         \A f \in files' : f \in files \/ f.path[1] # <<"ticks">>
  PROVE  TicksInv'
  <1>1. Flushes' = Flushes
    BY DEF Flushes
  <1>2. Places' = Places /\ Batches' = Batches /\ Ticks' = Ticks /\ FlushesStay
    BY <1>1 DEF Places, Batches, Ticks, FlushesStay
  <1>3. \A f \in files' : TickFileOK(f)'
    <2>1. TAKE f \in files'
    <2>2. CASE f \in files
      BY <1>2, <2>2, TickFilesKeep DEF TicksInv
    <2>3. CASE f.path[1] # <<"ticks">>
      BY <2>3 DEF TickFileOK
    <2>4. QED
      BY <2>2, <2>3
  <1>4. \A f \in flushing : FlushType(f)'
    BY <1>1 DEF TicksInv, FlushType, ReadFor
  <1>5. \A r \in ToSet(roots) : ReadFor(r.at, r.batch, r.content)'
    BY <1>1 DEF TicksInv, ReadFor
  <1>6. QED
    BY <1>2, <1>3, <1>4, <1>5 DEF TicksInv

LEMMA IngestKeeps ==
  ASSUME TicksInv, Ingest, calls \in Nat, calls' = calls + 1, UNCHANGED files
  PROVE  TicksInv'
  <1>. DEFINE new == ingested + 1
  <1>1. /\ ingested' = new /\ buffer' = Append(buffer, new) /\ ingested \in Nat
        /\ UNCHANGED <<flushing, roots, lost, timer>>
    BY DEF Ingest, TicksInv
  <1>2. Batches' = Batches /\ Flushes' = Flushes
    BY <1>1 DEF Batches, Flushes
  <1>3. Ticks' = Ticks \cup {new} /\ new \notin Ticks /\ Ticks \subseteq Ticks' /\ new \in Ticks'
    BY <1>1 DEF Ticks
  <1>4. buffer \in Seq(Ticks) /\ \A b \in Batches : b \in Seq(Ticks)
    BY DEF TicksInv, Places
  <1>5. \A b \in Batches : b \in Seq(Ticks') /\ new \notin ToSet(b)
    BY <1>3, <1>4, SeqMonotonic, ElementOfSeq, LenProperties DEF ToSet
  <1>6. /\ buffer' \in Seq(Ticks') /\ ToSet(buffer') = ToSet(buffer) \cup {new}
        /\ buffer' # <<>>
    <2>1. buffer \in Seq(Ticks')
      BY <1>3, <1>4, SeqMonotonic
    <2>2. /\ buffer' \in Seq(Ticks') /\ buffer' # <<>> /\ Len(buffer') = Len(buffer) + 1
          /\ \A i \in 1..Len(buffer) : buffer'[i] = buffer[i]
          /\ buffer'[Len(buffer) + 1] = new
      BY <1>1, <1>3, <2>1, AppendProperties
    <2>3. Len(buffer) \in Nat /\ DOMAIN buffer = 1..Len(buffer) /\ DOMAIN buffer' = 1..Len(buffer')
      BY <2>1, <2>2, LenProperties
    <2>4. DOMAIN buffer' = DOMAIN buffer \cup {Len(buffer) + 1}
      BY <2>2, <2>3
    <2>5. QED
      BY <2>2, <2>3, <2>4 DEF ToSet
  <1>7. buffer' \notin Batches'
    BY <1>2, <1>5, <1>6
  <1>8. new \notin ToSet(buffer)
    BY <1>3, <1>4, ElementOfSeq, LenProperties DEF ToSet
  <1>9. ASSUME NEW t \in Ticks'
        PROVE  \E b \in Places' : \A c \in Places' : t \in ToSet(c) <=> c = b
    <2>1. CASE t = new
      <3>1. \A c \in Places' : t \in ToSet(c) <=> c = buffer'
        BY <1>2, <1>5, <1>6, <2>1, <1>7 DEF Places
      <3>2. QED
        BY <3>1 DEF Places
    <2>2. CASE t # new
      <3>1. t \in Ticks
        BY <1>3, <2>2
      <3>2. PICK b \in Places : \A c \in Places : t \in ToSet(c) <=> c = b
        BY <3>1 DEF TicksInv
      <3>3. CASE b = buffer
        <4>1. t \in ToSet(buffer) /\ buffer # <<>>
          BY <3>2, <3>3 DEF ToSet
        <4>2. \A c \in Batches : t \notin ToSet(c)
          BY <3>2, <3>3, <4>1 DEF Places, TicksInv
        <4>3. \A c \in Places' : t \in ToSet(c) <=> c = buffer'
          BY <1>2, <1>6, <4>1, <4>2 DEF Places
        <4>4. QED
          BY <4>3 DEF Places
      <3>4. CASE b # buffer
        <4>1. t \notin ToSet(buffer) /\ b \in Batches /\ t \notin ToSet(buffer')
          BY <3>2, <3>4, <1>6, <2>2 DEF Places
        <4>2. \A c \in Places' : t \in ToSet(c) <=> c = b
          BY <1>2, <3>2, <4>1 DEF Places
        <4>3. QED
          BY <1>2, <4>1, <4>2 DEF Places
      <3>5. QED
        BY <3>3, <3>4
    <2>3. QED
      BY <2>1, <2>2
  <1>10. \A b \in Places' : b \in Seq(Ticks')
    BY <1>2, <1>5, <1>6 DEF Places
  <1>11. ingested' \in Nat /\ ingested' <= calls'
    BY <1>1 DEF TicksInv
  <1>12. \A f \in flushing : FlushType(f)'
    BY <1>2 DEF TicksInv, FlushType, ReadFor
  <1>13. \A r \in ToSet(roots) : ReadFor(r.at, r.batch, r.content)'
    BY <1>2 DEF TicksInv, ReadFor
  <1>14. \A f \in files : TickFileOK(f)'
    <2>1. FlushesStay
      BY <1>2 DEF FlushesStay
    <2>2. QED
      BY <2>1, TickFilesKeep DEF TicksInv
  <1>15. QED
    BY <1>1, <1>7, <1>9, <1>10, <1>11, <1>12, <1>13, <1>14 DEF TicksInv

LEMMA FlushKeeps ==
  ASSUME TicksInv, Flush, calls' = calls
  PROVE  TicksInv'
  <1>. PICK new : new = [batch |-> buffer, at |-> clock, step |-> "writing", content |-> <<>>]
    OBVIOUS
  <1>1. /\ buffer # <<>> /\ buffer' = <<>> /\ flushing' = flushing \cup {new}
        /\ UNCHANGED <<ingested, roots, lost, timer, files>>
    BY DEF Flush, MayFlush, BufferTaken, fileVars
  <1>2. FlushType(new)' /\ new.batch = buffer
    BY DEF FlushType
  <1>3. Flushes' = Flushes \cup {new} /\ FlushesStay
    BY <1>1 DEF Flushes, FlushesStay
  <1>4. Batches' = Batches \cup {buffer} /\ Ticks' = Ticks
    BY <1>1, <1>2, <1>3 DEF Batches, Ticks
  <1>5. Places' = Places \cup {<<>>} /\ ToSet(<<>>) = {} /\ <<>> \in Seq(Ticks)
    BY <1>1, <1>4 DEF Places, ToSet
  <1>6. buffer \notin Batches
    BY <1>1 DEF TicksInv
  <1>7. /\ \A f \in flushing : f.batch # new.batch
        /\ \A i \in DOMAIN roots : roots[i].batch # new.batch
    BY <1>2, <1>6 DEF Batches, Flushes, ToSet
  <1>8. \A t \in Ticks' : \E b \in Places' : \A c \in Places' : t \in ToSet(c) <=> c = b
    BY <1>4, <1>5 DEF TicksInv
  <1>9. \A f, g \in flushing' : f.batch = g.batch => f = g
    BY <1>1, <1>7 DEF TicksInv
  <1>10. \A f \in flushing' : FlushType(f)' /\ \A i \in DOMAIN roots : roots[i].batch # f.batch
    <2>1. \A f \in flushing : FlushType(f)'
      BY <1>3, StaysRead DEF TicksInv, FlushType
    <2>2. \A f \in flushing : \A i \in DOMAIN roots : roots[i].batch # f.batch
      BY DEF TicksInv
    <2>3. QED
      BY <1>1, <1>2, <1>7, <2>1, <2>2
  <1>11. \A b \in Places' : b \in Seq(Ticks')
    BY <1>4, <1>5 DEF TicksInv
  <1>12. \A r \in ToSet(roots) : ReadFor(r.at, r.batch, r.content)'
    BY <1>3, StaysRead DEF TicksInv
  <1>13. \A f \in files : TickFileOK(f)'
    BY <1>3, TickFilesKeep DEF TicksInv
  <1>14. QED
    BY <1>1, <1>8, <1>9, <1>10, <1>11, <1>12, <1>13 DEF TicksInv

(* A flush goes on with its batch.                                         *)
LEMMA FlushGoesOn ==
  ASSUME TicksInv, NEW f \in flushing, NEW g, g.batch = f.batch, g.at = f.at,
         FlushesStay => FlushType(g)',
         flushing' = Moved(f, g),
         \A h \in files' : h \in files \/ (h.path[1] = <<"ticks">> => LeftBy(h.path[2], h.content)),
         UNCHANGED <<ingested, buffer, roots, lost, timer, calls>>
  PROVE  TicksInv'
  <1>1. flushing' = (flushing \ {f}) \cup {g}
    BY DEF Moved
  <1>2. FlushesStay /\ g \in Flushes'
    BY <1>1 DEF Flushes, FlushesStay
  <1>3. Batches' = Batches /\ Ticks' = Ticks
    BY <1>1 DEF Batches, Flushes, Ticks
  <1>4. Places' = Places
    BY <1>3 DEF Places
  <1>5. \A h \in flushing' : FlushType(h)' /\ \A i \in DOMAIN roots : roots[i].batch # h.batch
    <2>1. \A h \in flushing : FlushType(h)'
      BY <1>2, StaysRead DEF TicksInv, FlushType
    <2>2. QED
      BY <1>1, <1>2, <2>1 DEF TicksInv
  <1>6. \A h, k \in flushing' : h.batch = k.batch => h = k
    BY <1>1 DEF TicksInv
  <1>7. \A r \in ToSet(roots) : ReadFor(r.at, r.batch, r.content)'
    BY <1>2, StaysRead DEF TicksInv
  <1>8. \A h \in files' : TickFileOK(h)'
    <2>1. TAKE h \in files'
    <2>2. CASE h \in files
      BY <1>2, <2>2, TickFilesKeep DEF TicksInv
    <2>3. CASE h.path[1] = <<"ticks">> => LeftBy(h.path[2], h.content)
      BY <1>2, <2>3, TickFilesKeep DEF TickFileOK
    <2>4. QED
      BY <2>2, <2>3
  <1>9. QED
    BY <1>3, <1>4, <1>5, <1>6, <1>7, <1>8 DEF TicksInv

LEMMA WrittenOrKept ==
  ASSUME NEW path, NEW content, files' = Written(path, content), NEW f \in files'
  PROVE  f \in files \/ (f.path = path /\ f.content = content)
  BY DEF Written, Unlinked

LEMMA FlushStepKeeps ==
  ASSUME TicksInv, FlushStep, calls' = calls
  PROVE  TicksInv'
  <1>1. PICK f \in flushing : WriteBatch(f) \/ OpenBatch(f) \/ UploadBatch(f) \/ FlushFails(f)
    BY DEF FlushStep
  <1>2. FlushType(f) /\ f \in Flushes
    BY DEF TicksInv, Flushes
  <1>3. CASE WriteBatch(f)
    <2>. DEFINE g == [f EXCEPT !.step = "opening"]
    <2>1. FlushType(g)' /\ g.batch = f.batch /\ g.at = f.at
      BY <1>2 DEF FlushType
    <2>2. PICK c \in {f.batch} \cup Mixed(f) : files' = Written(TicksFile(f), c)
      BY <1>3 DEF WriteBatch
    <2>3. \A h \in files' : h \in files \/ (h.path[1] = <<"ticks">> => LeftBy(h.path[2], h.content))
      <3>1. LeftBy(f.at, c)
        <4>1. CASE c = f.batch
          BY <1>2, <4>1 DEF LeftBy, Flushed
        <4>2. CASE c \in Mixed(f)
          BY <1>2, <4>2, MixedWithAnother DEF LeftBy, Flushed
        <4>3. QED
          BY <2>2, <4>1, <4>2
      <3>2. \A h \in files' : h \in files \/ (h.path = TicksFile(f) /\ h.content = c)
        BY <2>2, WrittenOrKept
      <3>3. QED
        BY <3>1, <3>2 DEF TicksFile, Path
    <2>4. flushing' = Moved(f, g) /\ UNCHANGED <<ingested, buffer, roots, lost, timer>>
      BY <1>3 DEF WriteBatch
    <2>. HIDE DEF g
    <2>5. QED
      BY <2>1, <2>3, <2>4, FlushGoesOn
  <1>4. CASE OpenBatch(f)
    <2>1. PICK c \in ContentsOf(TicksFile(f)) \cup Mixed(f) :
            flushing' = Moved(f, [f EXCEPT !.step = "uploading", !.content = c])
      BY <1>4 DEF OpenBatch
    <2>. DEFINE g == [f EXCEPT !.step = "uploading", !.content = c]
    <2>2. g \in [batch : {f.batch}, at : {f.at}, content : {c}, step : {"uploading"}]
      BY <1>2 DEF FlushType
    <2>3. flushing' = Moved(f, g) /\ UNCHANGED <<ingested, buffer, roots, lost, timer, files>>
      BY <1>4, <2>1 DEF OpenBatch, fileVars
    <2>. HIDE DEF g
    <2>4. g.batch = f.batch /\ g.at = f.at /\ g.step = "uploading" /\ g.content = c
      BY <2>2
    <2>5. ReadFor(f.at, f.batch, c)
      <3>1. CASE c \in ContentsOf(TicksFile(f))
        <4>1. PICK h \in files : h.path = TicksFile(f) /\ h.content = c
          BY <3>1 DEF ContentsOf
        <4>2. h.path[1] = <<"ticks">> /\ h.path[2] = f.at
          BY <4>1 DEF TicksFile, Path
        <4>3. LeftBy(f.at, c)
          BY <4>1, <4>2 DEF TicksInv, TickFileOK
        <4>4. QED
          BY <4>3, FoundInFile
      <3>2. CASE c \in Mixed(f)
        BY <3>2, MixedWithAnother DEF ReadFor
      <3>3. QED
        BY <2>1, <3>1, <3>2
    <2>6. FlushesStay => FlushType(g)'
      BY <2>2, <2>4, <2>5, StaysRead DEF FlushType
    <2>7. QED
      BY <2>3, <2>4, <2>6, FlushGoesOn
  <1>5. CASE UploadBatch(f)
    <2>. DEFINE r == [batch |-> f.batch, at |-> f.at, content |-> f.content]
    <2>1. /\ roots' = Append(roots, r) /\ flushing' = flushing \ {f}
          /\ r.batch = f.batch /\ r.at = f.at /\ r.content = f.content
          /\ UNCHANGED <<ingested, buffer, lost, timer>>
          /\ f.step = "uploading" /\ \A h \in files' : h \in files
      BY <1>5 DEF UploadBatch, Unlinked
    <2>. HIDE DEF r
    <2>2. PICK S : roots \in Seq(S)
      BY DEF TicksInv
    <2>3. roots \in Seq(S \cup {r})
      BY <2>2, SeqMonotonic
    <2>4. /\ roots' \in Seq(S \cup {r}) /\ Len(roots') = Len(roots) + 1
          /\ \A i \in 1..Len(roots) : roots'[i] = roots[i]
          /\ roots'[Len(roots) + 1] = r
      BY <2>1, <2>3, AppendProperties
    <2>5. Len(roots) \in Nat /\ DOMAIN roots = 1..Len(roots) /\ DOMAIN roots' = 1..Len(roots')
      BY <2>3, <2>4, LenProperties
    <2>6. DOMAIN roots' = DOMAIN roots \cup {Len(roots) + 1}
      BY <2>4, <2>5
    <2>7. ToSet(roots') = ToSet(roots) \cup {r}
      BY <2>4, <2>5, <2>6 DEF ToSet
    <2>8. FlushesStay
      BY <2>1, <2>7 DEF Flushes, FlushesStay
    <2>9. Batches' = Batches /\ Ticks' = Ticks
      BY <2>1, <2>7 DEF Batches, Flushes, Ticks
    <2>10. Places' = Places
      BY <2>1, <2>9 DEF Places
    <2>11. \A g \in flushing' : g \in flushing /\ g.batch # f.batch
      BY <2>1 DEF TicksInv
    <2>12. \A g \in flushing' : \A i \in DOMAIN roots' : roots'[i].batch # g.batch
      BY <2>1, <2>4, <2>5, <2>6, <2>11 DEF TicksInv
    <2>13. \A i, j \in DOMAIN roots' : roots'[i].batch = roots'[j].batch => i = j
      BY <2>1, <2>4, <2>5, <2>6 DEF TicksInv
    <2>14. \E T : roots' \in Seq(T)
      BY <2>4
    <2>15. \A q \in ToSet(roots') : ReadFor(q.at, q.batch, q.content)'
      <3>1. ReadFor(r.at, r.batch, r.content)
        BY <1>2, <2>1 DEF FlushType
      <3>2. \A q \in ToSet(roots) : ReadFor(q.at, q.batch, q.content)
        BY DEF TicksInv
      <3>3. \A q \in ToSet(roots') : ReadFor(q.at, q.batch, q.content)
        BY <2>7, <3>1, <3>2
      <3>4. QED
        BY <2>8, <3>3, StaysRead
    <2>16. \A h \in files' : TickFileOK(h)'
      BY <2>1, <2>8, TickFilesKeep DEF TicksInv
    <2>17. \A g \in flushing' : FlushType(g)'
      BY <2>11, <2>8, StaysRead DEF TicksInv, FlushType
    <2>18. QED
      BY <2>1, <2>9, <2>10, <2>11, <2>12, <2>13, <2>14, <2>15, <2>16, <2>17 DEF TicksInv
  <1>6. CASE FlushFails(f)
    <2>. DEFINE fallen == [batch |-> f.batch, at |-> f.at]
    <2>1. /\ lost' = lost \cup {fallen} /\ flushing' = flushing \ {f}
          /\ fallen.batch = f.batch /\ fallen.at = f.at
          /\ UNCHANGED <<ingested, buffer, roots, timer>>
          /\ \A h \in files' : h \in files
      BY <1>6 DEF FlushFails, Unlinked
    <2>. HIDE DEF fallen
    <2>2. Batches' = Batches /\ Ticks' = Ticks /\ FlushesStay
      BY <2>1 DEF Batches, Flushes, Ticks, FlushesStay
    <2>3. Places' = Places
      BY <2>1, <2>2 DEF Places
    <2>4. \A g \in flushing' : FlushType(g)'
      BY <2>1, <2>2, StaysRead DEF TicksInv, FlushType
    <2>5. \A q \in ToSet(roots) : ReadFor(q.at, q.batch, q.content)'
      BY <2>2, StaysRead DEF TicksInv
    <2>6. \A h \in files' : TickFileOK(h)'
      BY <2>1, <2>2, TickFilesKeep DEF TicksInv
    <2>7. QED
      BY <2>1, <2>2, <2>3, <2>4, <2>5, <2>6 DEF TicksInv
  <1>7. QED
    BY <1>1, <1>3, <1>4, <1>5, <1>6

-----------------------------------------------------------------------------
(* The storage of models. *)

(* The labels of the files are told apart.                                 *)
LEMMA LabelsApart ==
  ASSUME NEW m, NEW k
  PROVE  /\ <<"dl">> # <<"model", m>> /\ <<"ticks">> # <<"model", m>> /\ <<"dl">> # <<"ticks">>
         /\ <<"model", m>> = <<"model", k>> => m = k
  OBVIOUS

(* A blob that an upload of this model made, begun in this millisecond.    *)
MadeFor(root, m, t) == root \in Roots /\ root.model = m /\ root.at = t

UploadType(c) ==
  /\ c \in [id : 1..calls, model : Models, key : EncKeys, at : 0..MaxClock, root : {c.root},
            step : {"writing", "opening", "storing", "recording"}]
  /\ c.step \in {"storing", "recording"} => MadeFor(c.root, c.model, c.at)
  /\ c.step = "recording" => c.root \in blobs

(* What uploads that share a file may find in it.                          *)
LEMMA MixedIsTyped ==
  ASSUME NEW c, UploadType(c), NEW blob \in MixedBlobs(c)
  PROVE  MadeFor(blob, c.model, c.at)
  BY DEF MixedBlobs, TornBlob, MadeFor, Roots, UploadType

DownloadType(d) ==
  /\ d \in [id : 1..calls, model : Models, key : EncKeys, at : {d.at}, root : {d.root},
            step : {"looking", "fetching", "reading"}]
  /\ d.step = "looking" <=> d.at = Earlier

(* A file holds what an upload encrypted, or what a download asked for.    *)
Writers == ended \cup downloads
Asked(t, root) == t # Earlier /\ \E w \in Writers : w.at = t /\ w.root = root
FileOK(f) ==
  /\ \A m \in Models : f.path[1] = <<"model", m>> => MadeFor(f.content, m, f.path[2])
  /\ f.path[1] = <<"dl">> => Asked(f.path[2], f.content)

DownloadsInv ==
  /\ \A d \in downloads : DownloadType(d)
  /\ \A e \in ended : e.id \in 1..calls /\ (e.got # NoRecord => e.at # Earlier)
  /\ \A c, d \in downloads : c.id = d.id => c = d
  /\ \A d \in downloads, e \in ended : d.id # e.id
  /\ DownloadsTheRecord

UploadsInv ==
  /\ \A c \in uploads : UploadType(c)
  /\ blobs \subseteq Roots
  /\ RecordsComplete

ModelsInv == UploadsInv /\ DownloadsInv /\ \A f \in files : FileOK(f)

(* Whoever had a file keeps its name and what it asked for.                *)
WritersStay ==
  \A w \in Writers : w.at # Earlier =>
    \E v \in Writers' : v.id = w.id /\ v.at = w.at /\ v.root = w.root

LEMMA FilesKeep ==
  ASSUME ModelsInv, WritersStay, UNCHANGED half, NEW f \in files
  PROVE  FileOK(f)'
  <1>1. Roots' = Roots
    BY DEF Roots, Bound
  <1>2. FileOK(f)
    BY DEF ModelsInv
  <1>3. QED
    BY <1>1, <1>2 DEF FileOK, MadeFor, Asked, WritersStay

(* A step that leaves the uploads or the downloads alone.                  *)
LEMMA UploadsQuiet ==
  ASSUME UploadsInv, Frame, calls' \in Nat, calls <= calls', UNCHANGED <<half, uploads, blobs, kv>>
  PROVE  UploadsInv'
  <1>1. Roots' = Roots /\ 1..calls \subseteq 1..calls'
    BY BoundType DEF Roots, Bound, Frame
  <1>2. \A c \in uploads : UploadType(c)'
    BY <1>1 DEF UploadsInv, UploadType, MadeFor
  <1>3. RecordsComplete'
    BY DEF UploadsInv, RecordsComplete
  <1>4. QED
    BY <1>1, <1>2, <1>3 DEF UploadsInv

LEMMA DownloadsQuiet ==
  ASSUME DownloadsInv, Frame, calls' \in Nat, calls <= calls', UNCHANGED <<half, downloads, ended>>
  PROVE  DownloadsInv' /\ WritersStay
  <1>1. 1..calls \subseteq 1..calls'
    BY BoundType DEF Frame
  <1>2. \A d \in downloads : DownloadType(d)'
    BY <1>1 DEF DownloadsInv, DownloadType
  <1>3. DownloadsTheRecord'
    BY DEF DownloadsInv, DownloadsTheRecord
  <1>4. \A e \in ended : e.id \in 1..calls'
    BY <1>1 DEF DownloadsInv
  <1>5. WritersStay
    BY DEF WritersStay, Writers
  <1>6. QED
    BY <1>2, <1>3, <1>4, <1>5 DEF DownloadsInv

(* A new upload, and one that goes on.                                     *)
LEMMA UploadStarts ==
  ASSUME ModelsInv, Frame, calls < Bound, calls' = calls + 1, UNCHANGED half,
         clock \in 0..MaxClock,
         NEW m \in Models, NEW k \in EncKeys, UploadModel(calls + 1, m, k)
  PROVE  ModelsInv'
  <1>. PICK new : new = [id |-> calls + 1, model |-> m, key |-> k,
                         at |-> clock, step |-> "writing", root |-> NoRecord]
    OBVIOUS
  <1>1. uploads' = uploads \cup {new} /\ UNCHANGED <<downloads, blobs, kv, ended, fileVars>>
    BY DEF UploadModel
  <1>2. calls \in Nat /\ calls' \in Nat /\ calls <= calls' /\ calls + 1 \in 1..calls'
    BY BoundType DEF Frame
  <1>3. Roots' = Roots /\ 1..calls \subseteq 1..calls'
    BY <1>2 DEF Roots, Bound
  <1>4. UploadType(new)'
    <2>1. /\ new \in [id : 1..calls', model : Models, key : EncKeys, at : 0..MaxClock,
                     root : {new.root}, step : {"writing"}]
          /\ new.step = "writing"
      BY <1>2
    <2>2. QED
      BY <2>1 DEF UploadType
  <1>5. \A c \in uploads : UploadType(c)'
    BY <1>1, <1>3 DEF ModelsInv, UploadsInv, UploadType, MadeFor
  <1>6. RecordsComplete'
    BY <1>1 DEF ModelsInv, UploadsInv, RecordsComplete
  <1>7. UploadsInv'
    BY <1>1, <1>3, <1>4, <1>5, <1>6 DEF ModelsInv, UploadsInv
  <1>8. DownloadsInv' /\ WritersStay
    BY <1>1, <1>2, DownloadsQuiet DEF ModelsInv
  <1>9. \A f \in files' : FileOK(f)'
    BY <1>1, <1>8, FilesKeep DEF fileVars
  <1>10. QED
    BY <1>7, <1>8, <1>9 DEF ModelsInv

LEMMA UploadGoesOn ==
  ASSUME ModelsInv, Frame, UNCHANGED <<half, calls, downloads, kv, ended>>,
         NEW c \in uploads, NEW new, UploadType(new)', UploadTo(c, new),
         blobs \subseteq blobs', blobs' \subseteq Roots,
         \A f \in files' : f \in files \/ FileOK(f)'
  PROVE  ModelsInv'
  <1>1. uploads' = (uploads \ {c}) \cup {new}
    BY DEF UploadTo
  <1>2. calls' \in Nat /\ calls <= calls'
    BY BoundType DEF Frame
  <1>3. Roots' = Roots
    BY DEF Roots, Bound
  <1>4. \A d \in uploads : UploadType(d)'
    BY <1>3 DEF ModelsInv, UploadsInv, UploadType, MadeFor
  <1>5. RecordsComplete'
    BY DEF ModelsInv, UploadsInv, RecordsComplete
  <1>6. UploadsInv'
    BY <1>1, <1>3, <1>4, <1>5 DEF ModelsInv, UploadsInv
  <1>7. DownloadsInv' /\ WritersStay
    BY <1>2, DownloadsQuiet DEF ModelsInv
  <1>8. \A f \in files' : FileOK(f)'
    BY <1>7, FilesKeep
  <1>9. QED
    BY <1>6, <1>7, <1>8 DEF ModelsInv

(* An upload ends, and what it has recorded is complete.                   *)
LEMMA UploadEnds ==
  ASSUME ModelsInv, Frame, UNCHANGED <<half, calls, downloads, blobs, ended>>,
         NEW c \in uploads, uploads' = uploads \ {c}, RecordsComplete', files' \subseteq files
  PROVE  ModelsInv'
  <1>1. calls' \in Nat /\ calls <= calls'
    BY BoundType DEF Frame
  <1>2. Roots' = Roots
    BY DEF Roots, Bound
  <1>3. \A d \in uploads : UploadType(d)'
    BY <1>2 DEF ModelsInv, UploadsInv, UploadType, MadeFor
  <1>4. UploadsInv'
    BY <1>2, <1>3 DEF ModelsInv, UploadsInv
  <1>5. DownloadsInv' /\ WritersStay
    BY <1>1, DownloadsQuiet DEF ModelsInv
  <1>6. \A f \in files' : FileOK(f)'
    BY <1>5, FilesKeep
  <1>7. QED
    BY <1>4, <1>5, <1>6 DEF ModelsInv

LEMMA UploadsKeep ==
  ASSUME ModelsInv, Frame, UNCHANGED <<half, calls>>, NEW c \in uploads,
         WriteBlob(c) \/ OpenBlob(c) \/ StoreBlob(c) \/ AbandonUpload(c) \/ RecordModel(c)
  PROVE  ModelsInv'
  <1>1. UploadType(c) /\ blobs \subseteq Roots
    BY DEF ModelsInv, UploadsInv
  <1>2. calls \in 1..Bound /\ 1..calls \subseteq 1..Bound /\ c.id \in 1..Bound
    BY <1>1, BoundType DEF Frame, UploadType
  <1>3. Roots' = Roots
    BY DEF Roots, Bound
  <1>4. CASE WriteBlob(c)
    <2>. DEFINE new == [c EXCEPT !.step = "opening"]
    <2>1. /\ c.step = "writing" /\ UploadTo(c, new) /\ UNCHANGED <<downloads, blobs, kv, ended>>
      BY <1>4 DEF WriteBlob
    <2>2. UploadType(new)'
      BY <1>1, <1>3, <2>1 DEF UploadType
    <2>. PICK blob \in {Encrypted(c)} \cup MixedBlobs(c) : files' = Written(ModelFile(c), blob)
      BY <1>4 DEF WriteBlob
    <2>3. MadeFor(blob, c.model, c.at)
      <3>1. MadeFor(Encrypted(c), c.model, c.at)
        BY <1>1, <1>2 DEF Encrypted, Roots, UploadType, MadeFor
      <3>2. QED
        BY <1>1, <3>1, MixedIsTyped
    <2>4. ASSUME NEW f \in files', f \notin files
          PROVE  FileOK(f)'
      <3>1. f.path = ModelFile(c) /\ f.content = blob
        BY <2>4, WrittenOrKept
      <3>2. f.path[1] = <<"model", c.model>> /\ f.path[2] = c.at
        BY <3>1 DEF ModelFile, Path
      <3>3. MadeFor(f.content, c.model, f.path[2])'
        BY <1>3, <2>3, <3>1, <3>2 DEF MadeFor
      <3>4. \A m \in Models : f.path[1] = <<"model", m>> => m = c.model
        BY <3>2, LabelsApart
      <3>5. f.path[1] # <<"dl">>
        BY <3>2, LabelsApart
      <3>6. QED
        BY <3>3, <3>4, <3>5 DEF FileOK
    <2>. HIDE DEF new
    <2>5. QED
      BY <1>1, <2>1, <2>2, <2>4, UploadGoesOn
  <1>5. CASE OpenBlob(c)
    <2>1. PICK blob \in ContentsOf(ModelFile(c)) \cup MixedBlobs(c) :
            UploadTo(c, [c EXCEPT !.step = "storing", !.root = blob])
      BY <1>5 DEF OpenBlob
    <2>. DEFINE new == [c EXCEPT !.step = "storing", !.root = blob]
    <2>2. UNCHANGED <<downloads, blobs, kv, ended, files>>
      BY <1>5 DEF OpenBlob, fileVars
    <2>4. MadeFor(blob, c.model, c.at)
      <3>1. CASE blob \in ContentsOf(ModelFile(c))
        <4>1. PICK f \in files : f.path = ModelFile(c) /\ f.content = blob
          BY <3>1 DEF ContentsOf
        <4>2. f.path[1] = <<"model", c.model>> /\ f.path[2] = c.at
          BY <4>1 DEF ModelFile, Path
        <4>3. c.model \in Models
          BY <1>1 DEF UploadType
        <4>4. QED
          BY <4>1, <4>2, <4>3 DEF ModelsInv, FileOK
      <3>2. CASE blob \in MixedBlobs(c)
        BY <1>1, <3>2, MixedIsTyped
      <3>3. QED
        BY <2>1, <3>1, <3>2
    <2>5. new \in [id : 1..calls, model : {c.model}, key : EncKeys, at : {c.at}, root : {blob},
                  step : {"storing"}]
      BY <1>1 DEF UploadType
    <2>. HIDE DEF new
    <2>6. new.model = c.model /\ new.at = c.at /\ new.root = blob /\ new.step = "storing"
      BY <2>5
    <2>7. new \in [id : 1..calls, model : Models, key : EncKeys, at : 0..MaxClock, root : {blob},
                  step : {"storing"}]
      BY <1>1, <2>5 DEF UploadType
    <2>8. UploadType(new)'
      BY <1>3, <2>4, <2>6, <2>7 DEF UploadType, MadeFor
    <2>9. UploadTo(c, new)
      BY <2>1 DEF new
    <2>10. QED
      BY <1>1, <2>2, <2>8, <2>9, UploadGoesOn
  <1>6. CASE StoreBlob(c)
    <2>. DEFINE new == [c EXCEPT !.step = "recording"]
    <2>1. /\ c.step = "storing" /\ blobs' = blobs \cup {c.root} /\ files' = Unlinked(ModelFile(c))
          /\ UploadTo(c, new) /\ UNCHANGED <<downloads, kv, ended>>
      BY <1>6 DEF StoreBlob
    <2>2. UploadType(new)'
      BY <1>1, <1>3, <2>1 DEF UploadType, MadeFor
    <2>3. c.root \in Roots
      BY <1>1, <2>1 DEF UploadType, MadeFor
    <2>4. \A f \in files' : f \in files
      BY <2>1 DEF Unlinked
    <2>. HIDE DEF new
    <2>5. QED
      BY <1>1, <2>1, <2>2, <2>3, <2>4, UploadGoesOn
  <1>7. CASE AbandonUpload(c)
    <2>1. uploads' = uploads \ {c} /\ UNCHANGED <<downloads, blobs, kv, ended>>
      BY <1>7 DEF AbandonUpload, UploadFails
    <2>2. files' \subseteq files
      BY <1>7 DEF AbandonUpload, Unlinked
    <2>3. RecordsComplete'
      BY <2>1 DEF ModelsInv, UploadsInv, RecordsComplete
    <2>4. QED
      BY <2>1, <2>2, <2>3, UploadEnds
  <1>8. CASE RecordModel(c)
    <2>. DEFINE record == [by |-> c.id, at |-> c.at, root |-> c.root]
    <2>1. /\ kv' = [k \in Fields \X Models |->
                     IF k \in Fields \X {c.model} THEN record ELSE kv[k]]
          /\ uploads' = uploads \ {c} /\ UNCHANGED <<downloads, blobs, ended, files>>
      BY <1>8 DEF RecordModel, Recorded, fileVars
    <2>2. record.root \in blobs /\ record.root.model = c.model /\ record.root.at = record.at
      BY <1>1, <1>8 DEF UploadType, RecordModel, MadeFor
    <2>. HIDE DEF record
    <2>3. \A m \in Models, f \in Fields :
            kv'[<<f, m>>] = IF m = c.model THEN record ELSE kv[<<f, m>>]
      BY <2>1
    <2>4. "weights" \in Fields /\ blobs' = blobs
      BY <2>1 DEF Fields
    <2>5. RecordsComplete'
      <3>1. SUFFICES ASSUME NEW m \in Models, NEW f \in Fields, kv'[<<f, m>>] # NoRecord
                     PROVE  /\ kv'[<<"weights", m>>] # NoRecord
                            /\ kv'[<<"weights", m>>].root \in blobs
                            /\ \/ kv'[<<"weights", m>>].root.by = kv'[<<f, m>>].by
                               \/ /\ kv'[<<"weights", m>>].root.model = m
                                  /\ kv'[<<"weights", m>>].root.at = kv'[<<f, m>>].at
        BY <2>4 DEF RecordsComplete
      <3>2. CASE m = c.model
        <4>1. kv'[<<f, m>>] = record /\ kv'[<<"weights", m>>] = record
          BY <2>3, <2>4, <3>2
        <4>2. QED
          BY <2>2, <3>1, <3>2, <4>1
      <3>3. CASE m # c.model
        <4>1. kv'[<<f, m>>] = kv[<<f, m>>] /\ kv'[<<"weights", m>>] = kv[<<"weights", m>>]
          BY <2>3, <2>4, <3>3
        <4>2. QED
          BY <3>1, <4>1 DEF ModelsInv, UploadsInv, RecordsComplete
      <3>4. QED
        BY <3>2, <3>3
    <2>6. QED
      BY <2>1, <2>5, UploadEnds
  <1>9. QED
    BY <1>4, <1>5, <1>6, <1>7, <1>8

(* A new download, and one that goes on.                                   *)
LEMMA DownloadStarts ==
  ASSUME ModelsInv, Frame, calls < Bound, calls' = calls + 1, UNCHANGED half,
         NEW m \in Models, NEW k \in EncKeys, DownloadModel(calls + 1, m, k)
  PROVE  ModelsInv'
  <1>. PICK new : new = [id |-> calls + 1, model |-> m, key |-> k,
                         at |-> Earlier, step |-> "looking", root |-> NoRecord]
    OBVIOUS
  <1>1. downloads' = downloads \cup {new} /\ UNCHANGED <<uploads, blobs, kv, ended, fileVars>>
    BY DEF DownloadModel
  <1>2. calls \in Nat /\ calls' \in Nat /\ calls <= calls' /\ calls + 1 \in 1..calls'
    BY BoundType DEF Frame
  <1>3. UploadsInv'
    BY <1>1, <1>2, UploadsQuiet DEF ModelsInv
  <1>4. DownloadType(new)' /\ new.id = calls + 1
    <2>1. /\ new \in [id : 1..calls', model : Models, key : EncKeys, at : {new.at},
                     root : {new.root}, step : {"looking"}]
          /\ new.step = "looking" /\ new.at = Earlier /\ new.id = calls + 1
      BY <1>2
    <2>2. QED
      BY <2>1 DEF DownloadType
  <1>5. /\ 1..calls \subseteq 1..calls'
        /\ \A d \in downloads : d.id \in 1..calls /\ DownloadType(d)'
        /\ \A e \in ended : e.id \in 1..calls
    <2>1. 1..calls \subseteq 1..calls'
      BY <1>2
    <2>2. QED
      BY <2>1 DEF ModelsInv, DownloadsInv, DownloadType
  <1>6. calls + 1 \notin 1..calls
    BY <1>2
  <1>7. \A c, d \in downloads' : c.id = d.id => c = d
    BY <1>1, <1>4, <1>5, <1>6 DEF ModelsInv, DownloadsInv
  <1>8. \A d \in downloads', e \in ended' : d.id # e.id
    BY <1>1, <1>4, <1>5, <1>6 DEF ModelsInv, DownloadsInv
  <1>9. DownloadsTheRecord'
    BY <1>1 DEF ModelsInv, DownloadsInv, DownloadsTheRecord
  <1>10. DownloadsInv'
    BY <1>1, <1>4, <1>5, <1>7, <1>8, <1>9 DEF ModelsInv, DownloadsInv
  <1>11. WritersStay
    BY <1>1 DEF WritersStay, Writers
  <1>12. \A f \in files' : FileOK(f)'
    BY <1>1, <1>11, FilesKeep DEF fileVars
  <1>13. QED
    BY <1>3, <1>10, <1>12 DEF ModelsInv

LEMMA DownloadGoesOn ==
  ASSUME ModelsInv, Frame, UNCHANGED <<half, calls, uploads, blobs, kv, ended>>,
         NEW c \in downloads, NEW new, DownloadType(new), DownloadTo(c, new), new.id = c.id,
         c.step # "looking" => new.at = c.at /\ new.root = c.root,
         \A f \in files' : f \in files \/ FileOK(f)'
  PROVE  ModelsInv'
  <1>1. downloads' = (downloads \ {c}) \cup {new}
    BY DEF DownloadTo
  <1>2. calls' \in Nat /\ calls <= calls'
    BY BoundType DEF Frame
  <1>3. UploadsInv'
    BY <1>2, UploadsQuiet DEF ModelsInv
  <1>4. DownloadType(c)
    BY DEF ModelsInv, DownloadsInv
  <1>5. c.at # Earlier => new.at = c.at /\ new.root = c.root
    BY <1>4 DEF DownloadType
  <1>6. WritersStay
    BY <1>1, <1>5 DEF WritersStay, Writers
  <1>7. \A d \in downloads' : DownloadType(d)'
    BY <1>1 DEF ModelsInv, DownloadsInv, DownloadType
  <1>8. \A d \in downloads' : \E o \in downloads : o.id = d.id /\ (d # new => o = d)
    BY <1>1
  <1>9. \A d, e \in downloads' : d.id = e.id => d = e
    BY <1>1 DEF ModelsInv, DownloadsInv
  <1>10. \A d \in downloads', e \in ended' : d.id # e.id
    BY <1>8 DEF ModelsInv, DownloadsInv
  <1>11. DownloadsTheRecord'
    <2>1. SUFFICES ASSUME NEW d \in ended, d.got # NoRecord
                   PROVE  /\ d.got.key = d.key
                          /\ \/ d.got = d.root
                             \/ \E other \in ended \cup downloads' :
                                  other.id # d.id /\ other.at = d.at /\ other.root = d.got
      BY DEF DownloadsTheRecord
    <2>2. d.got.key = d.key /\ d.at # Earlier
      BY <2>1 DEF ModelsInv, DownloadsInv, DownloadsTheRecord
    <2>3. CASE d.got = d.root
      BY <2>2, <2>3
    <2>4. CASE d.got # d.root
      <3>1. PICK other \in ended \cup downloads :
              other.id # d.id /\ other.at = d.at /\ other.root = d.got
        BY <2>1, <2>4 DEF ModelsInv, DownloadsInv, DownloadsTheRecord
      <3>2. PICK v \in Writers' : v.id = other.id /\ v.at = other.at /\ v.root = other.root
        BY <1>6, <2>2, <3>1 DEF WritersStay, Writers
      <3>3. QED
        BY <2>2, <3>1, <3>2 DEF Writers
    <2>5. QED
      BY <2>3, <2>4
  <1>12. DownloadsInv'
    BY <1>7, <1>9, <1>10, <1>11 DEF ModelsInv, DownloadsInv
  <1>13. \A f \in files' : FileOK(f)'
    BY <1>6, FilesKeep
  <1>14. QED
    BY <1>3, <1>12, <1>13 DEF ModelsInv

(* A download ends: with nothing, or with what opened with its key.        *)
LEMMA DownloadEnds ==
  ASSUME ModelsInv, Frame, UNCHANGED <<half, calls, uploads, blobs, kv>>,
         NEW c \in downloads, NEW got, Ended(c, got), files' \subseteq files,
         got # NoRecord => got.key = c.key /\ Asked(c.at, got)
  PROVE  ModelsInv'
  <1>. DEFINE new == [id |-> c.id, at |-> c.at, key |-> c.key, root |-> c.root, got |-> got]
  <1>1. downloads' = downloads \ {c} /\ ended' = ended \cup {new}
    BY DEF Ended
  <1>2. /\ new.id = c.id /\ new.at = c.at /\ new.key = c.key
        /\ new.root = c.root /\ new.got = got
    OBVIOUS
  <1>. HIDE DEF new
  <1>3. calls' \in Nat /\ calls <= calls'
    BY BoundType DEF Frame
  <1>4. UploadsInv'
    BY <1>3, UploadsQuiet DEF ModelsInv
  <1>5. WritersStay
    BY <1>1, <1>2 DEF WritersStay, Writers
  <1>6. c.id \in 1..calls
    BY DEF ModelsInv, DownloadsInv, DownloadType
  <1>7. \A d \in downloads' : DownloadType(d)'
    BY <1>1 DEF ModelsInv, DownloadsInv, DownloadType
  <1>8. \A d \in downloads', e \in ended' : d.id # e.id
    BY <1>1, <1>2 DEF ModelsInv, DownloadsInv
  <1>9. \A e \in ended' : e.id \in 1..calls /\ (e.got # NoRecord => e.at # Earlier)
    BY <1>1, <1>2, <1>6 DEF ModelsInv, DownloadsInv, Asked
  <1>10. DownloadsTheRecord'
    <2>1. SUFFICES ASSUME NEW d \in ended', d.got # NoRecord
                   PROVE  /\ d.got.key = d.key
                          /\ \/ d.got = d.root
                             \/ \E other \in Writers' :
                                  other.id # d.id /\ other.at = d.at /\ other.root = d.got
      BY DEF DownloadsTheRecord, Writers
    <2>2. CASE d = new
      <3>1. c.at # Earlier /\ got.key = c.key
        BY <2>1, <2>2, <1>2 DEF Asked
      <3>2. PICK w \in Writers : w.at = c.at /\ w.root = got
        BY <2>1, <2>2, <1>2 DEF Asked
      <3>3. CASE w.id = c.id
        <4>1. w = c
          BY <3>3 DEF ModelsInv, DownloadsInv, Writers
        <4>2. QED
          BY <4>1, <3>1, <3>2, <2>2, <1>2
      <3>4. CASE w.id # c.id
        <4>1. PICK v \in Writers' : v.id = w.id /\ v.at = w.at /\ v.root = w.root
          BY <1>5, <3>1, <3>2 DEF WritersStay
        <4>2. QED
          BY <4>1, <3>1, <3>2, <3>4, <2>2, <1>2
      <3>5. QED
        BY <3>3, <3>4
    <2>3. CASE d \in ended
      <3>1. d.got.key = d.key /\ d.at # Earlier
        BY <2>1, <2>3 DEF ModelsInv, DownloadsInv, DownloadsTheRecord
      <3>2. CASE d.got = d.root
        BY <3>1, <3>2
      <3>3. CASE d.got # d.root
        <4>1. PICK other \in Writers : other.id # d.id /\ other.at = d.at /\ other.root = d.got
          BY <2>1, <2>3, <3>3 DEF ModelsInv, DownloadsInv, DownloadsTheRecord, Writers
        <4>2. PICK v \in Writers' : v.id = other.id /\ v.at = other.at /\ v.root = other.root
          BY <1>5, <3>1, <4>1 DEF WritersStay
        <4>3. QED
          BY <3>1, <4>1, <4>2
      <3>4. QED
        BY <3>2, <3>3
    <2>4. QED
      BY <2>2, <2>3, <1>1
  <1>11. \A d, e \in downloads' : d.id = e.id => d = e
    BY <1>1 DEF ModelsInv, DownloadsInv
  <1>12. DownloadsInv'
    BY <1>7, <1>8, <1>9, <1>10, <1>11 DEF DownloadsInv
  <1>13. \A f \in files' : FileOK(f)'
    BY <1>5, FilesKeep
  <1>14. QED
    BY <1>4, <1>12, <1>13 DEF ModelsInv

LEMMA DownloadsKeep ==
  ASSUME ModelsInv, Frame, UNCHANGED <<half, calls>>, NEW c \in downloads,
         clock \in 0..MaxClock,
         LookUp(c) \/ Fetch(c) \/ ReadBack(c) \/ DownloadFails(c)
  PROVE  ModelsInv'
  <1>1. DownloadType(c)
    BY DEF ModelsInv, DownloadsInv
  <1>2. CASE LookUp(c)
    <2>. DEFINE new == [c EXCEPT !.step = "fetching", !.root = kv[<<"weights", c.model>>].root,
                                 !.at = clock]
    <2>1. /\ c.step = "looking" /\ DownloadTo(c, new)
          /\ UNCHANGED <<uploads, blobs, kv, ended, files>>
      BY <1>2 DEF LookUp, fileVars
    <2>2. new \in [id : {c.id}, model : Models, key : EncKeys, at : {clock},
                   root : {new.root}, step : {"fetching"}]
      BY <1>1 DEF DownloadType
    <2>. HIDE DEF new
    <2>3. new.id = c.id /\ new.at = clock /\ new.step = "fetching"
      BY <2>2
    <2>4. new.at # Earlier
      BY <2>3 DEF Earlier
    <2>5. DownloadType(new)
      BY <1>1, <2>2, <2>3, <2>4 DEF DownloadType
    <2>6. QED
      BY <2>1, <2>3, <2>5, DownloadGoesOn
  <1>3. CASE Fetch(c)
    <2>. DEFINE new == [c EXCEPT !.step = "reading"]
    <2>1. /\ c.step = "fetching" /\ DownloadTo(c, new)
          /\ files' = Written(DownloadFile(c), c.root) \/ UNCHANGED files
          /\ UNCHANGED <<uploads, blobs, kv, ended>>
      BY <1>3 DEF Fetch
    <2>2. /\ new.id = c.id /\ new.at = c.at /\ new.root = c.root /\ new.step = "reading"
          /\ DownloadType(new)
      BY <1>1, <2>1 DEF DownloadType
    <2>. HIDE DEF new
    <2>3. new \in downloads' /\ c.at # Earlier
      BY <1>1, <2>1 DEF DownloadTo, DownloadType
    <2>4. ASSUME NEW f \in files', f \notin files
          PROVE  FileOK(f)'
      <3>1. f.path = DownloadFile(c) /\ f.content = c.root
        BY <2>1, <2>4, WrittenOrKept
      <3>2. f.path[1] = <<"dl">> /\ f.path[2] = c.at
        BY <3>1 DEF DownloadFile, Path
      <3>3. \A m \in Models : f.path[1] # <<"model", m>>
        BY <3>2, LabelsApart
      <3>4. QED
        BY <2>2, <2>3, <3>1, <3>2, <3>3 DEF FileOK, Asked, Writers
    <2>5. QED
      BY <2>1, <2>2, <2>4, DownloadGoesOn
  <1>4. CASE ReadBack(c)
    <2>1. PICK blob \in ContentsOf(DownloadFile(c)) : Opens(blob, c.key) /\ Ended(c, blob)
      BY <1>4 DEF ReadBack
    <2>2. PICK f \in files : f.path = DownloadFile(c) /\ f.content = blob
      BY DEF ContentsOf
    <2>3. Asked(c.at, blob)
      <3>1. f.path[1] = <<"dl">> /\ f.path[2] = c.at
        BY <2>2 DEF DownloadFile, Path
      <3>2. QED
        BY <2>2, <3>1 DEF ModelsInv, FileOK
    <2>4. blob.key = c.key
      BY <2>1 DEF Opens
    <2>5. files' \subseteq files /\ UNCHANGED <<uploads, blobs, kv>>
      BY <1>4 DEF ReadBack, Unlinked
    <2>6. QED
      BY <2>1, <2>3, <2>4, <2>5, DownloadEnds
  <1>5. CASE DownloadFails(c)
    <2>1. Ended(c, NoRecord) /\ files' \subseteq files /\ UNCHANGED <<uploads, blobs, kv>>
      BY <1>5 DEF DownloadFails, Unlinked
    <2>2. QED
      BY <2>1, DownloadEnds
  <1>6. QED
    BY <1>2, <1>3, <1>4, <1>5

(* What happens beside the storage of models.                              *)
LEMMA ModelsBeside ==
  ASSUME ModelsInv, Frame, calls' \in Nat, calls <= calls', UNCHANGED <<half, modelVars>>,
         \A f \in files' : f \in files \/ f.path[1] = <<"ticks">>
  PROVE  ModelsInv'
  <1>1. UNCHANGED <<uploads, downloads, blobs, kv, ended>>
    BY DEF modelVars
  <1>2. UploadsInv'
    BY <1>1, UploadsQuiet DEF ModelsInv
  <1>3. DownloadsInv' /\ WritersStay
    BY <1>1, DownloadsQuiet DEF ModelsInv
  <1>4. ASSUME NEW f \in files'
        PROVE  FileOK(f)'
    <2>1. CASE f \in files
      BY <1>3, <2>1, FilesKeep
    <2>2. CASE f.path[1] = <<"ticks">>
      BY <2>2, LabelsApart DEF FileOK
    <2>3. QED
      BY <2>1, <2>2
  <1>5. QED
    BY <1>2, <1>3, <1>4 DEF ModelsInv

-----------------------------------------------------------------------------
(* The storage client as a whole. *)

StorageInv == Frame /\ clock \in 0..MaxClock /\ FeedsInv /\ TicksInv /\ ModelsInv

LEMMA StorageStarts == Init => StorageInv
  <1>1. SUFFICES ASSUME Init PROVE StorageInv
    OBVIOUS
  <1>2. Frame /\ clock \in 0..MaxClock
    BY <1>1, BoundType DEF Init, Frame
  <1>3. FeedsInv
    BY <1>1 DEF Init, FeedsInit, FeedsInv, FeedsConserved, Delivers
  <1>4. TicksInv
    <2>1. /\ ingested = 0 /\ buffer = <<>> /\ timer = TRUE
          /\ flushing = {} /\ roots = <<>> /\ lost = {} /\ calls = 0
      BY <1>1 DEF Init, ArchiverInit
    <2>2. Ticks = {} /\ ToSet(roots) = {} /\ DOMAIN roots = {} /\ roots \in Seq({})
      BY <2>1 DEF Ticks, ToSet
    <2>3. Batches = {} /\ files = {}
      BY <1>1, <2>1, <2>2 DEF Batches, Flushes, Init
    <2>4. \A b \in Places : b \in Seq(Ticks)
      BY <2>1, <2>3 DEF Places
    <2>5. \E S : roots \in Seq(S)
      BY <2>2
    <2>6. QED
      BY <2>1, <2>2, <2>3, <2>4, <2>5 DEF TicksInv
  <1>5. ModelsInv
    <2>1. /\ uploads = {} /\ downloads = {} /\ ended = {} /\ files = {}
          /\ blobs = {EarlierRoot(m) : m \in EarlierModels}
          /\ kv = [k \in Fields \X Models |->
                IF k[2] \in EarlierModels THEN [by |-> k[2], at |-> Earlier, root |-> EarlierRoot(k[2])]
                ELSE NoRecord]
      BY <1>1 DEF Init, ModelInit
    <2>2. blobs \subseteq Roots
      BY <2>1 DEF Roots, EarlierRoot, EarlierModels
    <2>3. \A m \in Models, f \in Fields :
            kv[<<f, m>>] = IF m \in EarlierModels THEN [by |-> m, at |-> Earlier, root |-> EarlierRoot(m)]
                           ELSE NoRecord
      BY <2>1
    <2>4. "weights" \in Fields
      BY DEF Fields
    <2>5. \A m \in EarlierModels : EarlierRoot(m) \in blobs
      BY <2>1
    <2>6. RecordsComplete
      <3>1. SUFFICES ASSUME NEW m \in Models, NEW f \in Fields, kv[<<f, m>>] # NoRecord
                     PROVE  /\ kv[<<"weights", m>>] # NoRecord
                            /\ kv[<<"weights", m>>].root \in blobs
                            /\ kv[<<"weights", m>>].root.by = kv[<<f, m>>].by
        BY DEF RecordsComplete
      <3>2. m \in EarlierModels
        BY <2>3, <3>1
      <3>3. kv[<<f, m>>] = kv[<<"weights", m>>]
        BY <2>3, <2>4, <3>2
      <3>4. kv[<<"weights", m>>] = [by |-> m, at |-> Earlier, root |-> EarlierRoot(m)]
        BY <2>3, <2>4, <3>2
      <3>5. EarlierRoot(m).by = m
        BY DEF EarlierRoot
      <3>6. QED
        BY <2>5, <3>1, <3>2, <3>3, <3>4, <3>5
    <2>7. QED
      BY <2>1, <2>2, <2>6 DEF ModelsInv, UploadsInv, DownloadsInv, DownloadsTheRecord
  <1>6. QED
    BY <1>2, <1>3, <1>4, <1>5 DEF StorageInv

LEMMA FrameKeeps ==
  ASSUME StorageInv, [Next]_vars
  PROVE  /\ Frame' /\ clock' \in 0..MaxClock
         /\ UNCHANGED half /\ calls \in Nat /\ calls' \in Nat /\ calls <= calls'
  <1>1. Frame /\ Bound \in Nat /\ clock \in 0..MaxClock
    BY BoundType DEF StorageInv, Frame
  <1>2. UNCHANGED half /\ (calls' = calls \/ (calls < Bound /\ calls' = calls + 1))
    BY DEF Next, Call, TimedFlush, vars
  <1>3. Frame' /\ calls \in Nat /\ calls' \in Nat /\ calls <= calls'
    BY <1>1, <1>2 DEF Frame, Bound
  <1>4. clock' \in 0..MaxClock
    <2>1. CASE UNCHANGED clock
      BY <1>1, <2>1
    <2>2. CASE NextMillisecond
      BY <1>1, <2>2 DEF NextMillisecond
    <2>3. QED
      BY <2>1, <2>2
      DEF Next, Call, TimedFlush, TimerFires, Flush, FlushStep, WriteBatch, OpenBatch, UploadBatch,
          FlushFails, Destroy, ModelCall, UploadModel, DownloadModel, ModelStep, WriteBlob, OpenBlob,
          StoreBlob, AbandonUpload, RecordModel, LookUp, Fetch, ReadBack, DownloadFails, fileVars, vars
  <1>5. QED
    BY <1>2, <1>3, <1>4

LEMMA FeedsKeep == ASSUME StorageInv, [Next]_vars PROVE FeedsInv'
  <1>1. FeedsInv /\ UNCHANGED half /\ calls \in Nat /\ calls' \in Nat /\ calls <= calls'
    BY FrameKeeps DEF StorageInv
  <1>2. CASE UNCHANGED feedVars
    BY <1>1, <1>2, FeedsQuiet
  <1>3. CASE Connect \/ Disconnect \/ SocketCloses \/ ReconnectTimer
    BY <1>1, <1>3, SocketsKeep
  <1>4. CASE calls' = calls + 1 /\ (StopAll \/ \E p \in Pools : ListenToPool(p))
    BY <1>1, <1>4, PoolsKeep
  <1>5. QED
    BY <1>2, <1>3, <1>4 DEF Next, Call, FeedCall, TimedFlush, vars

(* Uploads and downloads of models write no file of ticks.                 *)
LEMMA ModelFilesApart ==
  ASSUME ModelStep, NEW f \in files'
  PROVE  f \in files \/ f.path[1] # <<"ticks">>
  <1>1. CASE \E c \in uploads : WriteBlob(c)
    <2>1. PICK c \in uploads : \E blob : files' = Written(ModelFile(c), blob)
      BY <1>1 DEF WriteBlob
    <2>2. f \in files \/ f.path = ModelFile(c)
      BY <2>1, WrittenOrKept
    <2>3. ModelFile(c)[1] # <<"ticks">>
      BY LabelsApart DEF ModelFile, Path
    <2>4. QED
      BY <2>2, <2>3
  <1>2. CASE \E c \in downloads : Fetch(c)
    <2>1. PICK c \in downloads : files' = Written(DownloadFile(c), c.root) \/ UNCHANGED files
      BY <1>2 DEF Fetch
    <2>2. f \in files \/ f.path = DownloadFile(c)
      BY <2>1, WrittenOrKept
    <2>3. DownloadFile(c)[1] # <<"ticks">>
      BY LabelsApart DEF DownloadFile, Path
    <2>4. QED
      BY <2>2, <2>3
  <1>3. QED
    BY <1>1, <1>2
    DEF ModelStep, OpenBlob, StoreBlob, AbandonUpload, RecordModel, LookUp, ReadBack, DownloadFails,
        Unlinked, fileVars

LEMMA TicksKeep == ASSUME StorageInv, [Next]_vars PROVE TicksInv'
  <1>1. TicksInv /\ UNCHANGED half /\ calls \in Nat /\ calls' \in Nat /\ calls <= calls'
    BY FrameKeeps DEF StorageInv
  <1>2. CASE UNCHANGED archiverVars /\ UNCHANGED files
    BY <1>1, <1>2, TicksQuiet DEF archiverVars, TicksInv
  <1>3. CASE UNCHANGED archiverVars /\ ModelStep
    <2>1. \A f \in files' : f \in files \/ f.path[1] # <<"ticks">>
      BY <1>3, ModelFilesApart
    <2>2. QED
      BY <1>1, <1>3, <2>1, TicksQuiet DEF archiverVars, TicksInv
  <1>4. CASE calls' = calls + 1 /\ OnTick /\ UNCHANGED files
    BY <1>1, <1>4, IngestKeeps DEF OnTick
  <1>5. CASE Destroy
    BY <1>1, <1>5, TicksQuiet DEF Destroy, fileVars
  <1>6. CASE calls' = calls /\ Flush
    BY <1>1, <1>6, FlushKeeps
  <1>7. CASE calls' = calls /\ FlushStep
    BY <1>1, <1>7, FlushStepKeeps
  <1>8. QED
    BY <1>2, <1>3, <1>4, <1>5, <1>6, <1>7
    DEF Next, Call, ModelCall, UploadModel, DownloadModel, NextMillisecond, TimedFlush, TimerFires,
        fileVars, vars

LEMMA ModelsKeep == ASSUME StorageInv, [Next]_vars PROVE ModelsInv'
  <1>1. /\ ModelsInv /\ Frame /\ TicksInv /\ clock \in 0..MaxClock
        /\ UNCHANGED half /\ calls' \in Nat /\ calls <= calls'
    BY FrameKeeps DEF StorageInv
  <1>2. CASE UNCHANGED <<files, modelVars>>
    BY <1>1, <1>2, ModelsBeside
  <1>3. CASE FlushStep /\ UNCHANGED modelVars
    <2>1. PICK f \in flushing : WriteBatch(f) \/ OpenBatch(f) \/ UploadBatch(f) \/ FlushFails(f)
      BY <1>3 DEF FlushStep
    <2>2. TicksFile(f)[1] = <<"ticks">>
      BY DEF TicksFile, Path
    <2>3. \A g \in files' : g \in files \/ g.path = TicksFile(f)
      <3>1. CASE WriteBatch(f)
        BY <3>1, WrittenOrKept DEF WriteBatch
      <3>2. CASE OpenBatch(f)
        BY <3>2 DEF OpenBatch, fileVars
      <3>3. CASE UploadBatch(f) \/ FlushFails(f)
        BY <3>3 DEF UploadBatch, FlushFails, Unlinked
      <3>4. QED
        BY <2>1, <3>1, <3>2, <3>3
    <2>4. \A g \in files' : g \in files \/ g.path[1] = <<"ticks">>
      BY <2>2, <2>3
    <2>5. QED
      BY <1>1, <1>3, <2>4, ModelsBeside
  <1>4. CASE calls < Bound /\ calls' = calls + 1 /\ ModelCall
    BY <1>1, <1>4, UploadStarts, DownloadStarts DEF ModelCall
  <1>5. CASE calls' = calls /\ ModelStep
    BY <1>1, <1>5, UploadsKeep, DownloadsKeep DEF ModelStep
  <1>6. QED
    BY <1>2, <1>3, <1>4, <1>5
    DEF Next, Call, TimedFlush, TimerFires, Flush, NextMillisecond, Destroy, fileVars, vars

LEMMA StorageInvariant == Spec => []StorageInv
  <1>1. StorageInv /\ [Next]_vars => StorageInv'
    BY FrameKeeps, FeedsKeep, TicksKeep, ModelsKeep DEF StorageInv
  <1>2. QED
    BY <1>1, StorageStarts, PTL DEF Spec

-----------------------------------------------------------------------------
(* The theorems. *)

(* Every variable of connectors, archiver and model storage keeps its type.*)
THEOREM StorageTypes == Spec => []TypeOK
  <1>1. StorageInv => TypeOK
    <2>1. SUFFICES ASSUME StorageInv PROVE TypeOK
      OBVIOUS
    <2>2. Frame /\ Bound \in Nat /\ FeedsInv /\ TicksInv /\ ModelsInv
      BY <2>1, BoundType DEF StorageInv, Frame
    <2>3. listened \in [Pools -> 0..Bound] /\ live \in [Pools -> 0..Bound]
      BY <2>2 DEF FeedsInv, Frame
    <2>4. ingested \in 0..Bound /\ buffer \in Seq(Ticks)
      BY <2>2 DEF TicksInv, Frame, Places
    <2>5. \A f \in flushing : f.batch \in Seq(Ticks) /\ f.step \in {"writing", "opening", "uploading"}
      BY <2>2 DEF TicksInv, FlushType, Places, Batches, Flushes
    <2>6. \A c \in uploads : c.step \in {"writing", "opening", "storing", "recording"}
      BY <2>2 DEF ModelsInv, UploadsInv, UploadType
    <2>7. \A c \in downloads : c.step \in {"looking", "fetching", "reading"}
      BY <2>2 DEF ModelsInv, DownloadsInv, DownloadType
    <2>8. QED
      BY <2>1, <2>2, <2>3, <2>4, <2>5, <2>6, <2>7
      DEF TypeOK, StorageInv, Frame, FeedsInv, TicksInv, ModelsInv, UploadsInv
  <1>2. QED
    BY <1>1, StorageInvariant, PTL

(* No socket, reconnection or subscription is lost or doubled, but those a *)
(* second listenToPool leaves behind (binance.ts, dex.ts).                 *)
THEOREM FeedsAreConserved == Spec => []FeedsConserved
  <1>1. StorageInv => FeedsConserved
    BY DEF StorageInv, FeedsInv
  <1>2. QED
    BY <1>1, StorageInvariant, PTL

(* Each tick is in one batch or in the buffer, and what a root holds is    *)
(* the batch of its flush, unless another began in the same millisecond,   *)
(* through overlapping and failing flushes (archiver.ts, flush).           *)
THEOREM TicksAreAccounted == Spec => []TicksAccounted
  <1>1. StorageInv => TicksAccounted
    BY TicksFollow DEF StorageInv
  <1>2. QED
    BY <1>1, StorageInvariant, PTL

(* What is on record of a model belongs to the weights on record, which    *)
(* are stored and made by the upload that wrote the record or by one that  *)
(* began in the same millisecond (uploadModel, _uploadBytes).              *)
THEOREM RecordsStayComplete == Spec => []RecordsComplete
  <1>1. StorageInv => RecordsComplete
    BY DEF StorageInv, ModelsInv, UploadsInv
  <1>2. QED
    BY <1>1, StorageInvariant, PTL

(* A download returns what was on record when it looked, or what another   *)
(* begun in the same millisecond asked for, if it opens with its key       *)
(* (downloadModel, _downloadBytes).                                        *)
THEOREM DownloadsReturnRecords == Spec => []DownloadsTheRecord
  <1>1. StorageInv => DownloadsTheRecord
    BY DEF StorageInv, ModelsInv, DownloadsInv
  <1>2. QED
    BY <1>1, StorageInvariant, PTL
=============================================================================
