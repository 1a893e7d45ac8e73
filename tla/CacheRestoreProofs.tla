------------------------- MODULE CacheRestoreProofs -------------------------
(***************************************************************************)
(* What a restore extracts and what a save leaves behind, for any number   *)
(* of runs, keys, branches and archives.                                   *)
(***************************************************************************)
EXTENDS CacheServiceProofs, SortingProofs

-----------------------------------------------------------------------------
(* Uploads left open *)

\* The multipart upload of the saver's URLs is open only from CreateEntry's presigning
\* to UpdateEntry's completion, or behind a saver that failed, and only for a large
\* archive; one that was opened without an answer is open from the presigning on.
OpenWhileSaving ==
    \A s \in Savers :
        /\ uploads[s].open =>
              /\ save[s] \in {"record", "upload", "update", "complete", "failed"}
              /\ Multipart(job[s].archive)
        /\ uploads[s].stray => save[s] \in Creating \cup {"failed", "done"}

LEMMA SaverKeepsOpen ==
    ASSUME IInv, OpenWhileSaving, NEW s \in Savers, Saver(s) \/ SaverFails(s)
    PROVE  OpenWhileSaving'
<1>0. /\ save \in [Savers -> SaverStates] /\ uploads \in [Savers -> Upload]
      /\ job' = job
  <2>1. job' = job
    BY DEF Saver, SaverFails, CheckEntry, CreateEntry, Presign, RecordInflight, PutObject,
           UploadPart, UploadReturns, UpdateEntry, CompleteUpload, CommitEntry
  <2>2. QED
    BY <2>1 DEF IInv, TypeOK, SaversOK, StoresOK
<1> USE DEF OpenWhileSaving, Multipart, Creating
<1>1. CASE CheckEntry(s) \/ CreateEntry(s)
  BY <1>0, <1>1 DEF CheckEntry, CreateEntry, stores
<1>2. CASE Presign(s)
  <2>1. \A t \in Savers \ {s} : uploads'[t] = uploads[t] /\ save'[t] = save[t]
    BY <1>0, <1>2 DEF Presign
  <2>2. \/ /\ save'[s] = "record"
           /\ uploads'[s].open = Multipart(job[s].archive)
        \/ save'[s] = "presign" /\ uploads'[s].open = uploads[s].open
    BY <1>0, <1>2 DEF Presign, Upload
  <2>3. QED
    BY <1>0, <1>2, <2>1, <2>2 DEF Presign
<1>3. CASE RecordInflight(s) \/ PutObject(s) \/ UploadReturns(s)
  BY <1>0, <1>3 DEF RecordInflight, PutObject, UploadReturns, stores
<1>4. ASSUME NEW p \in PartsOf(job[s].archive), UploadPart(s, p)
      PROVE  OpenWhileSaving'
  <2>1. \A t \in Savers : /\ uploads'[t].open = uploads[t].open
                          /\ uploads'[t].stray = uploads[t].stray
    BY <1>0, <1>4 DEF UploadPart, Upload
  <2>2. QED
    BY <1>0, <1>4, <2>1 DEF UploadPart
<1>5. CASE UpdateEntry(s)
  <2>1. ExistsCache(index, s) => index[s].multipart = Multipart(job[s].archive)
    BY DEF IInv, InflightDescribes, Describes
  <2>2. QED
    BY <1>0, <1>5, <2>1 DEF UpdateEntry, stores
<1>6. CASE CompleteUpload(s)
  BY <1>0, <1>6 DEF CompleteUpload, Upload
<1>7. CASE CommitEntry(s) \/ SaverFails(s)
  BY <1>0, <1>7 DEF CommitEntry, SaverFails, stores, Creating
<1>8. QED
  BY <1>1, <1>2, <1>3, <1>4, <1>5, <1>6, <1>7 DEF Saver

LEMMA NextKeepsOpen == IInv /\ OpenWhileSaving /\ [Next]_vars => OpenWhileSaving'
<1> SUFFICES ASSUME IInv, OpenWhileSaving, [Next]_vars
             PROVE  OpenWhileSaving'
  OBVIOUS
<1>1. CASE UNCHANGED <<uploads, job, save>>
  BY <1>1 DEF OpenWhileSaving, Multipart
<1>2. ASSUME NEW r \in Restorers, Restorer(r) \/ RestorerFails(r)
      PROVE  UNCHANGED <<uploads, job, save>>
  BY <1>2 DEF Restorer, RestorerFails, Lookup, Fallback, HeadObject, DownloadPart, Extract,
              stores, saveVars
<1>3. QED
  BY <1>1, <1>2, SaverKeepsOpen
  DEF Next, Finished, Tick, ExpireRecord, ReapObject, vars, stores, saveVars

\* Whatever fails, expires or is answered too late, a save that found an entry has not
\* opened a multipart upload, and one that succeeded has left none open but those of
\* calls of CreateMultipartUpload that S3's answer never reached.
THEOREM NoUploadLeftBehind == Spec => []UploadsAccountedFor
<1>1. Init => OpenWhileSaving
  BY DEF Init, OpenWhileSaving, Creating
<1>2. OpenWhileSaving => UploadsAccountedFor
  BY DEF OpenWhileSaving, UploadsAccountedFor, Creating
<1>3. QED
  BY <1>1, <1>2, NextKeepsOpen, InitIInv, NextIInv, PTL DEF Spec

-----------------------------------------------------------------------------
(* A restore extracts what its entry describes *)

\* Records carry the upload id of the saver that wrote them.
UploadIds ==
    /\ \A s \in Savers : ExistsCache(index, s) => index[s].upload = s
    /\ \A s \in Savers : save[s] \in {"complete", "commit"} => held[s].upload = s

Over == {"done", "failed"}

\* A record stands under the cache id it names, and the saver that wrote it has ended:
\* it will not write it again.
WriterEnded ==
    \A k \in Keys :
        ExistsCache(index, k) => index[k].key = k /\ save[index[k].upload] \in Over

\* The restorer was given the entry it asked for.
HasEntry(r) == restore[r] \in {"head", "download", "restored"} /\ ~entry[r].fallback

EntryWriterEnded ==
    \A r \in Restorers : HasEntry(r) => save[entry[r].record.upload] \in Over

\* Nothing is downloaded before HeadObject; after it there is a part to download, or
\* one that was.
SomethingDownloaded ==
    \A r \in Restorers :
        /\ restore[r] \in {"lookup", "fallback", "head"} => got[r] = {}
        /\ restore[r] = "download" => todo[r] # {} \/ got[r] # {}
        /\ restore[r] = "restored" => got[r] # {}

\* As long as the record stands and its key is uncontended, what was downloaded is
\* what the record describes.
DownloadsMatch ==
    \A r \in Restorers :
        HasEntry(r) /\ entry[r].record.key \notin contended
                    /\ index[entry[r].record.key] = entry[r].record =>
            got[r] \subseteq {entry[r].record.archive}

RInv ==
    /\ IInv
    /\ UploadIds
    /\ WriterEnded
    /\ EntryWriterEnded
    /\ SomethingDownloaded
    /\ DownloadsMatch

LEMMA InitRInv == Init => RInv
  BY InitIInv
  DEF Init, RInv, UploadIds, WriterEnded, EntryWriterEnded, HasEntry, SomethingDownloaded,
      DownloadsMatch, ExistsCache

\* A record that stands after a step of a saver stood before it, or was committed by
\* that saver, which ends with it.
LEMMA SaverRecords ==
    ASSUME RInv, NEW s \in Savers, Saver(s) \/ SaverFails(s)
    PROVE  /\ UNCHANGED <<want, restoreVars>>
           /\ contended \subseteq contended'
           /\ \A t \in Savers : save[t] \in Over => save'[t] \in Over
           /\ \A k \in Keys :
                 \/ index'[k] = index[k]
                 \/ /\ save[s] = "commit" /\ save'[s] \in Over
                    /\ index'[k].key = k /\ index'[k].upload = s
           /\ UploadIds'
<1>0. /\ TypeOK /\ index \in IndexType /\ clock \in 0 .. MaxClock
      /\ save \in [Savers -> SaverStates] /\ held \in [Savers -> Record \cup {NoRecord}]
      /\ Keys \cap Savers = {} /\ NoRecord \notin Record
  BY DistinctAssumption DEF RInv, IInv, TypeOK, StoresOK, SaversOK
<1>1. UNCHANGED <<want, restoreVars>> /\ contended \subseteq contended'
  BY DEF Saver, SaverFails, CheckEntry, CreateEntry, Presign, RecordInflight, PutObject,
         UploadPart, UploadReturns, UpdateEntry, CompleteUpload, CommitEntry
<1>2. \A t \in Savers : save[t] \in Over => save'[t] \in Over
  BY <1>0 DEF Saver, SaverFails, CheckEntry, CreateEntry, Presign, RecordInflight, PutObject,
              UploadPart, UploadReturns, UpdateEntry, CompleteUpload, CommitEntry, Creating, Over
<1>3. CASE RecordInflight(s)
  <2>1. /\ UNCHANGED held /\ save' = [save EXCEPT ![s] = "upload"]
        /\ index' = [index EXCEPT ![s] = [NewRecord(s) EXCEPT !.created = clock]]
    BY <1>3 DEF RecordInflight, InflightID, PutCache
  <2>2. \A id \in (Keys \cup Savers) \ {s} : index'[id] = index[id]
    BY <1>0, <2>1 DEF IndexType
  <2>3. index'[s].upload = s
    BY <1>0, <2>1 DEF IndexType, NewRecord
  <2>4. UploadIds'
    BY <1>0, <2>1, <2>2, <2>3 DEF RInv, UploadIds, ExistsCache
  <2>5. QED
    BY <1>0, <1>1, <1>2, <2>2, <2>4
<1>4. CASE CommitEntry(s)
  <2> PICK ending \in {"done", "failed"} : save' = [save EXCEPT ![s] = ending]
    BY <1>4 DEF CommitEntry
  <2>1. /\ UNCHANGED held /\ save[s] = "commit" /\ save' = [save EXCEPT ![s] = ending]
        /\ index' = [index EXCEPT ![held[s].key] = [held[s] EXCEPT !.created = clock]]
        /\ ending \in Over
    BY <1>4 DEF CommitEntry, PutCache, Over
  <2>2. held[s] \in Record /\ held[s].key \in Keys /\ held[s].upload = s
    BY <1>0, <2>1 DEF RInv, UploadIds, TypeOK, SaversOK, Record
  <2>3. /\ \A id \in (Keys \cup Savers) \ {held[s].key} : index'[id] = index[id]
        /\ index'[held[s].key].key = held[s].key /\ index'[held[s].key].upload = s
    BY <1>0, <2>1, <2>2 DEF IndexType, Record
  <2>4. UploadIds'
    BY <1>0, <2>1, <2>2, <2>3 DEF RInv, UploadIds, ExistsCache
  <2>5. QED
    BY <1>0, <1>1, <1>2, <2>1, <2>3, <2>4
<1>5. CASE UpdateEntry(s)
  <2>1. /\ UNCHANGED index /\ held' = [held EXCEPT ![s] = index[s]]
        /\ \A t \in Savers \ {s} : save'[t] = save[t]
        /\ save'[s] \in {"complete", "commit"} => ExistsCache(index, s)
    BY <1>0, <1>5 DEF UpdateEntry, stores
  <2>2. UploadIds'
    BY <1>0, <2>1 DEF RInv, UploadIds, ExistsCache
  <2>3. QED
    BY <1>1, <1>2, <2>1, <2>2
<1>6. CASE ~(RecordInflight(s) \/ CommitEntry(s) \/ UpdateEntry(s))
  <2>1. UNCHANGED <<index, held>>
    BY <1>6 DEF Saver, SaverFails, CheckEntry, CreateEntry, Presign, PutObject, UploadPart,
                UploadReturns, CompleteUpload, stores
  <2>2. \A t \in Savers :
           save'[t] \in {"complete", "commit"} => save[t] \in {"complete", "commit"}
    BY <1>0, <1>6 DEF Saver, SaverFails, CheckEntry, CreateEntry, Presign, PutObject,
                      UploadPart, UploadReturns, CompleteUpload
  <2>3. UploadIds'
    BY <2>1, <2>2 DEF RInv, UploadIds, ExistsCache
  <2>4. QED
    BY <1>1, <1>2, <2>1, <2>3
<1>7. QED
  BY <1>3, <1>4, <1>5, <1>6

\* A step that keeps the restorers where they are, leaves ended savers ended and every
\* record as it was, removed, or written by a saver that ends with it.
LEMMA StoresStep ==
    ASSUME RInv, IInv', UploadIds', UNCHANGED restoreVars,
           contended \subseteq contended',
           \A t \in Savers : save[t] \in Over => save'[t] \in Over,
           \A k \in Keys :
               \/ index'[k] \in {index[k], NoRecord}
               \/ /\ index'[k].key = k /\ index'[k].upload \in Savers
                  /\ save[index'[k].upload] \notin Over /\ save'[index'[k].upload] \in Over
    PROVE  RInv'
<1>0. /\ UNCHANGED <<restore, entry, todo, got>> /\ NoRecord \notin Record
      /\ index \in IndexType
      /\ \A r \in Restorers : HasEntry(r) =>
            /\ entry[r].record \in Record
            /\ entry[r].record.key \in Keys /\ entry[r].record.upload \in Savers
  BY DistinctAssumption
  DEF RInv, IInv, TypeOK, StoresOK, RestorersOK, HasEntry, restoreVars, Record
<1>1. WriterEnded'
  BY <1>0 DEF RInv, WriterEnded, ExistsCache, IndexType, Record
<1>2. EntryWriterEnded'
  BY <1>0 DEF RInv, EntryWriterEnded, HasEntry
<1>3. SomethingDownloaded'
  BY <1>0 DEF RInv, SomethingDownloaded
<1>4. ASSUME NEW r \in Restorers, HasEntry(r)
      PROVE  index'[entry[r].record.key] = entry[r].record =>
                index[entry[r].record.key] = entry[r].record
  BY <1>0, <1>4 DEF RInv, EntryWriterEnded
<1>5. DownloadsMatch'
  BY <1>0, <1>4 DEF RInv, DownloadsMatch, HasEntry
<1>6. QED
  BY <1>1, <1>2, <1>3, <1>5 DEF RInv

LEMMA RestorerRInv ==
    ASSUME RInv, IInv', NEW r \in Restorers, Restorer(r) \/ RestorerFails(r)
    PROVE  RInv'
<1> DEFINE rec == entry[r].record
<1>0. /\ RestorersOK /\ index \in IndexType /\ bucket \in BucketType
      /\ NoRecord \notin Record
      /\ UNCHANGED <<index, bucket, save, held, contended>>
  <2>1. UNCHANGED <<index, bucket, save, held, contended>>
    BY DEF Restorer, RestorerFails, Lookup, Fallback, HeadObject, DownloadPart, Extract,
           stores, saveVars
  <2>2. QED
    BY <2>1, DistinctAssumption DEF RInv, IInv, TypeOK, StoresOK
<1>1. UploadIds' /\ WriterEnded'
  BY <1>0 DEF RInv, UploadIds, WriterEnded, ExistsCache
<1>2. /\ \A q \in Restorers \ {r} :
             /\ restore'[q] = restore[q] /\ entry'[q] = entry[q]
             /\ todo'[q] = todo[q] /\ got'[q] = got[q]
      /\ restore' \in [Restorers -> RestorerStates]
  <2>1. restore' \in [Restorers -> RestorerStates]
    BY DEF IInv, TypeOK, RestorersOK
  <2>2. QED
    BY <1>0, <2>1 DEF Restorer, RestorerFails, Lookup, Fallback, HeadObject, DownloadPart,
                      Extract, RestorersOK
<1> DEFINE Goal ==
        /\ HasEntry(r)' => save[entry'[r].record.upload] \in Over
        /\ restore'[r] \in {"lookup", "fallback", "head"} => got'[r] = {}
        /\ restore'[r] = "download" => todo'[r] # {} \/ got'[r] # {}
        /\ restore'[r] = "restored" => got'[r] # {}
        /\ HasEntry(r)' /\ entry'[r].record.key \notin contended
                       /\ index[entry'[r].record.key] = entry'[r].record =>
              got'[r] \subseteq {entry'[r].record.archive}
<1>3. SUFFICES Goal
  <2>1. EntryWriterEnded'
    BY <1>0, <1>2, <1>3 DEF RInv, EntryWriterEnded, HasEntry
  <2>2. SomethingDownloaded'
    BY <1>2, <1>3 DEF RInv, SomethingDownloaded
  <2>3. DownloadsMatch'
    BY <1>0, <1>2, <1>3 DEF RInv, DownloadsMatch, HasEntry
  <2>4. QED
    BY <1>1, <2>1, <2>2, <2>3 DEF RInv
<1>4. CASE Lookup(r)
  <2>1. got' = got /\ got[r] = {}
    BY <1>4 DEF Lookup, RInv, SomethingDownloaded
  <2>2. CASE ExistsCache(index, want[r].key)
    <3>1. /\ restore'[r] = "head" /\ entry'[r].record = index[want[r].key]
      BY <1>0, <1>4, <2>2 DEF Lookup, RestorersOK
    <3>2. want[r].key \in Keys
      BY <1>0 DEF RestorersOK
    <3>3. save[entry'[r].record.upload] \in Over
      BY <2>2, <3>1, <3>2 DEF RInv, WriterEnded
    <3>4. QED
      BY <2>1, <3>1, <3>3
  <2>3. CASE ~ExistsCache(index, want[r].key)
    BY <1>0, <1>4, <2>1, <2>3 DEF Lookup, RestorersOK, HasEntry
  <2>4. QED
    BY <2>2, <2>3
<1>5. CASE Fallback(r)
  <2> DEFINE found == FallbackCandidates(index, want[r].fallback)
  <2> HIDE DEF found
  <2>1. got' = got /\ got[r] = {}
    BY <1>5 DEF Fallback, RInv, SomethingDownloaded
  <2>2. CASE found = {}
    BY <1>0, <1>5, <2>1, <2>2 DEF Fallback, RestorersOK, HasEntry, found
  <2>3. CASE found # {}
    <3>1. restore'[r] = "head" /\ entry'[r].fallback
      BY <1>0, <1>5, <2>3 DEF Fallback, RestorersOK, found
    <3>2. QED
      BY <2>1, <3>1 DEF HasEntry
  <2>4. QED
    BY <2>2, <2>3
<1>6. CASE HeadObject(r)
  <2>1. entry' = entry /\ got' = got /\ got[r] = {} /\ restore[r] = "head"
    BY <1>6 DEF HeadObject, RInv, SomethingDownloaded
  <2>2. CASE HasObject(bucket, rec.key)
    <3>1. rec.key \in Keys
      BY <1>0, <2>1 DEF RestorersOK, Record
    <3>2. bucket[rec.key].archive \in Archives
      BY <1>0, <2>2, <3>1 DEF HasObject, BucketType, Object
    <3>3. Multipart(bucket[rec.key].archive) => PartsOf(bucket[rec.key].archive) # {}
      <4>1. PartCount[bucket[rec.key].archive] \in Nat
        BY <3>2, PartCountAssumption
      <4>2. QED
        BY <4>1 DEF Multipart, PartsOf
    <3>4. restore'[r] = "download" /\ todo'[r] # {}
      <4>1. /\ restore' = [restore EXCEPT ![r] = "download"]
            /\ todo' = [todo EXCEPT ![r] =
                          IF Multipart(bucket[rec.key].archive)
                            THEN PartsOf(bucket[rec.key].archive) ELSE {1}]
        BY <1>6, <2>2 DEF HeadObject
      <4>2. r \in DOMAIN restore /\ r \in DOMAIN todo
        BY <1>0 DEF RestorersOK
      <4>3. QED
        BY <3>3, <4>1, <4>2
    <3>5. QED
      BY <2>1, <3>4 DEF HasEntry, RInv, EntryWriterEnded
  <2>3. CASE ~HasObject(bucket, rec.key)
    BY <1>0, <1>6, <2>1, <2>3 DEF HeadObject, RestorersOK, HasEntry
  <2>4. QED
    BY <2>2, <2>3
<1>7. ASSUME NEW p \in todo[r], DownloadPart(r, p)
      PROVE  Goal
  <2>1. entry' = entry /\ restore[r] = "download" /\ rec \in Record /\ rec.key \in Keys
    BY <1>0, <1>7 DEF DownloadPart, RestorersOK, Record
  <2>2. CASE HasObject(bucket, rec.key)
    <3>1. /\ restore' = restore
          /\ got'[r] = got[r] \cup {bucket[rec.key].archive}
      BY <1>0, <1>7, <2>2 DEF DownloadPart, RestorersOK
    <3>2. rec.key \notin contended /\ index[rec.key] = rec =>
             bucket[rec.key].archive = rec.archive
      BY <1>0, <2>1, <2>2 DEF RInv, IInv, UncontendedMatch, ExistsCache
    <3>3. QED
      BY <2>1, <3>1, <3>2 DEF RInv, EntryWriterEnded, DownloadsMatch, HasEntry
  <2>3. CASE ~HasObject(bucket, rec.key)
    <3>1. restore'[r] = "failed"
      BY <1>0, <1>7, <2>3 DEF DownloadPart, RestorersOK
    <3>2. QED
      BY <3>1 DEF HasEntry
  <2>4. QED
    BY <2>2, <2>3
<1>8. CASE Extract(r)
  <2>1. /\ entry' = entry /\ got' = got
        /\ restore[r] = "download" /\ restore'[r] = "restored" /\ todo[r] = {}
    BY <1>0, <1>8 DEF Extract, RestorersOK
  <2>2. QED
    BY <2>1 DEF RInv, EntryWriterEnded, SomethingDownloaded, DownloadsMatch, HasEntry
<1>9. CASE RestorerFails(r)
  BY <1>0, <1>9 DEF RestorerFails, RestorersOK, HasEntry
<1>10. QED
  BY <1>4, <1>5, <1>6, <1>7, <1>8, <1>9 DEF Restorer

LEMMA NextRInv == RInv /\ [Next]_vars => RInv'
<1> SUFFICES ASSUME RInv, [Next]_vars
             PROVE  RInv'
  OBVIOUS
<1>0. IInv /\ IInv'
  BY NextIInv DEF RInv
<1>1. ASSUME NEW s \in Savers, Saver(s) \/ SaverFails(s)
      PROVE  RInv'
  <2>1. UNCHANGED restoreVars
    BY <1>1, SaverRecords
  <2>2. QED
    BY <1>0, <1>1, <2>1, SaverRecords, StoresStep DEF Over
<1>2. ASSUME NEW r \in Restorers, Restorer(r) \/ RestorerFails(r)
      PROVE  RInv'
  BY <1>0, <1>2, RestorerRInv
<1>3. ASSUME NEW id \in Keys \cup Savers, ExpireRecord(id)
      PROVE  RInv'
  <2>1. /\ UNCHANGED <<restoreVars, contended, save, held>>
        /\ \A i \in Keys \cup Savers : index'[i] \in {index[i], NoRecord}
    BY <1>0, <1>3 DEF ExpireRecord, saveVars, IInv, TypeOK, StoresOK, IndexType
  <2>2. UploadIds'
    BY <2>1 DEF RInv, UploadIds, ExistsCache
  <2>3. QED
    BY <1>0, <2>1, <2>2, StoresStep
<1>4. CASE UNCHANGED <<index, save, held, contended, restoreVars>>
  <2>1. UploadIds'
    BY <1>4 DEF RInv, UploadIds, ExistsCache
  <2>2. QED
    BY <1>0, <1>4, <2>1, StoresStep
<1>5. QED
  BY <1>1, <1>2, <1>3, <1>4
  DEF Next, Finished, Tick, ReapObject, vars, stores, saveVars

\* While the record it was given stands and its key was never contended, what a
\* restore extracts is the archive the record describes, all of it: the object is
\* written before the record, not after it, and no saver writes the same record twice.
THEOREM RestoresAreFaithful == Spec => []RestoreFaithful
<1>1. RInv => RestoreFaithful
  BY DEF RInv, SomethingDownloaded, DownloadsMatch, HasEntry, RestoreFaithful
<1>2. QED
  BY <1>1, InitRInv, NextRInv, PTL DEF Spec

-----------------------------------------------------------------------------
(* Objects are whole archives *)

\* The etags UpdateEntry sends to S3: those of the request, in ascending order when no
\* part is there twice.
LEMMA EtagsSorted ==
    ASSUME NEW parts \in Seq(Nat)
    PROVE  LET list == fromCachePartETagV1(parts)
           IN  /\ list \in Seq(Nat)
               /\ Range(list) = Range(parts)
               /\ (\A i, j \in DOMAIN parts : i # j => parts[i] # parts[j]) =>
                     \A i, j \in DOMAIN list : i < j => list[i] < list[j]
<1> DEFINE list == fromCachePartETagV1(parts)
<1>1. parts \in [DOMAIN parts -> Nat]
  OBVIOUS
<1>2. PICK p \in Bijection(DOMAIN parts, DOMAIN parts) :
          /\ list = [i \in DOMAIN parts |-> parts[p[i]]]
          /\ Ascending(parts, p)
          /\ list \in Seq(Nat)
          /\ Range(list) = Range(parts)
  BY <1>1, SortByFacts DEF fromCachePartETagV1
<1> HIDE DEF list
<1>3. ASSUME \A i, j \in DOMAIN parts : i # j => parts[i] # parts[j],
             NEW i \in DOMAIN list, NEW j \in DOMAIN list, i < j
      PROVE  list[i] < list[j]
  <2>1. /\ i \in DOMAIN parts /\ j \in DOMAIN parts /\ i # j
        /\ list[i] = parts[p[i]] /\ list[j] = parts[p[j]]
    BY <1>2, <1>3
  <2>2. p[i] \in DOMAIN parts /\ p[j] \in DOMAIN parts /\ p[i] # p[j]
    BY <2>1 DEF Bijection, Injection, IsInjective
  <2>3. parts[p[i]] # parts[p[j]] /\ parts[p[i]] \in Nat /\ parts[p[j]] \in Nat
    BY <1>1, <1>3, <2>2
  <2>4. parts[p[i]] <= parts[p[j]]
    BY <1>2, <1>3, <2>1 DEF Ascending
  <2>5. QED
    BY <2>1, <2>3, <2>4
<1>4. QED
  BY <1>2, <1>3 DEF list

\* Every collected etag is that of a part S3 holds, and no part has two.
EtagsHeld ==
    \A s \in Savers :
        /\ Range(etags[s]) \subseteq uploads[s].parts
        /\ \A i, j \in DOMAIN etags[s] : i # j => etags[s][i] # etags[s][j]

\* A large archive's upload stays open until UpdateEntry completes it, which happens
\* when every part has its etag.
ReadyToComplete ==
    \A s \in Savers :
        /\ save[s] \in {"record", "upload", "update", "complete"} =>
              uploads[s].open = Multipart(job[s].archive)
        /\ save[s] \in {"update", "complete"} /\ Multipart(job[s].archive) =>
              Range(etags[s]) = PartsOf(job[s].archive)
        /\ save[s] = "complete" => Multipart(job[s].archive)

UInv == IInv /\ EtagsHeld /\ ReadyToComplete

LEMMA InitUInv == Init => UInv
<1> SUFFICES ASSUME Init PROVE EtagsHeld /\ ReadyToComplete
  BY InitIInv DEF UInv
<1>1. \A s \in Savers : etags[s] = <<>> /\ save[s] \in {"check", "failed"}
  BY DEF Init
<1>2. Range(<<>>) = {}
  BY DEF Range
<1>3. QED
  BY <1>1, <1>2 DEF EtagsHeld, ReadyToComplete

\* Appending an etag adds its part to those that have one.
LEMMA AppendEtag ==
    ASSUME NEW s \in Seq(Nat), NEW p \in Nat, p \notin Range(s),
           \A i, j \in DOMAIN s : i # j => s[i] # s[j]
    PROVE  /\ Range(Append(s, p)) = Range(s) \cup {p}
           /\ \A i, j \in DOMAIN Append(s, p) :
                 i # j => Append(s, p)[i] # Append(s, p)[j]
<1> DEFINE t == Append(s, p)
           n == Len(s)
<1>1. /\ n \in Nat /\ DOMAIN s = 1 .. n /\ DOMAIN t = 1 .. n + 1
      /\ \A i \in 1 .. n : t[i] = s[i]
      /\ t[n + 1] = p
  OBVIOUS
<1> HIDE DEF t, n
<1>2. Range(t) = Range(s) \cup {p}
  <2>1. Range(t) \subseteq Range(s) \cup {p}
    BY <1>1 DEF Range
  <2>2. \A i \in 1 .. n : i \in 1 .. n + 1
    BY <1>1
  <2>3. Range(s) \subseteq Range(t)
    BY <1>1, <2>2 DEF Range
  <2>4. p \in Range(t)
    BY <1>1 DEF Range
  <2>5. QED
    BY <2>1, <2>3, <2>4
<1>3. \A i \in 1 .. n : s[i] # p
  BY <1>1 DEF Range
<1>4. \A i, j \in 1 .. n + 1 : i # j => t[i] # t[j]
  BY <1>1, <1>3
<1>5. QED
  BY <1>1, <1>2, <1>4 DEF t

LEMMA SaverUInv ==
    ASSUME UInv, NEW s \in Savers, Saver(s) \/ SaverFails(s)
    PROVE  EtagsHeld' /\ ReadyToComplete'
<1>0. /\ save \in [Savers -> SaverStates] /\ uploads \in [Savers -> Upload]
      /\ etags \in [Savers -> Seq(Nat)] /\ job' = job
      /\ PartsOf(job[s].archive) \subseteq Nat
  <2>1. job' = job
    BY DEF Saver, SaverFails, CheckEntry, CreateEntry, Presign, RecordInflight, PutObject,
           UploadPart, UploadReturns, UpdateEntry, CompleteUpload, CommitEntry
  <2>2. QED
    BY <2>1, PartCountAssumption DEF UInv, IInv, TypeOK, SaversOK, StoresOK, PartsOf
<1>a. ASSUME etags' = etags,
             \A t \in Savers : uploads'[t].parts = uploads[t].parts,
             \A t \in Savers \ {s} : uploads'[t] = uploads[t] /\ save'[t] = save[t],
             save'[s] \notin {"record", "upload", "update", "complete"}
      PROVE  EtagsHeld' /\ ReadyToComplete'
  <2>1. EtagsHeld'
    BY <1>a DEF UInv, EtagsHeld
  <2>2. ReadyToComplete'
    BY <1>0, <1>a DEF UInv, ReadyToComplete, Multipart, PartsOf
  <2>3. QED
    BY <2>1, <2>2
<1>1. CASE CheckEntry(s) \/ CreateEntry(s)
  <2>1. /\ etags' = etags /\ uploads' = uploads
        /\ \A t \in Savers \ {s} : save'[t] = save[t]
        /\ save'[s] \notin {"record", "upload", "update", "complete"}
    BY <1>0, <1>1 DEF CheckEntry, CreateEntry, stores
  <2>2. QED
    BY <1>a, <2>1
<1>2. CASE Presign(s)
  <2>1. /\ uploads'[s].parts = uploads[s].parts
        /\ \A t \in Savers \ {s} : uploads'[t] = uploads[t] /\ save'[t] = save[t]
        /\ etags' = etags
    BY <1>0, <1>2 DEF Presign, Upload
  <2>2. CASE save'[s] = "record" /\ uploads'[s].open = Multipart(job[s].archive)
    BY <1>0, <2>1, <2>2 DEF UInv, EtagsHeld, ReadyToComplete, Multipart, PartsOf
  <2>3. CASE save'[s] = "presign"
    BY <1>a, <2>1, <2>3
  <2>4. QED
    BY <1>0, <1>2, <2>2, <2>3 DEF Presign, Upload
<1>3. CASE RecordInflight(s)
  BY <1>0, <1>3 DEF RecordInflight, UInv, EtagsHeld, ReadyToComplete, Multipart, PartsOf
<1>4. CASE PutObject(s)
  BY <1>0, <1>4 DEF PutObject, UInv, EtagsHeld, ReadyToComplete, Multipart, PartsOf
<1>5. ASSUME NEW p \in PartsOf(job[s].archive), UploadPart(s, p)
      PROVE  EtagsHeld' /\ ReadyToComplete'
  <2>1. /\ save[s] = "upload" /\ save' = save
        /\ uploads'[s].parts = uploads[s].parts \cup {p}
        /\ uploads'[s].open = uploads[s].open
        /\ \A t \in Savers \ {s} : uploads'[t] = uploads[t] /\ etags'[t] = etags[t]
        /\ etags'[s] = etags[s] \/ etags'[s] = Append(etags[s], p)
    BY <1>0, <1>5 DEF UploadPart, Upload
  <2>2. p \in Nat /\ p \notin Range(etags[s]) /\ etags[s] \in Seq(Nat)
    BY <1>0, <1>5 DEF UploadPart
  <2>3. /\ Range(etags[s]) \subseteq uploads[s].parts
        /\ \A i, j \in DOMAIN etags[s] : i # j => etags[s][i] # etags[s][j]
    BY DEF UInv, EtagsHeld
  <2>4. /\ Range(etags'[s]) \subseteq uploads'[s].parts
        /\ \A i, j \in DOMAIN etags'[s] : i # j => etags'[s][i] # etags'[s][j]
    <3>1. CASE etags'[s] = etags[s]
      BY <2>1, <2>3, <3>1
    <3>2. CASE etags'[s] = Append(etags[s], p)
      <4>1. /\ Range(etags'[s]) = Range(etags[s]) \cup {p}
            /\ \A i, j \in DOMAIN etags'[s] : i # j => etags'[s][i] # etags'[s][j]
        <5>1. /\ Range(Append(etags[s], p)) = Range(etags[s]) \cup {p}
              /\ \A i, j \in DOMAIN Append(etags[s], p) :
                    i # j => Append(etags[s], p)[i] # Append(etags[s], p)[j]
          BY <2>2, <2>3, AppendEtag
        <5>2. QED
          BY <3>2, <5>1
      <4>2. QED
        BY <2>1, <2>3, <4>1
    <3>3. QED
      BY <2>1, <3>1, <3>2
  <2>5. EtagsHeld'
    BY <2>1, <2>4 DEF UInv, EtagsHeld
  <2>6. ReadyToComplete'
    BY <1>0, <2>1 DEF UInv, ReadyToComplete, Multipart, PartsOf
  <2>7. QED
    BY <2>5, <2>6
<1>6. CASE UploadReturns(s)
  BY <1>0, <1>6 DEF UploadReturns, stores, UInv, EtagsHeld, ReadyToComplete, Multipart, PartsOf
<1>7. CASE UpdateEntry(s)
  <2>1. ExistsCache(index, s) => index[s].multipart = Multipart(job[s].archive)
    BY DEF UInv, IInv, InflightDescribes, Describes
  <2>2. QED
    BY <1>0, <1>7, <2>1
    DEF UpdateEntry, stores, UInv, EtagsHeld, ReadyToComplete, Multipart, PartsOf
<1>8. CASE CompleteUpload(s)
  <2>1. /\ etags' = etags /\ \A t \in Savers : uploads'[t].parts = uploads[t].parts
        /\ \A t \in Savers \ {s} : uploads'[t] = uploads[t] /\ save'[t] = save[t]
        /\ save'[s] = "commit"
    BY <1>0, <1>8 DEF CompleteUpload, Upload
  <2>2. QED
    BY <1>a, <2>1
<1>9. CASE CommitEntry(s) \/ SaverFails(s)
  <2>1. /\ etags' = etags /\ uploads' = uploads
        /\ \A t \in Savers \ {s} : save'[t] = save[t]
        /\ save'[s] \in {"done", "failed"}
    BY <1>0, <1>9 DEF CommitEntry, SaverFails, stores
  <2>2. QED
    BY <1>a, <2>1
<1>10. QED
  BY <1>1, <1>2, <1>3, <1>4, <1>5, <1>6, <1>7, <1>8, <1>9 DEF Saver

LEMMA NextUInv == UInv /\ [Next]_vars => UInv'
<1> SUFFICES ASSUME UInv, [Next]_vars
             PROVE  EtagsHeld' /\ ReadyToComplete'
  BY NextIInv DEF UInv
<1>1. CASE UNCHANGED <<uploads, job, save, etags>>
  BY <1>1 DEF UInv, EtagsHeld, ReadyToComplete, Multipart, PartsOf
<1>2. ASSUME NEW r \in Restorers, Restorer(r) \/ RestorerFails(r)
      PROVE  UNCHANGED <<uploads, job, save, etags>>
  BY <1>2 DEF Restorer, RestorerFails, Lookup, Fallback, HeadObject, DownloadPart, Extract,
              stores, saveVars
<1>3. QED
  BY <1>1, <1>2, SaverUInv
  DEF Next, Finished, Tick, ExpireRecord, ReapObject, vars, stores, saveVars

\* S3 accepts every completion UpdateEntry asks for: the upload is open, and the list
\* names parts it holds in ascending order.
THEOREM CompletionsAccepted == Spec => []CompletionAccepted
<1>1. UInv => CompletionAccepted
  <2> SUFFICES ASSUME UInv, NEW s \in Savers, save[s] = "complete"
               PROVE  AcceptsComplete(uploads[s], fromCachePartETagV1(etags[s]))
    BY DEF CompletionAccepted
  <2> DEFINE list == fromCachePartETagV1(etags[s])
  <2>1. /\ uploads[s].open /\ Range(etags[s]) = PartsOf(job[s].archive)
        /\ PartCount[job[s].archive] \in Nat /\ PartCount[job[s].archive] > 0
    BY PartCountAssumption DEF UInv, IInv, TypeOK, SaversOK, ReadyToComplete, Multipart
  <2>2. /\ etags[s] \in Seq(Nat) /\ Range(etags[s]) \subseteq uploads[s].parts
        /\ \A i, j \in DOMAIN etags[s] : i # j => etags[s][i] # etags[s][j]
    BY DEF UInv, IInv, TypeOK, SaversOK, EtagsHeld
  <2>3. /\ list \in Seq(Nat) /\ Range(list) = Range(etags[s])
        /\ \A i, j \in DOMAIN list : i < j => list[i] < list[j]
    BY <2>2, EtagsSorted
  <2> HIDE DEF list
  <2>4. \A i \in DOMAIN list : list[i] \in uploads[s].parts
    BY <2>2, <2>3 DEF Range
  <2>5. list # <<>>
    <3>1. 1 \in Range(list)
      BY <2>1, <2>3 DEF PartsOf
    <3>2. DOMAIN list # {}
      BY <3>1 DEF Range
    <3>3. QED
      BY <3>2
  <2>6. AcceptsComplete(uploads[s], list)
    BY <2>1, <2>3, <2>4, <2>5 DEF AcceptsComplete
  <2>7. QED
    BY <2>6 DEF list
<1>2. QED
  BY <1>1, InitUInv, NextUInv, PTL DEF Spec

LEMMA NextObjectsWhole ==
    ASSUME UInv, ObjectsWhole, [Next]_vars
    PROVE  ObjectsWhole'
<1>0. /\ bucket \in BucketType
      /\ job \in [Savers -> [key : Keys, branch : Branches, archive : Archives]]
      /\ etags \in [Savers -> Seq(Nat)]
  BY DEF UInv, IInv, TypeOK, StoresOK, SaversOK
<1>1. ASSUME \A k \in Keys : bucket'[k] = bucket[k] \/ bucket'[k] = Reaped
                            \/ \E a \in Archives : bucket'[k] = WholeObject(a)
      PROVE  ObjectsWhole'
  <2>1. \A a : WholeObject(a).archive = a
    BY DEF WholeObject
  <2>2. QED
    BY <1>1, <2>1 DEF ObjectsWhole, HasObject
<1>2. ASSUME NEW s \in Savers, Saver(s) \/ SaverFails(s)
      PROVE  ObjectsWhole'
  <2>1. CASE PutObject(s)
    BY <1>0, <1>1, <2>1 DEF PutObject, BucketType
  <2>2. CASE CompleteUpload(s)
    <3> DEFINE list == fromCachePartETagV1(etags[s])
    <3>1. /\ save[s] = "complete"
          /\ bucket' = [bucket EXCEPT ![held[s].key] = Assembled(job[s].archive, list)]
      BY <2>2 DEF CompleteUpload
    <3>2. Range(list) = Range(etags[s])
      BY <1>0, EtagsSorted
    <3>3. Range(etags[s]) = PartsOf(job[s].archive)
      BY <3>1 DEF UInv, ReadyToComplete
    <3> HIDE DEF list
    <3>4. Assembled(job[s].archive, list) = WholeObject(job[s].archive)
      BY <3>2, <3>3 DEF Assembled, WholeObject, Range
    <3>5. QED
      BY <1>0, <1>1, <3>1, <3>4 DEF BucketType
  <2>3. CASE ~(PutObject(s) \/ CompleteUpload(s))
    <3>1. bucket' = bucket
      BY <1>2, <2>3 DEF Saver, SaverFails, CheckEntry, CreateEntry, Presign, RecordInflight,
                        UploadPart, UploadReturns, UpdateEntry, CommitEntry, stores
    <3>2. QED
      BY <1>1, <3>1
  <2>4. QED
    BY <2>1, <2>2, <2>3
<1>3. ASSUME NEW r \in Restorers, Restorer(r) \/ RestorerFails(r)
      PROVE  bucket' = bucket
  BY <1>3 DEF Restorer, RestorerFails, Lookup, Fallback, HeadObject, DownloadPart, Extract,
              stores
<1>4. ASSUME NEW k \in Keys, ReapObject(k)
      PROVE  ObjectsWhole'
  BY <1>0, <1>1, <1>4 DEF ReapObject, BucketType
<1>5. CASE bucket' = bucket
  BY <1>1, <1>5
<1>6. QED
  BY <1>2, <1>3, <1>4, <1>5 DEF Next, Finished, Tick, ExpireRecord, vars, stores

\* No object is ever a piece of an archive, however many parts were lost and sent again
\* and whoever died on the way.
THEOREM ObjectsAreWhole == Spec => []ObjectsWhole
<1>1. Init => ObjectsWhole
  BY DEF Init, ObjectsWhole, HasObject
<1>2. UInv /\ ObjectsWhole /\ [Next]_vars => ObjectsWhole'
  BY NextObjectsWhole
<1>3. QED
  BY <1>1, <1>2, InitUInv, NextUInv, PTL DEF Spec

-----------------------------------------------------------------------------
(* What the races come from *)

\* Two runs that were asked to save the same key.
Rivals(k) == \E s, t \in Savers : s # t /\ job[s].key = k /\ job[t].key = k

ContendedByRivals == \A k \in contended : Rivals(k)

LEMMA RivalsStep ==
    ASSUME TypeOK, ContendedByRivals, [Next]_vars
    PROVE  ContendedByRivals'
<1>1. CASE UNCHANGED <<job, contended>>
  BY <1>1 DEF ContendedByRivals, Rivals
<1>2. ASSUME NEW s \in Savers, CreateEntry(s)
      PROVE  ContendedByRivals'
  <2>1. /\ save[s] = "create" /\ job' = job
        /\ \/ contended' = contended
           \/ /\ CreatingKey(job[s].key) # {}
              /\ contended' = contended \cup {job[s].key}
    BY <1>2 DEF CreateEntry
  <2>2. CASE CreatingKey(job[s].key) # {}
    <3>1. PICK t \in Savers : job[t].key = job[s].key /\ save[t] \in Creating
      BY <2>2 DEF CreatingKey
    <3>2. t # s
      BY <2>1, <3>1 DEF Creating
    <3>3. Rivals(job[s].key)
      BY <3>1, <3>2 DEF Rivals
    <3>4. QED
      BY <2>1, <3>3 DEF ContendedByRivals, Rivals
  <2>3. CASE contended' = contended
    BY <1>1, <2>1, <2>3
  <2>4. QED
    BY <2>1, <2>2, <2>3
<1>3. ASSUME NEW s \in Savers, Saver(s) \/ SaverFails(s), ~CreateEntry(s)
      PROVE  UNCHANGED <<job, contended>>
  BY <1>3 DEF Saver, SaverFails, CheckEntry, Presign, RecordInflight, PutObject, UploadPart,
              UploadReturns, UpdateEntry, CompleteUpload, CommitEntry
<1>4. ASSUME NEW r \in Restorers, Restorer(r) \/ RestorerFails(r)
      PROVE  UNCHANGED <<job, contended>>
  BY <1>4 DEF Restorer, RestorerFails, Lookup, Fallback, HeadObject, DownloadPart, Extract,
              saveVars
<1>5. CASE UNCHANGED <<job, saveVars>>
  BY <1>1, <1>5 DEF saveVars
<1>6. QED
  BY <1>1, <1>2, <1>3, <1>4, <1>5
  DEF Next, Finished, Tick, ExpireRecord, ReapObject, vars

\* A record that does not describe the object under its key is the work of two runs
\* that save that key: what one run does, fails to do or does again, beside any
\* number of runs for other keys, never leads to one.
THEOREM OnlyRivalsMismatch ==
    Spec => [](\A k \in Keys :
                  ( /\ ExistsCache(index, k)
                    /\ HasObject(bucket, k)
                    /\ index[k].archive # bucket[k].archive ) => Rivals(k))
<1>1. Init => ContendedByRivals
  BY DEF Init, ContendedByRivals
<1>2. Spec => []ContendedByRivals
  BY <1>1, RivalsStep, TypeCorrect, PTL DEF Spec
<1>3. ContendedByRivals /\ UncontendedMatch =>
         \A k \in Keys :
            ( /\ ExistsCache(index, k)
              /\ HasObject(bucket, k)
              /\ index[k].archive # bucket[k].archive ) => Rivals(k)
  BY DEF ContendedByRivals, UncontendedMatch
<1>4. QED
  BY <1>2, <1>3, RecordsMatchObjects, PTL

\* An entry that the search by branch offers before anything was stored under its key
\* is always an in-flight one: committed entries alone would never mislead it.
THEOREM OnlyInflightMisleads ==
    Spec => [](\A b \in Branches : \A rec \in FallbackCandidates(index, b) :
                  bucket[rec.key] = NoObject =>
                      \E s \in Savers : index[s] = rec /\ rec.upload = s)
<1>1. RInv => \A b \in Branches : \A rec \in FallbackCandidates(index, b) :
                 bucket[rec.key] = NoObject =>
                     \E s \in Savers : index[s] = rec /\ rec.upload = s
  <2> SUFFICES ASSUME RInv, NEW b \in Branches, NEW rec \in FallbackCandidates(index, b),
                      bucket[rec.key] = NoObject
               PROVE  \E s \in Savers : index[s] = rec /\ rec.upload = s
    OBVIOUS
  <2>1. PICK id \in Keys \cup Savers : index[id] = rec /\ index[id] # NoRecord
    BY DEF FallbackCandidates, RInv, IInv, TypeOK, StoresOK, IndexType
  <2>2. CASE id \in Keys
    BY <2>1, <2>2 DEF RInv, IInv, WriterEnded, CommittedHasObject, ExistsCache
  <2>3. CASE id \in Savers
    BY <2>1, <2>3 DEF RInv, UploadIds, ExistsCache
  <2>4. QED
    BY <2>1, <2>2, <2>3
<1>2. QED
  BY <1>1, InitRInv, NextRInv, PTL DEF Spec

=============================================================================
