------------------------- MODULE CacheServiceProofs -------------------------
(***************************************************************************)
(* The cache protocol for any number of runs, keys, branches and archives. *)
(***************************************************************************)
EXTENDS CacheService, TLAPS

-----------------------------------------------------------------------------
(* Lemmas about the stores *)

\* The record that CreateEntry stores is a record.
LEMMA NewRecordType ==
    ASSUME TypeOK, NEW s \in Savers
    PROVE  NewRecord(s) \in Record
  BY DEF TypeOK, StoresOK, SaversOK, NewRecord, Record, Multipart

\* Storing a record under an id keeps the type of the index; it changes the index
\* there and only there, and of the record only the time.
LEMMA PutCacheFacts ==
    ASSUME index \in IndexType, NEW id \in Keys \cup Savers,
           NEW c \in 0 .. MaxClock, NEW rec \in Record
    PROVE  LET new == PutCache(index, id, c, rec) IN
           /\ new \in IndexType
           /\ new[id] \in Record
           /\ new[id].key = rec.key
           /\ new[id].archive = rec.archive
           /\ new[id].multipart = rec.multipart
           /\ \A i \in (Keys \cup Savers) \ {id} : new[i] = index[i]
  BY DEF PutCache, IndexType, Record

\* The query by branch returns records of the index.
LEMMA CandidatesAreRecords ==
    ASSUME index \in IndexType, NEW b, NEW rec \in FallbackCandidates(index, b)
    PROVE  rec \in Record
  BY DEF FallbackCandidates, IndexType

-----------------------------------------------------------------------------
(* Type correctness *)

LEMMA InitTypeOK == Init => TypeOK
<1> SUFFICES ASSUME Init PROVE TypeOK
  OBVIOUS
<1>1. StoresOK
  BY DEF Init, StoresOK, IndexType, BucketType, Upload
<1>2. SaversOK
  <2>1. save \in [Savers -> SaverStates]
    BY DEF Init, SaverStates
  <2>2. \A s \in Savers : save[s] \notin {"complete", "commit"}
    BY DEF Init
  <2>3. QED
    BY <2>1, <2>2 DEF Init, SaversOK
<1>3. RestorersOK
  <2>1. restore \in [Restorers -> RestorerStates]
    BY DEF Init, RestorerStates
  <2>2. \A r \in Restorers : restore[r] \notin {"head", "download", "restored"}
    BY DEF Init
  <2>3. QED
    BY <2>1, <2>2 DEF Init, RestorersOK
<1>4. QED
  BY <1>1, <1>2, <1>3 DEF TypeOK

LEMMA SaverTypeOK ==
    ASSUME TypeOK, NEW s \in Savers, Saver(s) \/ SaverFails(s)
    PROVE  TypeOK'
<1> USE DEF TypeOK, Creating, SaverStates
<1>0. RestorersOK' /\ job' = job /\ clock' \in 0 .. MaxClock
  <2>1. UNCHANGED <<clock, job, want, restoreVars>>
    BY DEF Saver, SaverFails, CheckEntry, CreateEntry, Presign, RecordInflight, PutObject,
           UploadPart, UploadReturns, UpdateEntry, CompleteUpload, CommitEntry
  <2>2. QED
    BY <2>1 DEF restoreVars, RestorersOK, StoresOK
<1>1. CASE CheckEntry(s)
  BY <1>0, <1>1 DEF CheckEntry, stores, StoresOK, SaversOK
<1>2. CASE CreateEntry(s)
  <2>1. contended' \subseteq Keys
    BY <1>2 DEF CreateEntry, SaversOK
  <2>2. /\ save' \in [Savers -> SaverStates]
        /\ save' = [save EXCEPT ![s] = "alreadyExists"] \/ save' = [save EXCEPT ![s] = "presign"]
    BY <1>2 DEF CreateEntry, SaversOK
  <2>3. QED
    BY <1>0, <1>2, <2>1, <2>2 DEF CreateEntry, stores, StoresOK, SaversOK
<1>3. CASE Presign(s)
  <2>1. uploads' \in [Savers -> Upload]
    <3>1. Multipart(job[s].archive) \in BOOLEAN
      BY DEF Multipart
    <3>2. QED
      BY <1>3, <3>1 DEF Presign, StoresOK, Upload
  <2>2. QED
    BY <1>0, <1>3, <2>1 DEF Presign, StoresOK, SaversOK
<1>4. CASE RecordInflight(s)
  <2>1. index' \in IndexType
    BY <1>4, NewRecordType, PutCacheFacts DEF StoresOK, RecordInflight, InflightID
  <2>2. QED
    BY <1>0, <1>4, <2>1 DEF RecordInflight, StoresOK, SaversOK
<1>5. CASE PutObject(s)
  <2>1. bucket' \in BucketType
    <3>1. WholeObject(job[s].archive) \in Object
      BY PartCountAssumption DEF SaversOK, WholeObject, PartsOf, Object
    <3>2. QED
      BY <1>5, <3>1 DEF PutObject, BucketType, StoresOK, SaversOK
  <2>2. QED
    BY <1>0, <1>5, <2>1 DEF PutObject, StoresOK, SaversOK
<1>6. ASSUME NEW p \in PartsOf(job[s].archive), UploadPart(s, p)
      PROVE  TypeOK'
  <2>1. p \in Nat
    BY PartCountAssumption DEF PartsOf, SaversOK
  <2>2. etags[s] \in Seq(Nat) /\ Append(etags[s], p) \in Seq(Nat)
    BY <2>1 DEF SaversOK
  <2>3. etags' \in [Savers -> Seq(Nat)]
    BY <1>6, <2>2 DEF UploadPart, SaversOK
  <2>4. uploads' \in [Savers -> Upload]
    BY <1>6, <2>1 DEF UploadPart, StoresOK, Upload
  <2>5. QED
    BY <1>0, <1>6, <2>3, <2>4 DEF UploadPart, StoresOK, SaversOK
<1>7. CASE UploadReturns(s)
  BY <1>0, <1>7 DEF UploadReturns, stores, StoresOK, SaversOK
<1>8. CASE UpdateEntry(s)
  BY <1>0, <1>8 DEF UpdateEntry, stores, StoresOK, SaversOK, IndexType, ExistsCache
<1>9. CASE CompleteUpload(s)
  <2> DEFINE list == fromCachePartETagV1(etags[s])
  <2>1. {list[i] : i \in DOMAIN list} \subseteq Nat
    BY <1>9 DEF CompleteUpload, AcceptsComplete, StoresOK, Upload
  <2>2. Assembled(job[s].archive, list) \in Object
    BY <2>1 DEF SaversOK, Assembled, Object
  <2>3. bucket' \in BucketType
    BY <1>9, <2>2 DEF CompleteUpload, BucketType, StoresOK
  <2>4. uploads' \in [Savers -> Upload]
    BY <1>9 DEF CompleteUpload, StoresOK, Upload
  <2>5. QED
    BY <1>0, <1>9, <2>3, <2>4 DEF CompleteUpload, StoresOK, SaversOK
<1>10. CASE CommitEntry(s)
  <2>1. held[s] \in Record /\ held[s].key \in Keys
    BY <1>10 DEF CommitEntry, SaversOK, Record
  <2>2. index' \in IndexType
    BY <1>10, <2>1, PutCacheFacts DEF CommitEntry, StoresOK
  <2>3. QED
    BY <1>0, <1>10, <2>2 DEF CommitEntry, StoresOK, SaversOK
<1>11. CASE SaverFails(s)
  BY <1>0, <1>11 DEF SaverFails, stores, StoresOK, SaversOK
<1>12. QED
  BY <1>1, <1>2, <1>3, <1>4, <1>5, <1>6, <1>7, <1>8, <1>9, <1>10, <1>11 DEF Saver

LEMMA RestorerTypeOK ==
    ASSUME TypeOK, NEW r \in Restorers, Restorer(r) \/ RestorerFails(r)
    PROVE  TypeOK'
<1> USE DEF TypeOK, RestorerStates
<1>0. StoresOK' /\ SaversOK' /\ want' = want
  <2>1. UNCHANGED <<stores, clock, job, saveVars, want>>
    BY DEF Restorer, RestorerFails, Lookup, Fallback, HeadObject, DownloadPart, Extract
  <2>2. QED
    BY <2>1 DEF stores, saveVars, StoresOK, SaversOK
<1>1. CASE Lookup(r)
  <2>1. index[want[r].key] \in Record \cup {NoRecord}
    BY DEF StoresOK, RestorersOK, IndexType
  <2>2. CASE ExistsCache(index, want[r].key)
    <3> DEFINE e == [record |-> index[want[r].key], fallback |-> FALSE]
    <3>1. e \in [record : Record \cup {NoRecord}, fallback : BOOLEAN] /\ e.record \in Record
      BY <2>1, <2>2 DEF ExistsCache
    <3>2. /\ entry' = [entry EXCEPT ![r] = e]
          /\ restore' = [restore EXCEPT ![r] = "head"]
          /\ UNCHANGED <<todo, got>>
      BY <1>1, <2>2 DEF Lookup
    <3> HIDE DEF e
    <3>3. QED
      BY <1>0, <3>1, <3>2 DEF RestorersOK
  <2>3. CASE ~ExistsCache(index, want[r].key)
    BY <1>0, <1>1, <2>3 DEF Lookup, RestorersOK
  <2>4. QED
    BY <2>2, <2>3
<1>2. CASE Fallback(r)
  <2> DEFINE found == FallbackCandidates(index, want[r].fallback)
  <2>1. \A rec \in found : rec \in Record
    BY CandidatesAreRecords DEF StoresOK
  <2> HIDE DEF found
  <2>2. CASE found = {}
    BY <1>0, <1>2, <2>2 DEF Fallback, RestorersOK, found
  <2>3. CASE found # {}
    <3>1. PICK rec \in found : entry' = [entry EXCEPT ![r] = [record |-> rec, fallback |-> TRUE]]
      BY <1>2, <2>3 DEF Fallback, found
    <3>2. restore' = [restore EXCEPT ![r] = "head"] /\ UNCHANGED <<todo, got>>
      BY <1>2, <2>3 DEF Fallback, found
    <3>3. rec \in Record
      BY <2>1
    <3>4. QED
      BY <1>0, <3>1, <3>2, <3>3 DEF RestorersOK
  <2>4. QED
    BY <2>2, <2>3
<1>3. CASE HeadObject(r)
  <2> DEFINE k == entry[r].record.key
  <2>1. k \in Keys
    BY <1>3 DEF HeadObject, RestorersOK, Record
  <2>2. CASE HasObject(bucket, k)
    <3>1. bucket[k].archive \in Archives
      BY <2>1, <2>2 DEF HasObject, StoresOK, BucketType, Object
    <3>2. PartsOf(bucket[k].archive) \subseteq Nat
      BY <3>1, PartCountAssumption DEF PartsOf
    <3>3. QED
      <4>1. /\ restore' = [restore EXCEPT ![r] = "download"]
            /\ entry' = entry /\ got' = got
            /\ restore[r] = "head"
        BY <1>3, <2>2 DEF HeadObject
      <4>2. todo' \in [Restorers -> SUBSET Nat]
        BY <1>3, <2>2, <3>2 DEF HeadObject, RestorersOK
      <4>3. QED
        BY <1>0, <4>1, <4>2 DEF RestorersOK
  <2>3. CASE ~HasObject(bucket, k)
    BY <1>0, <1>3, <2>3 DEF HeadObject, RestorersOK
  <2>4. QED
    BY <2>2, <2>3
<1>4. ASSUME NEW p \in todo[r], DownloadPart(r, p)
      PROVE  TypeOK'
  <2> DEFINE k == entry[r].record.key
  <2>1. k \in Keys
    BY <1>4 DEF DownloadPart, RestorersOK, Record
  <2>2. CASE HasObject(bucket, k)
    <3>1. bucket[k].archive \in Archives
      BY <2>1, <2>2 DEF HasObject, StoresOK, BucketType, Object
    <3>2. QED
      <4>1. restore' = restore /\ entry' = entry
        BY <1>4, <2>2 DEF DownloadPart
      <4>2. todo' \in [Restorers -> SUBSET Nat]
        BY <1>4, <2>2 DEF DownloadPart, RestorersOK
      <4>3. got' \in [Restorers -> SUBSET Archives]
        BY <1>4, <2>2, <3>1 DEF DownloadPart, RestorersOK
      <4>4. QED
        BY <1>0, <4>1, <4>2, <4>3 DEF RestorersOK
  <2>3. CASE ~HasObject(bucket, k)
    BY <1>0, <1>4, <2>3 DEF DownloadPart, RestorersOK
  <2>4. QED
    BY <2>2, <2>3
<1>5. CASE Extract(r)
  BY <1>0, <1>5 DEF Extract, RestorersOK
<1>6. CASE RestorerFails(r)
  BY <1>0, <1>6 DEF RestorerFails, RestorersOK
<1>7. QED
  BY <1>1, <1>2, <1>3, <1>4, <1>5, <1>6 DEF Restorer

LEMMA NextTypeOK == TypeOK /\ [Next]_vars => TypeOK'
<1> SUFFICES ASSUME TypeOK, [Next]_vars
             PROVE  TypeOK'
  OBVIOUS
<1> USE DEF TypeOK, StoresOK, SaversOK, RestorersOK, vars, stores, saveVars, restoreVars
<1>1. CASE Tick
  BY <1>1, MaxClockAssumption DEF Tick
<1>2. ASSUME NEW id \in Keys \cup Savers, ExpireRecord(id)
      PROVE  TypeOK'
  BY <1>2 DEF ExpireRecord, IndexType
<1>3. ASSUME NEW k \in Keys, ReapObject(k)
      PROVE  TypeOK'
  BY <1>3 DEF ReapObject, BucketType
<1>4. CASE UNCHANGED vars
  BY <1>4
<1>5. QED
  BY <1>1, <1>2, <1>3, <1>4, SaverTypeOK, RestorerTypeOK DEF Next, Finished

\* Type correctness, and that UpdateEntry and GetEntry never go on without a
\* record.
THEOREM TypeCorrect == Spec => []TypeOK
  BY InitTypeOK, NextTypeOK, PTL DEF Spec

-----------------------------------------------------------------------------
(* Entries match objects *)

\* What is stored about a saver's archive says what the saver was asked to save.
Describes(rec, s) ==
    /\ rec.key = job[s].key
    /\ rec.archive = job[s].archive
    /\ rec.multipart = Multipart(job[s].archive)

\* The saver's archive has reached the bucket.
Uploaded(s) == save[s] = "commit" \/ (save[s] = "update" /\ ~Multipart(job[s].archive))

\* An uncontended key has at most one saver creating it ...
SoleCreator ==
    \A k \in Keys \ contended : \A s, t \in CreatingKey(k) : s = t

\* ... and no record while it has one.
CreatingHasNoRecord ==
    \A k \in Keys \ contended : CreatingKey(k) # {} => ~ExistsCache(index, k)

InflightDescribes == \A s \in Savers : ExistsCache(index, s) => Describes(index[s], s)

HeldDescribes ==
    \A s \in Savers : save[s] \in {"complete", "commit"} => Describes(held[s], s)

\* Until its commit, the object of an uncontended saver is its own archive.
UploadedIsOwn ==
    \A s \in Savers :
        Uploaded(s) =>
            /\ bucket[job[s].key] # NoObject
            /\ job[s].key \notin contended /\ HasObject(bucket, job[s].key) =>
                  bucket[job[s].key].archive = job[s].archive

IInv ==
    /\ TypeOK
    /\ SoleCreator
    /\ CreatingHasNoRecord
    /\ InflightDescribes
    /\ HeldDescribes
    /\ UploadedIsOwn
    /\ UncontendedMatch
    /\ CommittedHasObject

\* A step that changes neither records nor objects, and with which no saver
\* starts creating or comes nearer to its commit, keeps the invariant.
LEMMA QuietStep ==
    ASSUME IInv, TypeOK',
           UNCHANGED <<index, bucket, job, held>>,
           contended \subseteq contended',
           \A t \in Savers : save'[t] \in Creating => save[t] \in Creating,
           \A t \in Savers : save'[t] \in {"complete", "commit"} => save[t] = save'[t],
           \A t \in Savers : Uploaded(t)' => Uploaded(t)
    PROVE  IInv'
<1>1. \A k \in Keys : CreatingKey(k)' \subseteq CreatingKey(k)
  BY DEF CreatingKey
<1>2. SoleCreator' /\ CreatingHasNoRecord'
  BY <1>1 DEF IInv, SoleCreator, CreatingHasNoRecord, ExistsCache
<1>3. InflightDescribes' /\ HeldDescribes'
  BY DEF IInv, InflightDescribes, HeldDescribes, Describes, ExistsCache
<1>4. UploadedIsOwn'
  BY DEF IInv, UploadedIsOwn, HasObject
<1>5. UncontendedMatch' /\ CommittedHasObject'
  BY DEF IInv, UncontendedMatch, CommittedHasObject, HasObject, ExistsCache
<1>6. QED
  BY <1>2, <1>3, <1>4, <1>5 DEF IInv

\* A saver that stores its archive under an uncontended key is alone there, so it
\* disturbs neither a record nor another saver's object.
LEMMA StoringStep ==
    ASSUME IInv, TypeOK', NEW s \in Savers,
           save[s] \in Creating,
           UNCHANGED <<index, job, held, contended>>,
           bucket'[job[s].key] \notin {NoObject, Reaped},
           bucket'[job[s].key].archive = job[s].archive,
           \A k \in Keys \ {job[s].key} : bucket'[k] = bucket[k],
           save'[s] \in {"upload", "update", "commit"},
           save'[s] = "commit" => save[s] = "complete",
           \A t \in Savers \ {s} : save'[t] = save[t]
    PROVE  IInv'
<1> DEFINE k0 == job[s].key
<1>1. k0 \in Keys /\ s \in CreatingKey(k0)
  BY DEF IInv, TypeOK, SaversOK, CreatingKey
<1>2. \A k \in Keys : CreatingKey(k)' \subseteq CreatingKey(k)
  BY DEF CreatingKey, Creating
<1>3. SoleCreator' /\ CreatingHasNoRecord'
  BY <1>2 DEF IInv, SoleCreator, CreatingHasNoRecord, ExistsCache
<1>4. InflightDescribes' /\ HeldDescribes'
  BY DEF IInv, InflightDescribes, HeldDescribes, Describes, ExistsCache
<1>5. ASSUME NEW t \in Savers, Uploaded(t)'
      PROVE  /\ bucket'[job[t].key] # NoObject
             /\ job[t].key \notin contended /\ HasObject(bucket', job[t].key) =>
                   bucket'[job[t].key].archive = job[t].archive
  <2>1. CASE t = s
    BY <2>1
  <2>2. CASE t # s
    <3>1. Uploaded(t) /\ save[t] \in Creating /\ job[t].key \in Keys
      BY <1>5, <2>2 DEF Uploaded, Creating, IInv, TypeOK, SaversOK
    <3>2. CASE job[t].key = k0
      <4>1. k0 \in contended
        BY <1>1, <2>2, <3>1, <3>2 DEF IInv, SoleCreator, CreatingKey
      <4>2. QED
        BY <3>2, <4>1
    <3>3. CASE job[t].key # k0
      BY <3>1, <3>3 DEF IInv, UploadedIsOwn, HasObject
    <3>4. QED
      BY <3>2, <3>3
  <2>3. QED
    BY <2>1, <2>2
<1>6. UploadedIsOwn'
  BY <1>5 DEF UploadedIsOwn
<1>7. UncontendedMatch'
  BY <1>1 DEF IInv, UncontendedMatch, CreatingHasNoRecord, HasObject, ExistsCache
<1>8. CommittedHasObject'
  BY <1>1 DEF IInv, CommittedHasObject, ExistsCache
<1>9. QED
  BY <1>3, <1>4, <1>6, <1>7, <1>8 DEF IInv

LEMMA InitIInv == Init => IInv
  BY InitTypeOK
  DEF Init, IInv, SoleCreator, CreatingHasNoRecord, CreatingKey, Creating,
      InflightDescribes, HeldDescribes, UploadedIsOwn, Uploaded, UncontendedMatch,
      CommittedHasObject, ExistsCache

\* Every step of a saver keeps the invariant.
LEMMA SaverIInv ==
    ASSUME IInv, NEW s \in Savers, Saver(s) \/ SaverFails(s)
    PROVE  IInv'
<1> DEFINE k0 == job[s].key
<1>0. /\ TypeOK /\ TypeOK' /\ k0 \in Keys /\ k0 # s
      /\ save \in [Savers -> SaverStates]
      /\ \A id \in Savers : id \notin Keys
  BY SaverTypeOK, DistinctAssumption DEF IInv, TypeOK, SaversOK
<1>1. CASE CheckEntry(s)
  BY <1>0, <1>1, QuietStep DEF CheckEntry, stores, Uploaded, Creating
<1>2. CASE CreateEntry(s) /\ ExistsCache(index, k0)
  BY <1>0, <1>2, QuietStep DEF CreateEntry, stores, Uploaded, Creating
<1>3. CASE CreateEntry(s) /\ ~ExistsCache(index, k0)
  <2>1. /\ UNCHANGED <<index, bucket, job, held>>
        /\ save[s] = "create" /\ save' = [save EXCEPT ![s] = "presign"]
        /\ contended \subseteq contended'
        /\ CreatingKey(k0) # {} => k0 \in contended'
    BY <1>3 DEF CreateEntry, stores
  <2>2. /\ CreatingKey(k0)' = CreatingKey(k0) \cup {s}
        /\ \A k \in Keys \ {k0} : CreatingKey(k)' = CreatingKey(k)
    BY <1>0, <2>1 DEF CreatingKey, Creating
  <2>3. \A t \in Savers : Uploaded(t)' => Uploaded(t)
    BY <1>0, <2>1 DEF Uploaded
  <2>4. SoleCreator'
    BY <2>1, <2>2 DEF IInv, SoleCreator
  <2>5. CreatingHasNoRecord'
    BY <1>3, <2>1, <2>2 DEF IInv, CreatingHasNoRecord, ExistsCache
  <2>6. InflightDescribes' /\ HeldDescribes'
    BY <1>0, <2>1 DEF IInv, InflightDescribes, HeldDescribes, Describes, ExistsCache
  <2>7. UploadedIsOwn'
    BY <2>1, <2>3 DEF IInv, UploadedIsOwn, HasObject
  <2>8. UncontendedMatch' /\ CommittedHasObject'
    BY <2>1 DEF IInv, UncontendedMatch, CommittedHasObject, HasObject, ExistsCache
  <2>9. QED
    BY <1>0, <2>4, <2>5, <2>6, <2>7, <2>8 DEF IInv
<1>4. CASE Presign(s)
  BY <1>0, <1>4, QuietStep DEF Presign, Uploaded, Creating
<1>5. CASE RecordInflight(s)
  <2>1. /\ UNCHANGED <<bucket, job, held, contended>>
        /\ save[s] = "record" /\ save' = [save EXCEPT ![s] = "upload"]
        /\ index' = PutCache(index, s, clock, NewRecord(s))
    BY <1>5 DEF RecordInflight, InflightID
  <2>2. /\ \A id \in (Keys \cup Savers) \ {s} : index'[id] = index[id]
        /\ Describes(index'[s], s)
    BY <1>0, <2>1, NewRecordType, PutCacheFacts
    DEF TypeOK, StoresOK, Describes, NewRecord
  <2>3. \A k \in Keys : CreatingKey(k)' = CreatingKey(k) /\ index'[k] = index[k]
    BY <1>0, <2>1, <2>2 DEF CreatingKey, Creating
  <2>4. SoleCreator' /\ CreatingHasNoRecord'
    BY <2>1, <2>3 DEF IInv, SoleCreator, CreatingHasNoRecord, ExistsCache
  <2>5. InflightDescribes'
    BY <2>1, <2>2 DEF IInv, InflightDescribes, Describes, ExistsCache
  <2>6. HeldDescribes'
    BY <1>0, <2>1 DEF IInv, HeldDescribes, Describes
  <2>7. UploadedIsOwn'
    BY <1>0, <2>1 DEF IInv, UploadedIsOwn, Uploaded, HasObject
  <2>8. UncontendedMatch' /\ CommittedHasObject'
    BY <2>1, <2>3 DEF IInv, UncontendedMatch, CommittedHasObject, HasObject, ExistsCache
  <2>9. QED
    BY <1>0, <2>4, <2>5, <2>6, <2>7, <2>8 DEF IInv
<1>6. CASE PutObject(s)
  <2>1. WholeObject(job[s].archive) \in Object
    BY <1>0, PartCountAssumption DEF TypeOK, SaversOK, WholeObject, PartsOf, Object
  <2>2. /\ bucket'[k0] = WholeObject(job[s].archive)
        /\ \A k \in Keys \ {k0} : bucket'[k] = bucket[k]
    BY <1>0, <1>6 DEF PutObject, TypeOK, StoresOK, BucketType
  <2>3. bucket'[k0] \notin {NoObject, Reaped} /\ bucket'[k0].archive = job[s].archive
    BY <2>1, <2>2, DistinctAssumption DEF WholeObject
  <2>4. /\ save[s] = "upload" /\ save'[s] \in {"upload", "update"}
        /\ \A t \in Savers \ {s} : save'[t] = save[t]
    BY <1>0, <1>6 DEF PutObject, TypeOK, SaversOK
  <2>5. QED
    BY <1>0, <1>6, <2>2, <2>3, <2>4, StoringStep DEF PutObject, Creating
<1>7. ASSUME NEW p \in PartsOf(job[s].archive), UploadPart(s, p)
      PROVE  IInv'
  BY <1>0, <1>7, QuietStep DEF UploadPart, Uploaded
<1>8. CASE UploadReturns(s)
  BY <1>0, <1>8, QuietStep DEF UploadReturns, stores, Uploaded, Creating
<1>9. CASE UpdateEntry(s)
  <2>1. /\ UNCHANGED <<index, bucket, job, contended>>
        /\ save[s] = "update" /\ held' = [held EXCEPT ![s] = index[s]]
        /\ save' \in [Savers -> SaverStates]
        /\ \A t \in Savers \ {s} : save'[t] = save[t] /\ held'[t] = held[t]
        /\ held'[s] = index[s]
    BY <1>0, <1>9 DEF UpdateEntry, stores, TypeOK, SaversOK
  <2>2. /\ ~ExistsCache(index, s) => save'[s] = "failed"
        /\ ExistsCache(index, s) => save'[s] = IF index[s].multipart THEN "complete" ELSE "commit"
    BY <1>0, <1>9 DEF UpdateEntry
  <2>3. ExistsCache(index, s) => Describes(index[s], s)
    BY DEF IInv, InflightDescribes
  <2>4. \A t \in Savers : Uploaded(t)' => Uploaded(t)
    BY <2>1, <2>2, <2>3 DEF Uploaded, Describes
  <2>5. \A k \in Keys : CreatingKey(k)' \subseteq CreatingKey(k)
    BY <2>1 DEF CreatingKey, Creating
  <2>6. SoleCreator' /\ CreatingHasNoRecord'
    BY <2>1, <2>5 DEF IInv, SoleCreator, CreatingHasNoRecord, ExistsCache
  <2>7. InflightDescribes'
    BY <2>1 DEF IInv, InflightDescribes, Describes, ExistsCache
  <2>8. HeldDescribes'
    <3>1. ASSUME NEW t \in Savers, save'[t] \in {"complete", "commit"}
          PROVE  Describes(held[t], t)'
      <4>1. CASE t = s
        BY <2>1, <2>2, <2>3, <3>1, <4>1 DEF Describes
      <4>2. CASE t # s
        BY <2>1, <3>1, <4>2 DEF IInv, HeldDescribes, Describes
      <4>3. QED
        BY <4>1, <4>2
    <3>2. QED
      BY <3>1 DEF HeldDescribes, Describes
  <2>9. UploadedIsOwn'
    BY <2>1, <2>4 DEF IInv, UploadedIsOwn, HasObject
  <2>10. UncontendedMatch' /\ CommittedHasObject'
    BY <2>1 DEF IInv, UncontendedMatch, CommittedHasObject, HasObject, ExistsCache
  <2>11. QED
    BY <1>0, <2>6, <2>7, <2>8, <2>9, <2>10 DEF IInv
<1>10. CASE CompleteUpload(s)
  <2> DEFINE list == fromCachePartETagV1(etags[s])
             obj == Assembled(job[s].archive, list)
  <2>1. obj \in Object /\ obj.archive = job[s].archive
    BY <1>0, <1>10
    DEF CompleteUpload, AcceptsComplete, Assembled, Object, TypeOK, StoresOK, SaversOK, Upload
  <2>2. held[s].key = k0
    BY <1>10 DEF IInv, HeldDescribes, Describes, CompleteUpload
  <2> HIDE DEF obj
  <2>3. /\ bucket'[k0] = obj
        /\ \A k \in Keys \ {k0} : bucket'[k] = bucket[k]
    BY <1>0, <1>10, <2>2 DEF CompleteUpload, TypeOK, StoresOK, BucketType, obj
  <2>4. bucket'[k0] \notin {NoObject, Reaped} /\ bucket'[k0].archive = job[s].archive
    BY <2>1, <2>3, DistinctAssumption
  <2>5. save[s] = "complete" /\ save' = [save EXCEPT ![s] = "commit"]
    BY <1>10 DEF CompleteUpload
  <2>6. QED
    BY <1>0, <1>10, <2>3, <2>4, <2>5, StoringStep DEF CompleteUpload, Creating
<1>11. CASE CommitEntry(s)
  <2> PICK ending \in {"done", "failed"} : save' = [save EXCEPT ![s] = ending]
    BY <1>11 DEF CommitEntry
  <2>1. /\ UNCHANGED <<bucket, job, held, contended>>
        /\ save[s] = "commit" /\ save' = [save EXCEPT ![s] = ending]
        /\ index' = PutCache(index, k0, clock, held[s])
        /\ Describes(held[s], s)
    BY <1>11 DEF CommitEntry, IInv, HeldDescribes, Describes
  <2>2. /\ \A id \in (Keys \cup Savers) \ {k0} : index'[id] = index[id]
        /\ index'[k0].archive = job[s].archive
    <3>1. held[s] \in Record /\ clock \in 0 .. MaxClock /\ index \in IndexType
      BY <1>0, <2>1 DEF TypeOK, StoresOK, SaversOK
    <3>2. QED
      BY <1>0, <2>1, <3>1, PutCacheFacts DEF Describes
  <2>3. /\ s \in CreatingKey(k0) /\ Uploaded(s)
        /\ \A k \in Keys : CreatingKey(k)' = CreatingKey(k) \ {s}
    BY <1>0, <2>1 DEF CreatingKey, Creating, Uploaded
  <2>4. SoleCreator'
    BY <2>1, <2>3 DEF IInv, SoleCreator
  <2>5. CreatingHasNoRecord'
    <3>1. ASSUME NEW k \in Keys \ contended, CreatingKey(k)' # {}
          PROVE  index'[k] = NoRecord
      <4>1. CASE k = k0
        BY <2>3, <3>1, <4>1 DEF IInv, SoleCreator
      <4>2. CASE k # k0
        BY <2>2, <2>3, <3>1, <4>2 DEF IInv, CreatingHasNoRecord, ExistsCache
      <4>3. QED
        BY <4>1, <4>2
    <3>2. QED
      BY <2>1, <3>1 DEF CreatingHasNoRecord, ExistsCache
  <2>6. InflightDescribes'
    BY <1>0, <2>1, <2>2 DEF IInv, InflightDescribes, Describes, ExistsCache
  <2>7. HeldDescribes'
    BY <1>0, <2>1 DEF IInv, HeldDescribes, Describes
  <2>8. UploadedIsOwn'
    BY <1>0, <2>1 DEF IInv, UploadedIsOwn, Uploaded, HasObject
  <2>9. UncontendedMatch' /\ CommittedHasObject'
    BY <2>1, <2>2, <2>3
    DEF IInv, UncontendedMatch, CommittedHasObject, UploadedIsOwn, HasObject, ExistsCache
  <2>10. QED
    BY <1>0, <2>4, <2>5, <2>6, <2>7, <2>8, <2>9 DEF IInv
<1>12. CASE SaverFails(s)
  BY <1>0, <1>12, QuietStep DEF SaverFails, stores, Uploaded, Creating
<1>13. QED
  BY <1>1, <1>2, <1>3, <1>4, <1>5, <1>6, <1>7, <1>8, <1>9, <1>10, <1>11, <1>12 DEF Saver

LEMMA NextIInv == IInv /\ [Next]_vars => IInv'
<1> SUFFICES ASSUME IInv, [Next]_vars
             PROVE  IInv'
  OBVIOUS
<1>0. TypeOK /\ TypeOK'
  BY NextTypeOK DEF IInv
<1>1. ASSUME NEW r \in Restorers, Restorer(r) \/ RestorerFails(r)
      PROVE  IInv'
  <2>1. UNCHANGED <<stores, job, saveVars>>
    BY <1>1 DEF Restorer, RestorerFails, Lookup, Fallback, HeadObject, DownloadPart, Extract
  <2>2. QED
    BY <1>0, <2>1, QuietStep DEF stores, saveVars, Uploaded
<1>2. CASE Tick
  BY <1>0, <1>2, QuietStep DEF Tick, stores, saveVars, Uploaded
<1>3. ASSUME NEW id \in Keys \cup Savers, ExpireRecord(id)
      PROVE  IInv'
  <2>1. /\ UNCHANGED <<bucket, job, save, held, contended>>
        /\ \A i \in Keys \cup Savers : index'[i] \in {index[i], NoRecord}
    BY <1>0, <1>3 DEF ExpireRecord, saveVars, TypeOK, StoresOK, IndexType
  <2>2. \A k \in Keys : CreatingKey(k)' = CreatingKey(k)
    BY <2>1 DEF CreatingKey
  <2>3. SoleCreator' /\ CreatingHasNoRecord'
    BY <2>1, <2>2 DEF IInv, SoleCreator, CreatingHasNoRecord, ExistsCache
  <2>4. InflightDescribes' /\ HeldDescribes'
    BY <2>1 DEF IInv, InflightDescribes, HeldDescribes, Describes, ExistsCache
  <2>5. UploadedIsOwn'
    BY <2>1 DEF IInv, UploadedIsOwn, Uploaded, HasObject
  <2>6. UncontendedMatch' /\ CommittedHasObject'
    BY <2>1 DEF IInv, UncontendedMatch, CommittedHasObject, HasObject, ExistsCache
  <2>7. QED
    BY <1>0, <2>3, <2>4, <2>5, <2>6 DEF IInv
<1>4. ASSUME NEW k \in Keys, ReapObject(k)
      PROVE  IInv'
  <2>1. /\ UNCHANGED <<index, job, save, held, contended>>
        /\ \A j \in Keys : bucket'[j] = bucket[j] \/ bucket'[j] = Reaped
    BY <1>0, <1>4 DEF ReapObject, saveVars, TypeOK, StoresOK, BucketType
  <2>2. \A j \in Keys : CreatingKey(j)' = CreatingKey(j)
    BY <2>1 DEF CreatingKey
  <2>3. SoleCreator' /\ CreatingHasNoRecord'
    BY <2>1, <2>2 DEF IInv, SoleCreator, CreatingHasNoRecord, ExistsCache
  <2>4. InflightDescribes' /\ HeldDescribes'
    BY <2>1 DEF IInv, InflightDescribes, HeldDescribes, Describes, ExistsCache
  <2>5. UploadedIsOwn'
    <3>1. \A t \in Savers : job[t].key \in Keys
      BY <1>0 DEF TypeOK, SaversOK
    <3>2. QED
      BY <2>1, <3>1, DistinctAssumption DEF IInv, UploadedIsOwn, Uploaded, HasObject
  <2>6. UncontendedMatch' /\ CommittedHasObject'
    BY <2>1, DistinctAssumption
    DEF IInv, UncontendedMatch, CommittedHasObject, HasObject, ExistsCache
  <2>7. QED
    BY <1>0, <2>3, <2>4, <2>5, <2>6 DEF IInv
<1>5. CASE UNCHANGED vars
  BY <1>0, <1>5, QuietStep DEF vars, stores, saveVars, Uploaded
<1>6. QED
  BY <1>1, <1>2, <1>3, <1>4, <1>5, SaverIInv DEF Next, Finished

LEMMA IInvAlways == Spec => []IInv
  BY InitIInv, NextIInv, PTL DEF Spec

\* Whatever fails, expires or is saved again, the record under a key that was never
\* contended carries the checksum of the object under that key.
THEOREM RecordsMatchObjects == Spec => []UncontendedMatch
<1>1. IInv => UncontendedMatch
  BY DEF IInv
<1>2. QED
  BY <1>1, IInvAlways, PTL

\* No record stands under a cache id before something was stored there.
THEOREM CommitComesLast == Spec => []CommittedHasObject
<1>1. IInv => CommittedHasObject
  BY DEF IInv
<1>2. QED
  BY <1>1, IInvAlways, PTL

\* A committed entry is write-once: while its key stays uncontended, no step
\* replaces the record, and the object can only be removed.
THEOREM EntriesAreWriteOnce == Spec => UncontendedWriteOnce
<1> DEFINE Step(k) ==
        k \notin contended' /\ ExistsCache(index, k) /\ ExistsCache(index', k) =>
            /\ index'[k] = index[k]
            /\ bucket'[k] \in {bucket[k], Reaped}
<1>1. IInv /\ [Next]_vars => \A k \in Keys : Step(k)
  <2> SUFFICES ASSUME IInv, [Next]_vars, NEW k \in Keys,
                      k \notin contended', ExistsCache(index, k), ExistsCache(index', k)
               PROVE  /\ index'[k] = index[k]
                      /\ bucket'[k] \in {bucket[k], Reaped}
    OBVIOUS
  <2>0. /\ TypeOK /\ k \notin Savers
    BY DistinctAssumption DEF IInv
  <2>1. ASSUME NEW s \in Savers, Saver(s) \/ SaverFails(s)
        PROVE  index'[k] = index[k] /\ bucket'[k] = bucket[k]
    <3>1. contended \subseteq contended'
      BY <2>1 DEF Saver, SaverFails, CheckEntry, CreateEntry, Presign, RecordInflight,
                  PutObject, UploadPart, UploadReturns, UpdateEntry, CompleteUpload, CommitEntry
    <3>2. CreatingKey(k) = {}
      BY <3>1 DEF IInv, CreatingHasNoRecord
    <3>3. save[s] \in Creating => job[s].key # k
      BY <3>2 DEF CreatingKey
    <3>4. save[s] \in {"complete", "commit"} => held[s].key = job[s].key /\ held[s] \in Record
      BY DEF IInv, HeldDescribes, Describes, TypeOK, SaversOK
    <3>5. CASE RecordInflight(s) \/ CommitEntry(s)
      <4>1. index \in IndexType /\ clock \in 0 .. MaxClock
        BY <2>0 DEF TypeOK, StoresOK
      <4>2. CASE RecordInflight(s)
        BY <2>0, <4>1, <4>2, NewRecordType, PutCacheFacts DEF RecordInflight, InflightID
      <4>3. CASE CommitEntry(s)
        <5>1. held[s] \in Record /\ held[s].key # k /\ held[s].key \in Keys
          BY <3>3, <3>4, <4>3 DEF CommitEntry, Creating, Record
        <5>2. QED
          BY <2>0, <4>1, <4>3, <5>1, PutCacheFacts DEF CommitEntry
      <4>4. QED
        BY <3>5, <4>2, <4>3
    <3>6. CASE PutObject(s) \/ CompleteUpload(s)
      BY <2>0, <3>3, <3>4, <3>6
      DEF PutObject, CompleteUpload, Creating, TypeOK, StoresOK, BucketType
    <3>7. CASE ~(RecordInflight(s) \/ CommitEntry(s) \/ PutObject(s) \/ CompleteUpload(s))
      BY <2>1, <3>7 DEF Saver, SaverFails, CheckEntry, CreateEntry, Presign, UploadPart,
                        UploadReturns, UpdateEntry, stores
    <3>8. QED
      BY <3>5, <3>6, <3>7
  <2>2. ASSUME NEW r \in Restorers, Restorer(r) \/ RestorerFails(r)
        PROVE  index'[k] = index[k] /\ bucket'[k] = bucket[k]
    BY <2>2 DEF Restorer, RestorerFails, Lookup, Fallback, HeadObject, DownloadPart,
                Extract, stores
  <2>3. CASE Tick \/ UNCHANGED vars
    BY <2>3 DEF Tick, vars, stores
  <2>4. ASSUME NEW id \in Keys \cup Savers, ExpireRecord(id)
        PROVE  index'[k] = index[k] /\ bucket'[k] = bucket[k]
    BY <2>0, <2>4 DEF ExpireRecord, ExistsCache, TypeOK, StoresOK, IndexType
  <2>5. ASSUME NEW j \in Keys, ReapObject(j)
        PROVE  index'[k] = index[k] /\ bucket'[k] \in {bucket[k], Reaped}
    BY <2>0, <2>5 DEF ReapObject, TypeOK, StoresOK, BucketType
  <2>6. QED
    BY <2>1, <2>2, <2>3, <2>4, <2>5 DEF Next, Finished
<1>2. QED
  BY <1>1, IInvAlways, PTL DEF Spec, UncontendedWriteOnce

-----------------------------------------------------------------------------
(* The refinement of WriteOnceCache *)

LEMMA NothingPublished ==
    ASSUME contended' = contended,
           \A k \in Keys : EntryOf(k)' = EntryOf(k) /\ BlobOf(k)' = BlobOf(k)
    PROVE  UNCHANGED Cache!vars
  BY DEF Cache!vars

\* A saver's new archive is a write of the cache, or goes under a contended key.
LEMMA StoringWrites ==
    ASSUME IInv, NEW s \in Savers, save[s] \in Creating,
           NEW k0 \in Keys, k0 = job[s].key, NEW a0 \in Archives,
           UNCHANGED <<index, contended>>,
           bucket'[k0] \notin {NoObject, Reaped}, bucket'[k0].archive = a0,
           \A k \in Keys \ {k0} : bucket'[k] = bucket[k]
    PROVE  [Cache!Next]_(Cache!vars)
<1>1. s \in CreatingKey(k0)
  BY DEF CreatingKey
<1>2. /\ \A k \in Keys : EntryOf(k)' = EntryOf(k)
      /\ \A k \in Keys \ {k0} : BlobOf(k)' = BlobOf(k)
  BY DEF EntryOf, BlobOf, ExistsCache, HasObject
<1>3. CASE k0 \in contended
  <2>1. BlobOf(k0)' = BlobOf(k0)
    BY <1>3 DEF BlobOf
  <2>2. QED
    BY <1>2, <2>1, NothingPublished
<1>4. CASE k0 \notin contended
  <2>1. EntryOf(k0) = NoObject /\ BlobOf(k0)' = a0
    BY <1>1, <1>4 DEF IInv, CreatingHasNoRecord, EntryOf, BlobOf, HasObject
  <2>2. Cache!Write(k0, a0)
    BY <1>1, <1>2, <1>4, <2>1 DEF Cache!Write
  <2>3. QED
    BY <1>1, <2>2 DEF Cache!Next
<1>5. QED
  BY <1>3, <1>4

LEMMA SaverPublishes ==
    ASSUME IInv, NEW s \in Savers, Saver(s) \/ SaverFails(s)
    PROVE  [Cache!Next]_(Cache!vars)
<1> PICK k0 \in Keys, a0 \in Archives : k0 = job[s].key /\ a0 = job[s].archive
  BY DEF IInv, TypeOK, SaversOK
<1>0. /\ TypeOK /\ k0 \notin Savers /\ s \notin Keys
      /\ index \in IndexType /\ bucket \in BucketType /\ clock \in 0 .. MaxClock
  BY DistinctAssumption DEF IInv, TypeOK, StoresOK, SaversOK
<1>1. CASE CreateEntry(s)
  <2>1. UNCHANGED <<index, bucket>>
    BY <1>1 DEF CreateEntry, stores
  <2>2. CASE contended' = contended
    <3>1. \A k \in Keys : EntryOf(k)' = EntryOf(k) /\ BlobOf(k)' = BlobOf(k)
      BY <2>1, <2>2 DEF EntryOf, BlobOf, ExistsCache, HasObject
    <3>2. QED
      BY <2>2, <3>1, NothingPublished
  <2>3. CASE contended' # contended
    <3>1. contended' = contended \cup {k0}
      BY <1>1, <2>3 DEF CreateEntry
    <3>2. /\ EntryOf(k0)' = NoObject /\ BlobOf(k0)' = NoObject
          /\ \A k \in Keys \ {k0} : EntryOf(k)' = EntryOf(k) /\ BlobOf(k)' = BlobOf(k)
      BY <2>1, <3>1 DEF EntryOf, BlobOf, ExistsCache, HasObject
    <3>3. Cache!Race(k0)
      BY <1>0, <3>1, <3>2 DEF Cache!Race
    <3>4. QED
      BY <1>0, <3>3 DEF Cache!Next
  <2>4. QED
    BY <2>2, <2>3
<1>2. CASE RecordInflight(s)
  <2>1. \A k \in Keys : index'[k] = index[k]
    BY <1>0, <1>2, NewRecordType, PutCacheFacts DEF RecordInflight, InflightID
  <2>2. \A k \in Keys : EntryOf(k)' = EntryOf(k) /\ BlobOf(k)' = BlobOf(k)
    BY <1>2, <2>1 DEF RecordInflight, EntryOf, BlobOf, ExistsCache, HasObject
  <2>3. QED
    BY <1>2, <2>2, NothingPublished DEF RecordInflight
<1>3. CASE PutObject(s)
  <2>1. /\ save[s] \in Creating /\ UNCHANGED <<index, contended>>
        /\ bucket' = [bucket EXCEPT ![k0] = WholeObject(a0)]
    BY <1>3 DEF PutObject, Creating
  <2>2. WholeObject(a0) \in Object /\ WholeObject(a0).archive = a0
    BY <1>0, PartCountAssumption DEF WholeObject, PartsOf, Object
  <2>3. bucket'[k0] = WholeObject(a0) /\ \A k \in Keys \ {k0} : bucket'[k] = bucket[k]
    BY <1>0, <2>1 DEF BucketType
  <2>4. QED
    BY <2>1, <2>2, <2>3, DistinctAssumption, StoringWrites
<1>4. CASE CompleteUpload(s)
  <2> DEFINE list == fromCachePartETagV1(etags[s])
  <2>1. /\ save[s] = "complete" /\ AcceptsComplete(uploads[s], list)
        /\ bucket' = [bucket EXCEPT ![held[s].key] = Assembled(a0, list)]
        /\ UNCHANGED <<index, contended>>
    BY <1>4 DEF CompleteUpload
  <2>2. held[s].key = k0
    BY <2>1 DEF IInv, HeldDescribes, Describes
  <2>3. {list[i] : i \in DOMAIN list} \subseteq Nat
    BY <1>0, <2>1 DEF AcceptsComplete, TypeOK, StoresOK, Upload
  <2>4. Assembled(a0, list) \in Object /\ Assembled(a0, list).archive = a0
    BY <1>0, <2>3 DEF Assembled, Object
  <2>5. bucket'[k0] = Assembled(a0, list) /\ \A k \in Keys \ {k0} : bucket'[k] = bucket[k]
    BY <1>0, <2>1, <2>2 DEF BucketType
  <2>6. QED
    BY <2>1, <2>4, <2>5, DistinctAssumption, StoringWrites DEF Creating
<1>5. CASE CommitEntry(s)
  <2>1. /\ save[s] = "commit" /\ held[s].key = k0 /\ held[s].archive = a0 /\ held[s] \in Record
        /\ UNCHANGED <<bucket, contended>> /\ index' = PutCache(index, k0, clock, held[s])
    BY <1>0, <1>5 DEF CommitEntry, IInv, HeldDescribes, Describes, TypeOK, SaversOK
  <2>2. /\ index'[k0] \in Record /\ index'[k0].archive = a0
        /\ \A k \in Keys \ {k0} : index'[k] = index[k]
    BY <1>0, <2>1, PutCacheFacts
  <2>3. /\ \A k \in Keys : BlobOf(k)' = BlobOf(k)
        /\ \A k \in Keys \ {k0} : EntryOf(k)' = EntryOf(k)
    BY <2>1, <2>2 DEF EntryOf, BlobOf, ExistsCache, HasObject
  <2>4. CASE k0 \in contended
    <3>1. EntryOf(k0)' = EntryOf(k0)
      BY <2>1, <2>4 DEF EntryOf
    <3>2. QED
      BY <2>1, <2>3, <3>1, NothingPublished
  <2>5. CASE k0 \notin contended
    <3>1. EntryOf(k0) = NoObject
      BY <1>0, <2>1, <2>5 DEF EntryOf, IInv, CreatingHasNoRecord, CreatingKey, Creating
    <3>2. EntryOf(k0)' = a0
      BY <2>1, <2>2, <2>5, DistinctAssumption DEF EntryOf, ExistsCache
    <3>3. BlobOf(k0) \in {a0, Reaped}
      BY <2>1, <2>5 DEF BlobOf, IInv, UploadedIsOwn, Uploaded, HasObject
    <3>4. Cache!Publish(k0, a0)
      BY <1>0, <2>1, <2>3, <2>5, <3>1, <3>2, <3>3 DEF Cache!Publish
    <3>5. QED
      BY <1>0, <3>4 DEF Cache!Next
  <2>6. QED
    BY <2>4, <2>5
<1>6. CASE ~( \/ CreateEntry(s) \/ RecordInflight(s) \/ PutObject(s)
             \/ CompleteUpload(s) \/ CommitEntry(s) )
  <2>1. UNCHANGED <<index, bucket, contended>>
    BY <1>6 DEF Saver, SaverFails, CheckEntry, Presign, UploadPart, UploadReturns,
                UpdateEntry, stores
  <2>2. QED
    BY <2>1, NothingPublished DEF EntryOf, BlobOf, ExistsCache, HasObject
<1>7. QED
  BY <1>1, <1>2, <1>3, <1>4, <1>5, <1>6

LEMMA StepPublishes ==
    ASSUME IInv, [Next]_vars
    PROVE  [Cache!Next]_(Cache!vars)
<1>0. index \in IndexType /\ bucket \in BucketType
  BY DEF IInv, TypeOK, StoresOK
<1>1. CASE UNCHANGED <<index, bucket, contended>>
  BY <1>1, NothingPublished DEF EntryOf, BlobOf, ExistsCache, HasObject
<1>2. ASSUME NEW r \in Restorers, Restorer(r) \/ RestorerFails(r)
      PROVE  UNCHANGED <<index, bucket, contended>>
  BY <1>2 DEF Restorer, RestorerFails, Lookup, Fallback, HeadObject, DownloadPart, Extract,
              stores, saveVars
<1>3. CASE Tick \/ UNCHANGED vars
  BY <1>1, <1>3 DEF Tick, vars, stores, saveVars
<1>4. ASSUME NEW id \in Keys \cup Savers, ExpireRecord(id)
      PROVE  [Cache!Next]_(Cache!vars)
  <2>1. /\ UNCHANGED <<bucket, contended>>
        /\ index'[id] = NoRecord /\ \A k \in Keys \ {id} : index'[k] = index[k]
    BY <1>0, <1>4 DEF ExpireRecord, saveVars, IndexType
  <2>2. /\ \A k \in Keys : BlobOf(k)' = BlobOf(k)
        /\ \A k \in Keys \ {id} : EntryOf(k)' = EntryOf(k)
        /\ id \in Keys => EntryOf(id)' = NoObject
    BY <2>1 DEF EntryOf, BlobOf, ExistsCache, HasObject
  <2>3. CASE id \in Keys /\ EntryOf(id) # NoObject
    <3>1. Cache!Expire(id)
      BY <2>1, <2>2, <2>3 DEF Cache!Expire
    <3>2. QED
      BY <2>3, <3>1 DEF Cache!Next
  <2>4. CASE ~(id \in Keys /\ EntryOf(id) # NoObject)
    BY <2>1, <2>2, <2>4, NothingPublished
  <2>5. QED
    BY <2>3, <2>4
<1>5. ASSUME NEW k \in Keys, ReapObject(k)
      PROVE  [Cache!Next]_(Cache!vars)
  <2>1. /\ UNCHANGED <<index, contended>> /\ bucket[k] \in Object
        /\ bucket'[k] = Reaped /\ \A j \in Keys \ {k} : bucket'[j] = bucket[j]
    BY <1>0, <1>5 DEF ReapObject, HasObject, saveVars, BucketType
  <2>2. /\ \A j \in Keys : EntryOf(j)' = EntryOf(j)
        /\ \A j \in Keys \ {k} : BlobOf(j)' = BlobOf(j)
    BY <2>1 DEF EntryOf, BlobOf, ExistsCache, HasObject
  <2>3. CASE k \in contended
    <3>1. BlobOf(k)' = BlobOf(k)
      BY <2>1, <2>3 DEF BlobOf
    <3>2. QED
      BY <2>1, <2>2, <3>1, NothingPublished
  <2>4. CASE k \notin contended
    <3>1. BlobOf(k) \in Archives /\ BlobOf(k)' = Reaped
      BY <1>5, <2>1, <2>4 DEF BlobOf, ReapObject, HasObject, Object
    <3>2. Cache!Reap(k)
      BY <2>1, <2>2, <3>1 DEF Cache!Reap
    <3>3. QED
      BY <3>2 DEF Cache!Next
  <2>5. QED
    BY <2>3, <2>4
<1>6. QED
  BY <1>1, <1>2, <1>3, <1>4, <1>5, SaverPublishes DEF Next, Finished

\* For any number of runs, keys and archives, under crashes, retries, expiry and
\* lifecycle, the handlers' separate calls implement the write-once cache.
THEOREM CacheImplemented == Spec => ImplementsWriteOnceCache
<1>1. Init => Cache!Init
  BY DEF Init, Cache!Init, EntryOf, BlobOf, ExistsCache, HasObject
<1>2. IInv /\ [Next]_vars => [Cache!Next]_(Cache!vars)
  BY StepPublishes
<1>3. QED
  BY <1>1, <1>2, IInvAlways, PTL DEF Spec, ImplementsWriteOnceCache, Cache!Spec

=============================================================================
