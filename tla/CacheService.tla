---------------------------- MODULE CacheService ----------------------------
(***************************************************************************)
(* The cache protocol: `zipstash save' and `zipstash restore' processes,   *)
(* the handlers of CacheServiceHandler, the index and the bucket.  Every   *)
(* handler is a sequence of remote calls with no transaction around them,  *)
(* so each call is a step of its own and the calls of concurrent requests  *)
(* interleave freely.  A client or the handler it is waiting for may die   *)
(* between any two steps; records and objects disappear when the table's   *)
(* TTL and the bucket's lifecycle rule remove them.                        *)
(*                                                                         *)
(* A saver stands for one run of `save', its upload id and its multipart   *)
(* upload.                                                                 *)
(***************************************************************************)
EXTENDS CacheIndex, ObjectStore, Sorting, FiniteSets

CONSTANTS
    Savers,      \* runs of save
    Restorers,   \* runs of restore
    Keys,        \* cache ids (owner/provider/os/arch/key)
    Branches,
    Archives,    \* archives by their checksum
    PartCount,   \* parts an archive is uploaded in; 0 for a single PUT
    MaxClock,    \* bound: seconds the clock may show
    MaxStray     \* bound: savers for which S3's answer to an opened upload is lost

ASSUME PartCountAssumption == PartCount \in [Archives -> Nat]
ASSUME MaxClockAssumption == MaxClock \in Nat
ASSUME MaxStrayAssumption == MaxStray \in Nat

VARIABLES
    index,      \* the DynamoDB table's cache records
    bucket,     \* the S3 bucket
    uploads,    \* S3's multipart uploads, by the saver they were opened for
    clock,      \* the servers' time, in seconds
    job,        \* what each saver was asked to save
    save,       \* each saver's place in SaveCmd.save and its requests
    etags,      \* parts whose etags the uploader has collected, oldest first
    held,       \* the record the handler of a saver's request is working with
    want,       \* what each restorer was asked for
    restore,    \* each restorer's place in RestoreCmd.restore and its request
    entry,      \* the entry a restorer was given: record and fallback flag
    todo,       \* parts a restorer has yet to download
    got,        \* archives that the parts downloaded so far come from
    contended   \* history: keys that two savers were creating at the same time

stores == <<index, bucket, uploads>>
saveVars == <<save, etags, held, contended>>
restoreVars == <<restore, entry, todo, got>>
vars == <<stores, clock, job, saveVars, want, restoreVars>>

Record ==
    [key : Keys, branch : Branches, archive : Archives,
     upload : Savers, multipart : BOOLEAN, created : 0 .. MaxClock]

Object == [archive : Archives, parts : SUBSET Nat]

\* The markers are not mistaken for what they mark the absence of.
ASSUME DistinctAssumption ==
    /\ Keys \cap Savers = {}
    /\ NoRecord \notin Record
    /\ NoObject # Reaped
    /\ {NoObject, Reaped} \cap Object = {}

Multipart(a) == PartCount[a] > 0
PartsOf(a) == 1 .. PartCount[a]

\* The object a saver's archive becomes when all of it arrives.
WholeObject(a) == [archive |-> a, parts |-> PartsOf(a)]

\* A saver between the existence check of CreateEntry and the answer of
\* UpdateEntry.
Creating == {"presign", "record", "upload", "update", "complete", "commit"}
CreatingKey(k) == {s \in Savers : job[s].key = k /\ save[s] \in Creating}

-----------------------------------------------------------------------------

Init ==
    /\ index = [id \in Keys \cup Savers |-> NoRecord]
    /\ bucket = [k \in Keys |-> NoObject]
    /\ uploads = [s \in Savers |-> [open |-> FALSE, parts |-> {}, stray |-> FALSE]]
    /\ clock \in 0 .. MaxClock
    /\ job \in [Savers -> [key : Keys, branch : Branches, archive : Archives]]
    /\ save \in [Savers -> {"check", "failed"}]   \* some runs do not come to it
    /\ etags = [s \in Savers |-> <<>>]
    /\ held = [s \in Savers |-> NoRecord]
    /\ want \in [Restorers -> [key : Keys, fallback : Branches]]
    /\ restore \in [Restorers -> {"lookup", "failed"}]
    /\ entry = [r \in Restorers |-> [record |-> NoRecord, fallback |-> FALSE]]
    /\ todo = [r \in Restorers |-> {}]
    /\ got = [r \in Restorers |-> {}]
    /\ contended = {}

\* CheckEntry: save ends early when the key has a record.
CheckEntry(s) ==
    /\ save[s] = "check"
    /\ save' = [save EXCEPT ![s] =
                  IF ExistsCache(index, job[s].key) THEN "exists" ELSE "create"]
    /\ UNCHANGED <<stores, clock, job, etags, held, contended, want, restoreVars>>

\* CreateEntry without its own check.
CreateEntry_NoCheck(s) ==
    /\ save[s] = "create"
    /\ save' = [save EXCEPT ![s] = "presign"]
    /\ contended' = IF CreatingKey(job[s].key) = {}
                      THEN contended ELSE contended \cup {job[s].key}
    /\ UNCHANGED <<stores, clock, job, etags, held, want, restoreVars>>

\* CreateEntry that opens the multipart upload before it checks.
CreateEntry_PresignFirst(s) ==
    /\ save[s] = "create"
    /\ uploads' = [uploads EXCEPT ![s].open = Multipart(job[s].archive)]
    /\ IF ExistsCache(index, job[s].key)
         THEN /\ save' = [save EXCEPT ![s] = "alreadyExists"]
              /\ UNCHANGED contended
         ELSE /\ save' = [save EXCEPT ![s] = "presign"]
              /\ contended' = IF CreatingKey(job[s].key) = {}
                                THEN contended ELSE contended \cup {job[s].key}
    /\ UNCHANGED <<index, bucket, clock, job, etags, held, want, restoreVars>>

\* CreateEntry's own check, which ends in AlreadyExists when the key has a record
\* by now.
CreateEntry(s) ==
    /\ save[s] = "create"
    /\ IF ExistsCache(index, job[s].key)
         THEN /\ save' = [save EXCEPT ![s] = "alreadyExists"]
              /\ UNCHANGED contended
         ELSE /\ save' = [save EXCEPT ![s] = "presign"]
              /\ contended' = IF CreatingKey(job[s].key) = {}
                                THEN contended ELSE contended \cup {job[s].key}
    /\ UNCHANGED <<stores, clock, job, etags, held, want, restoreVars>>

\* GenerateFileUploadInstructions: a large archive opens a multipart upload.  When S3's
\* answer is lost the SDK makes the call again, which opens another one; nobody has
\* the id of the first.
Presign(s) ==
    /\ save[s] = "presign"
    /\ \/ /\ uploads' = [uploads EXCEPT ![s].open = Multipart(job[s].archive)]
          /\ save' = [save EXCEPT ![s] = "record"]
       \/ /\ Multipart(job[s].archive)
          /\ Cardinality({t \in Savers : uploads[t].stray}) < MaxStray
          /\ uploads' = [uploads EXCEPT ![s].stray = TRUE]
          /\ UNCHANGED save
    /\ UNCHANGED <<index, bucket, clock, job, etags, held, contended, want, restoreVars>>

\* The record CreateEntry builds from its request.
NewRecord(s) ==
    [key |-> job[s].key, branch |-> job[s].branch, archive |-> job[s].archive,
     upload |-> s, multipart |-> Multipart(job[s].archive), created |-> clock]

\* The id of the record while the upload runs: the cache id.
InflightID_CacheID(s) == job[s].key
\* The id of the record while the upload runs: a fresh uuid.
InflightID(s) == s

\* CreateEntry's PutCache; its answer sends the client uploading.
RecordInflight(s) ==
    /\ save[s] = "record"
    /\ index' = PutCache(index, InflightID(s), clock, NewRecord(s))
    /\ save' = [save EXCEPT ![s] = "upload"]
    /\ UNCHANGED <<bucket, uploads, clock, job, etags, held, contended, want, restoreVars>>

\* A small archive goes up in one PUT; when the answer is lost it is PUT again.
PutObject(s) ==
    /\ save[s] = "upload"
    /\ ~Multipart(job[s].archive)
    /\ bucket' = [bucket EXCEPT ![job[s].key] = WholeObject(job[s].archive)]
    /\ save' \in {save, [save EXCEPT ![s] = "update"]}
    /\ UNCHANGED <<index, uploads, clock, job, etags, held, contended, want, restoreVars>>

\* One attempt at one part.  Its etag may be lost with the answer, in which case
\* the part is uploaded again.
UploadPart(s, p) ==
    /\ save[s] = "upload"
    /\ Multipart(job[s].archive)
    /\ p \notin Range(etags[s])
    /\ uploads' = [uploads EXCEPT ![s].parts = @ \cup {p}]
    /\ etags' \in {etags, [etags EXCEPT ![s] = Append(@, p)]}
    /\ UNCHANGED <<index, bucket, clock, job, save, held, contended, want, restoreVars>>

\* The uploader returning as soon as one part is up.
UploadReturns_Early(s) ==
    /\ save[s] = "upload"
    /\ Multipart(job[s].archive)
    /\ etags[s] # <<>>
    /\ save' = [save EXCEPT ![s] = "update"]
    /\ UNCHANGED <<stores, clock, job, etags, held, contended, want, restoreVars>>

\* The uploader returns the etags when it has one for every part.
UploadReturns(s) ==
    /\ save[s] = "upload"
    /\ Multipart(job[s].archive)
    /\ Range(etags[s]) = PartsOf(job[s].archive)
    /\ save' = [save EXCEPT ![s] = "update"]
    /\ UNCHANGED <<stores, clock, job, etags, held, contended, want, restoreVars>>

\* UpdateEntry that leaves out the multipart upload.
UpdateEntry_NoComplete(s) ==
    /\ save[s] = "update"
    /\ held' = [held EXCEPT ![s] = index[s]]
    /\ save' = [save EXCEPT ![s] =
                  IF ~ExistsCache(index, s) THEN "failed" ELSE "commit"]
    /\ UNCHANGED <<stores, clock, job, etags, contended, want, restoreVars>>

\* UpdateEntry without its NotFound.
UpdateEntry_Unchecked(s) ==
    /\ save[s] = "update"
    /\ held' = [held EXCEPT ![s] = index[s]]
    /\ save' = [save EXCEPT ![s] =
                  IF Multipart(job[s].archive) THEN "complete" ELSE "commit"]
    /\ UNCHANGED <<stores, clock, job, etags, contended, want, restoreVars>>

\* UpdateEntry reads the record stored under the upload id.  It may have expired.
UpdateEntry(s) ==
    /\ save[s] = "update"
    /\ held' = [held EXCEPT ![s] = index[s]]
    /\ save' = [save EXCEPT ![s] =
                  IF ~ExistsCache(index, s) THEN "failed"
                  ELSE IF index[s].multipart THEN "complete" ELSE "commit"]
    /\ UNCHANGED <<stores, clock, job, etags, contended, want, restoreVars>>

fromCachePartETagV1_Unsorted(parts) == parts
\* The etags of the request, sorted by part number.
fromCachePartETagV1(parts) == SortBy(parts, parts)

\* CompleteMultipartUpload under the cache id of the record.
CompleteUpload(s) ==
    /\ save[s] = "complete"
    /\ LET list == fromCachePartETagV1(etags[s])
       IN  /\ AcceptsComplete(uploads[s], list)
           /\ bucket' = [bucket EXCEPT ![held[s].key] = Assembled(job[s].archive, list)]
    /\ uploads' = [uploads EXCEPT ![s].open = FALSE]
    /\ save' = [save EXCEPT ![s] = "commit"]
    /\ UNCHANGED <<index, clock, job, etags, held, contended, want, restoreVars>>

\* UpdateEntry's PutCache: the record under the cache id, with a new `created'.  When
\* its answer, or the handler's, does not arrive, the entry is there and save fails.
CommitEntry(s) ==
    /\ save[s] = "commit"
    /\ index' = PutCache(index, held[s].key, clock, held[s])
    /\ \E ending \in {"done", "failed"} : save' = [save EXCEPT ![s] = ending]
    /\ UNCHANGED <<bucket, uploads, clock, job, etags, held, contended, want, restoreVars>>

\* A call fails or the process dies: what was done so far stays done.
SaverFails(s) ==
    /\ save[s] \in Creating \cup {"check", "create"}
    /\ save' = [save EXCEPT ![s] = "failed"]
    /\ UNCHANGED <<stores, clock, job, etags, held, contended, want, restoreVars>>

Saver(s) ==
    \/ CheckEntry(s)
    \/ CreateEntry(s)
    \/ Presign(s)
    \/ RecordInflight(s)
    \/ PutObject(s)
    \/ \E p \in PartsOf(job[s].archive) : UploadPart(s, p)
    \/ UploadReturns(s)
    \/ UpdateEntry(s)
    \/ CompleteUpload(s)
    \/ CommitEntry(s)

-----------------------------------------------------------------------------

\* GetEntry: the record under the cache id itself, or on to the fallback.
Lookup(r) ==
    /\ restore[r] = "lookup"
    /\ IF ExistsCache(index, want[r].key)
         THEN /\ entry' = [entry EXCEPT ![r] =
                             [record |-> index[want[r].key], fallback |-> FALSE]]
              /\ restore' = [restore EXCEPT ![r] = "head"]
         ELSE /\ restore' = [restore EXCEPT ![r] = "fallback"]
              /\ UNCHANGED entry
    /\ UNCHANGED <<stores, clock, job, saveVars, want, todo, got>>

\* GetEntry: the newest record of the fallback branch, whatever its key is.
Fallback(r) ==
    /\ restore[r] = "fallback"
    /\ LET found == FallbackCandidates(index, want[r].fallback)
       IN  IF found = {}
             THEN /\ restore' = [restore EXCEPT ![r] = "notFound"]
                  /\ UNCHANGED entry
             ELSE /\ \E rec \in found :
                        entry' = [entry EXCEPT ![r] = [record |-> rec, fallback |-> TRUE]]
                  /\ restore' = [restore EXCEPT ![r] = "head"]
    /\ UNCHANGED <<stores, clock, job, saveVars, want, todo, got>>

\* GetEntry: existsInS3 finds the object's size, from which the parts follow.
HeadObject(r) ==
    /\ restore[r] = "head"
    /\ LET k == entry[r].record.key
       IN  IF HasObject(bucket, k)
             THEN /\ todo' = [todo EXCEPT ![r] =
                                IF Multipart(bucket[k].archive)
                                  THEN PartsOf(bucket[k].archive) ELSE {1}]
                  /\ restore' = [restore EXCEPT ![r] = "download"]
             ELSE /\ restore' = [restore EXCEPT ![r] = "notFound"]
                  /\ UNCHANGED todo
    /\ UNCHANGED <<stores, clock, job, saveVars, want, entry, got>>

\* The GET of one range returns bytes of the object that is there by then.
DownloadPart(r, p) ==
    /\ restore[r] = "download"
    /\ p \in todo[r]
    /\ LET k == entry[r].record.key
       IN  IF HasObject(bucket, k)
             THEN /\ got' = [got EXCEPT ![r] = @ \cup {bucket[k].archive}]
                  /\ todo' = [todo EXCEPT ![r] = @ \ {p}]
                  /\ UNCHANGED restore
             ELSE /\ restore' = [restore EXCEPT ![r] = "failed"]
                  /\ UNCHANGED <<got, todo>>
    /\ UNCHANGED <<stores, clock, job, saveVars, want, entry>>

\* Every part is there: they are combined and extracted.
Extract(r) ==
    /\ restore[r] = "download"
    /\ todo[r] = {}
    /\ restore' = [restore EXCEPT ![r] = "restored"]
    /\ UNCHANGED <<stores, clock, job, saveVars, want, entry, todo, got>>

RestorerFails(r) ==
    /\ restore[r] \in {"lookup", "fallback", "head", "download"}
    /\ restore' = [restore EXCEPT ![r] = "failed"]
    /\ UNCHANGED <<stores, clock, job, saveVars, want, entry, todo, got>>

Restorer(r) ==
    \/ Lookup(r)
    \/ Fallback(r)
    \/ HeadObject(r)
    \/ \E p \in todo[r] : DownloadPart(r, p)
    \/ Extract(r)

-----------------------------------------------------------------------------

Tick ==
    /\ clock < MaxClock
    /\ clock' = clock + 1
    /\ UNCHANGED <<stores, job, saveVars, want, restoreVars>>

\* The table's TTL: 30 minutes for a record under an upload id, 7 days for one
\* under a cache id.  How long either is depends on nothing the savers do.
ExpireRecord(id) ==
    /\ index[id] # NoRecord
    /\ index' = [index EXCEPT ![id] = NoRecord]
    /\ UNCHANGED <<bucket, uploads, clock, job, saveVars, want, restoreVars>>

\* The bucket's lifecycle rule, 7 days after the object was written.
ReapObject(k) ==
    /\ HasObject(bucket, k)
    /\ bucket' = [bucket EXCEPT ![k] = Reaped]
    /\ UNCHANGED <<index, uploads, clock, job, saveVars, want, restoreVars>>

Finished ==
    /\ \A s \in Savers : save[s] \in {"exists", "alreadyExists", "done", "failed"}
    /\ \A r \in Restorers : restore[r] \in {"restored", "notFound", "failed"}
    /\ UNCHANGED vars

Next ==
    \/ \E s \in Savers : Saver(s) \/ SaverFails(s)
    \/ \E r \in Restorers : Restorer(r) \/ RestorerFails(r)
    \/ Tick
    \/ \E id \in Keys \cup Savers : ExpireRecord(id)
    \/ \E k \in Keys : ReapObject(k)
    \/ Finished

Spec == Init /\ [][Next]_vars

-----------------------------------------------------------------------------
(* Properties *)

IndexType == [Keys \cup Savers -> Record \cup {NoRecord}]
BucketType == [Keys -> Object \cup {NoObject, Reaped}]

\* Whether the upload that the saver's URLs belong to is open, its parts, and whether
\* there is one whose id the handler never got.
Upload == [open : BOOLEAN, parts : SUBSET Nat, stray : BOOLEAN]
SaverStates == Creating \cup {"check", "create", "exists", "alreadyExists", "done", "failed"}
RestorerStates ==
    {"lookup", "fallback", "head", "download", "restored", "notFound", "failed"}

StoresOK ==
    /\ index \in IndexType
    /\ bucket \in BucketType
    /\ uploads \in [Savers -> Upload]
    /\ clock \in 0 .. MaxClock

SaversOK ==
    /\ job \in [Savers -> [key : Keys, branch : Branches, archive : Archives]]
    /\ save \in [Savers -> SaverStates]
    /\ etags \in [Savers -> Seq(Nat)]
    /\ held \in [Savers -> Record \cup {NoRecord}]
    /\ \A s \in Savers : save[s] \in {"complete", "commit"} => held[s] \in Record
    /\ contended \subseteq Keys

RestorersOK ==
    /\ want \in [Restorers -> [key : Keys, fallback : Branches]]
    /\ restore \in [Restorers -> RestorerStates]
    /\ entry \in [Restorers -> [record : Record \cup {NoRecord}, fallback : BOOLEAN]]
    /\ \A r \in Restorers :
          restore[r] \in {"head", "download", "restored"} => entry[r].record \in Record
    /\ todo \in [Restorers -> SUBSET Nat]
    /\ got \in [Restorers -> SUBSET Archives]

\* Types, and what the handlers rely on: UpdateEntry and GetEntry only go on with
\* a record that they found.
TypeOK == StoresOK /\ SaversOK /\ RestorersOK

\* A record appears under a cache id only after the archive it describes, or a
\* rival for the same key, was stored in full: the commit comes last.
CommittedHasObject ==
    \A k \in Keys : ExistsCache(index, k) => bucket[k] # NoObject

\* No object is ever a piece of an archive: a multipart upload is completed with
\* every one of its parts, whatever died or was retried on the way.
ObjectsWhole ==
    \A k \in Keys :
        HasObject(bucket, k) => bucket[k] = WholeObject(bucket[k].archive)

\* A record and the object under the same key agree on the checksum, as long as
\* no two savers were creating the key at the same time; failed savers, expired
\* records and earlier objects make no difference.
UncontendedMatch ==
    \A k \in Keys \ contended :
        ExistsCache(index, k) /\ HasObject(bucket, k) =>
            index[k].archive = bucket[k].archive

\* Once committed, an entry is not changed by anyone, only removed: neither its
\* record nor the object it stands for.
UncontendedWriteOnce ==
    [][\A k \in Keys :
          k \notin contended' /\ ExistsCache(index, k) /\ ExistsCache(index', k) =>
              /\ index'[k] = index[k]
              /\ bucket'[k] \in {bucket[k], Reaped}]_vars

\* The entry and the archive that a client can count on under a key.
EntryOf(k) ==
    IF k \in contended \/ ~ExistsCache(index, k) THEN NoObject ELSE index[k].archive
BlobOf(k) ==
    IF k \in contended THEN NoObject
    ELSE IF HasObject(bucket, k) THEN bucket[k].archive ELSE bucket[k]

Cache == INSTANCE WriteOnceCache
    WITH entry <- [k \in Keys |-> EntryOf(k)], blob <- [k \in Keys |-> BlobOf(k)],
         raced <- contended, None <- NoObject, Gone <- Reaped

\* The handlers, with their unprotected sequences of calls, implement a write-once
\* cache: an entry is published only for the archive that is stored under its key,
\* no archive is written under a published key, and what is published is removed
\* but never changed.
ImplementsWriteOnceCache == Cache!Spec

\* A restore that got the entry it asked for extracts what the record it was given
\* describes, all of it from one archive, when the key was never contended and the
\* record outlives the download.
RestoreFaithful ==
    \A r \in Restorers :
        LET rec == entry[r].record IN
        ( /\ restore[r] = "restored"
          /\ ~entry[r].fallback
          /\ rec.key \notin contended
          /\ index[rec.key] = rec ) => got[r] = {rec.archive}

\* S3 accepts every completion that UpdateEntry asks for, in whatever order the
\* etags arrived at the client.
CompletionAccepted ==
    \A s \in Savers :
        save[s] = "complete" =>
            AcceptsComplete(uploads[s], fromCachePartETagV1(etags[s]))

\* A save that is turned away has opened no multipart upload, and one that succeeds has
\* had the one completed that its URLs belong to: only a failed save, and a call of
\* CreateMultipartUpload whose answer was lost, leave one open for good.
UploadsAccountedFor ==
    \A s \in Savers :
        /\ uploads[s].open => save[s] \in Creating \cup {"failed"}
        /\ uploads[s].stray => save[s] \in Creating \cup {"failed", "done"}

\* "NOTE: this is a secondary check for exists to prevent a race conditions":
\* when every save of a key has ended without an error, the record left under the
\* key describes the object left there.
RacePrevented ==
    \A k \in Keys :
        ( /\ \A s \in Savers :
                job[s].key = k => save[s] \in {"done", "exists", "alreadyExists"}
          /\ ExistsCache(index, k)
          /\ HasObject(bucket, k) ) => index[k].archive = bucket[k].archive

\* "cache entry found with matching sha256sum": what the client prints when
\* CreateEntry answers AlreadyExists.
AlreadyExistsMatches ==
    \A s \in Savers :
        save[s] = "alreadyExists" /\ ExistsCache(index, job[s].key) =>
            index[job[s].key].archive = job[s].archive

\* "move the inflight cache entry to the cache index": the search by branch then
\* offers entries whose upload is complete when the branch has one.
FallbackHasObject ==
    \A b \in Branches :
        (\E k \in Keys : /\ ExistsCache(index, k)
                         /\ index[k].branch = b
                         /\ HasObject(bucket, k)) =>
            \A rec \in FallbackCandidates(index, b) : bucket[rec.key] # NoObject

=============================================================================
