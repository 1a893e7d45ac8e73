# zipstash: models, checks and proofs

zipstash stores build caches. `zipstash save` archives some paths and uploads
the archive to S3 through URLs that the cache service presigns; `zipstash
restore` asks the service for a key, downloads the archive in parts and
extracts it. An index in DynamoDB says which keys have an entry. This directory
holds TLA+ modules of that system, TLC configurations, and TLAPS proofs.

## The system

| part | state | operations | hard behaviour |
|---|---|---|---|
| `CacheServiceHandler` (`internal/server/rpc_cache.go`) | none of its own | CheckEntry, CreateEntry, UpdateEntry, GetEntry | each is a row of remote calls with no transaction; any call may fail after the ones before it took effect; any number of requests run at once |
| presigner (`presigner.go`) | none | upload and download instructions, `calculateOffsets` | byte ranges, boundaries, the limits of S3; opens a multipart upload that only UpdateEntry completes |
| index (`internal/index`) | cache records by id (with TTL), tenants | ExistsCache, PutCache, query by branch, tenant lookups | unconditional writes; in-flight and committed records in one partition |
| S3 | objects, open multipart uploads | PUT, upload part, complete, head, get, lifecycle | a completion takes any subset of parts; objects disappear on their own schedule |
| `SaveCmd` (`commands/client/save.go`) | its place in the protocol | check, archive, create, upload, update | may die anywhere; the uploads take minutes |
| uploader (`pkg/uploader`) | semaphore, error channel, WaitGroup, etags | Upload: one goroutine per part | failures, retries, lost answers, goroutines waiting on each other |
| `RestoreCmd`, downloader (`restore.go`, `pkg/downloader`) | downloaded parts | get, download, combine, clean, extract | the object may change or vanish between the lookup and each GET |
| archive (`pkg/archive`) | files | build, map paths, clean, extract | an entry's name does not say which root it is relative to; save and restore compute names apart, on two machines |
| table setup (`dynamodb.go`) | the table and its time to live | create, wait, enable the TTL | several servers at once; a server that stops between the steps |
| tenants (`rpc_provision.go`, admin command) | tenant records | create, validate owner | secondary index lags behind writes; lost answers and retries |
| token sources (`pkg/tokens`) | a run's token | one request at the start of a run | the token runs out during the run |
| token validation (`internal/ciauth`) | JWKS cache of each server | middleware, validate, claims | lazy registration under concurrent requests; keys that change |

They interact as follows. `save` calls CheckEntry and, if the key is free, builds
the archive and calls CreateEntry, which looks the key up again, presigns, and
stores a record under a fresh *upload id*. The uploader PUTs the parts straight
to S3. `save` then calls UpdateEntry, which reads the record under the upload
id, completes the multipart upload under the *cache id* (owner, provider,
platform and key), and stores the record under the cache id. `restore` calls
GetEntry, which looks up the cache id, or else the newest record of a fallback
branch, asks S3 for the object's length, and presigns one GET per part.

Each run of `save` or `restore` first asks its CI service for a token, and sends
it with every call. The middleware in front of the handlers validates it with
the keys of its issuer, and the handlers (all but UpdateEntry's) look for a
tenant with the provider and owner that the call names. Tenants are made by the
admin command through the provision service.

What makes the parts correct:

- service: a record appears only after its archive is stored; record and
  object agree; a committed entry is not changed; a completion that S3 must
  refuse is never asked for; a save that is turned away leaves no multipart
  upload behind, and one that succeeds has completed the one it knows of;
- presigner: the ranges cover the file exactly once, in order, within S3's limits;
- uploader: it succeeds only with every part stored and its etag collected,
  bounds its concurrency, reports failures, and returns;
- restore: what is extracted is what the record describes; the target paths
  are left alone until every part has arrived; restore ends;
- archive: what was saved comes back to the place that corresponds to its own,
  nothing outside of the paths changes, and what can be saved can be restored;
- the way to the handlers: a valid call of an existing tenant is served, whatever
  other calls do at the same time; a call gets past the owner's check only if
  a command made a tenant whose owner begins with the one it names (its own owner
  it need not be, finding 6); commands are told the truth; every run ends.

## Modules

| module | models | checked by | proofs |
|---|---|---|---|
| `PartOffsets` | `calculateOffsets`, one step per iteration, and the threshold below which one instruction is used | `MCPartOffsets.cfg`, `MCPartOffsetsEmpty.cfg` | `PartOffsetsProofs` |
| `PartUploader` | `Uploader.Upload` and its goroutines | `MCPartUploader.cfg`, `MCPartUploaderStuck.cfg` | `PartUploaderProofs` |
| `PartDownloader` | `Downloader.Download` and its goroutines | through `RestoreFiles` | `PartDownloaderProofs` |
| `RestoreFiles` | the client's half of `restore`: download, sort, combine, clean, extract | `MCRestoreFiles.cfg` | `PartDownloaderProofs` |
| `PartTransfer` | what the uploader and the downloader promise | refined by `PartUploader` and `PartDownloader` | steps simulated in their proof modules |
| `PathMapping` | `pkg/archive` and `cleanPath`: the names in an archive and where they lead | `MCPathMapping` | `PathMappingProofs` |
| `Sorting` | `sort.Slice` and `slices.SortFunc` (external) | through `CacheService`, `RestoreFiles` | `SortingProofs` |
| `CacheIndex` | the index operations on cache records | through `CacheService` | lemmas in `CacheServiceProofs` |
| `ObjectStore` | what the code relies on in S3 (external) | through `CacheService` | |
| `CacheService` | save and restore runs, the handlers, both stores | `MCCacheService` with four configurations | `CacheServiceProofs`, `CacheRestoreProofs` |
| `WriteOnceCache` | what the service promises for a key without a race | refined by `CacheService` | `CacheServiceProofs` |
| `Providers` | the tables of provider names that each part has | through `RequestPath` | |
| `TableSetup` | `MustNewStore` and `createTable` on several servers | through `RequestPath` | `RequestPathProofs` |
| `TokenValidation` | `pkg/tokens`, `internal/ciauth`, the issuers' keys | through `RequestPath` | `RequestPathProofs` |
| `Tenancy` | `create-tenant`, CreateTenant, PutTenant, the tenants' index | through `RequestPath` | `RequestPathProofs` |
| `RequestPath` | the three side by side, a run's calls, `validateOwner`, restarts | `MCRequestPath` with two configurations | `RequestPathProofs` |

**`CacheService`** composes the stores and the clients. A *saver* is one run of
`save`; `save[s]` is its place in `SaveCmd.save` and in the handler that serves
it, with one action per remote call:

| action | code |
|---|---|
| `CheckEntry` | CheckEntry's lookup and `save`'s early return |
| `CreateEntry` | CreateEntry's lookup, AlreadyExists |
| `Presign` | CreateMultipartUpload for a large archive, once more when its answer was lost, and the URLs |
| `RecordInflight` | PutCache under the upload id |
| `PutObject`, `UploadPart`, `UploadReturns` | the uploads, and `Upload` returning the etags |
| `UpdateEntry` | the lookup of the upload id, NotFound |
| `CompleteUpload` | sorting the etags, CompleteMultipartUpload |
| `CommitEntry` | PutCache under the cache id; its answer may not reach the client, whose save has then failed |
| `SaverFails` | an error of any call, or the death of the client or the handler |
| `Lookup`, `Fallback`, `HeadObject` | GetEntry |
| `DownloadPart`, `Extract`, `RestorerFails` | the client's half of `restore` |
| `ExpireRecord`, `ReapObject` | the table's TTL and the bucket's lifecycle rule |

Abstractions. `Keys` stands for cache ids. `Archives` stands for archives by
checksum; `PartCount` is 0 for one that goes up in a single PUT. A record keeps
the fields that decisions depend on. A saver also serves as its own upload id,
which is a fresh UUID in the code. DynamoDB's reads are modelled as strongly
consistent. A client that dies while a handler is still running is a saver that
goes on for the handler's remaining steps and fails after them. Expiry and
reaping may happen at any time, which includes the times the code's TTLs
allow. An owner that does not validate and a store that answers with an error
are both `SaverFails` or `RestorerFails`. `UploadReturns` asks for an etag for
every part because `PartUploader` shows that `Upload` succeeds only then
(`SuccessIsComplete`). `contended` is a history variable: the keys that two
savers were creating at the same time, that is, both between CreateEntry's
lookup and the end of UpdateEntry.

The SDK repeats a call whose answer was lost. For CreateMultipartUpload that
makes a difference, and is modelled: S3 has opened an upload (`stray`) whose id
nobody knows, and opens another one; `MaxStray` bounds the savers this happens to.
A PutCache that is repeated writes the same record again, and is one step. A repeated
CompleteMultipartUpload may find its upload gone and fail: that is `SaverFails` after
`CompleteUpload`.

**`PartUploader`** has the goroutine of each part as a program counter, and the
loop, the closing goroutine and the select of `Upload`. An attempt's answer may
be lost after the part was stored. `MaxFailures` bounds the parts that fail for
good; it is a bound on the environment, and the liveness result depends on it.

**`PartDownloader`** is arranged like `PartUploader` and differs where the code
does: a goroutine whose part failed goes on, after its error has been taken, to
append a zero `DownloadedFile`, and the body of any answer other than 400, 404
and 500 becomes a part. A file's content is one of four: the part's bytes, the
whole object (S3's answer to a range that ends before it starts), the document
that explains another status, or nothing. An answer that is cut short is an
attempt that failed.

**`RestoreFiles`** adds the steps of `RestoreCmd.restore` after the download:
`AppendToFile` is one iteration of `combineParts` over the sorted list, `CleanPaths`
all of `--clean`, `ExtractFiles` the extraction, which refuses an archive with
a document in it, and `StepFails` an error in any of them, after which nothing
is undone. The temporary files that failures leave behind are not tracked.

**`Sorting`** says what the two sort functions of the libraries do in terms of a
bijection, since the provers know no algorithm for it: some order in which the keys
ascend, with elements of equal keys either way round.

**`PathMapping`** has one action per path of `BuildArchive`'s loop (`ArchivePath`),
per path of `--clean` (`CleanPath`) and per entry of the extraction
(`ExtractEntry`), on two machines with a home and a working directory each. A
location is a sequence of names. A written path is a form (`~/`, relative or
absolute) and its names, with `"."` and `""` for what `filepath.Clean` removes;
`..` is left out. `HasPrefix` is the text prefix of the code: the last name may
be cut short, and `Extends` says which names are the beginnings of which.
`EntryName` is quickzip's: the way from the mapping's chroot to the file, and a
refusal for a file outside of it. Directories as entries of their own, and
permissions, are left out.

**`RequestPath`** joins three modules of which each keeps its own variables.

- `TableSetup`: a server that is started with the flag goes through
  `CreateTable`, `Wait` and `UpdateTimeToLive` before it listens; one that finds
  the table in use, in whatever state, is done at once. When the answer to
  `CreateTable` is lost the table may have been made, and the SDK's repeat finds it
  in use like anybody else's: the server stays at `create`, and `orphaned` remembers
  it. `SetupFails` is `log.Fatal`, for a wait of more than ten seconds and for an
  error whose call had its effect too. Some servers may not be running at the start.
- `TokenValidation`: `place[r]` is where the present call of run `r` is.
  `RequestToken`, `LocalToken` and `RequestTokenFails` are `GetToken`;
  `Authenticate` is the middleware and `ValidateToken` up to `IsRegistered`;
  `Register` and `Ready` are the registration and its wait for the first fetch;
  `Verify` is the second `Parse` and `parseClaims`. Between any two of them other
  calls, `Fetch`, `Rotate`, `Expire` and restarts may come. A key is a number, in
  the order in which its issuer made it, and a signature is the key's number.
  A string that is no JWT (the `local` source's) is a token without an issuer.
- `Tenancy`: `CreateTenant` is the handler with `PutTenant`; DynamoDB's answer
  may be lost, and the SDK then tries again. `Index` is the delay of the
  secondary index, `ExistsTenantByKey` the prefix query on it.

`Send`, `Handle` and `HandleFails` are the calls of a run, one after the other
with one token, each to any server. What a handler does after the owner is known
is `CacheService`'s; here it is the answer that lets the run make its next call,
or an early end. `warm` is a history variable: the call came to a server with
its token's key, when the index had its tenant. `orphaned` is one too.

The two abstract specifications. **`PartTransfer`** has the parts that moved
and those that broke, succeeds only once all have moved, fails only when one is
broken, and returns in the end. **`WriteOnceCache`** stores an archive under a
key and then publishes one entry for it, which nobody changes before it is removed.
`PartUploader` and `PartDownloader` refine the first, `CacheService` the second
for the keys that have had no race.

**`PartOffsets`** keeps the arithmetic of the code, inclusive ends included.
The client's chunk length (`ChunkSize`) is the uploader's.

## Runs

| run | bounds | shows |
|---|---|---|
| `part_offsets` | parts of 4 bytes, a limit of 7 parts, archives of 0 to 40 bytes | sizes below, at and after the threshold, every remainder, and sizes on both sides of the part limit |
| `part_offsets_empty_tail` | the same | finding 1 |
| `part_uploader` | 4 parts, 2 slots, 2 attempts, 1 failing part | safety and `Returns`; more parts than slots, so the loop waits, and retries happen |
| `part_uploader_stuck` | 2 failing parts | finding 2 |
| `restore_files` | 3 parts, 2 slots, 2 attempts, 1 failing part | the downloader's safety, `TargetTouchedLast` and `RestoreEnds`; parts arrive in any order, with and without `--clean` |
| `cache_service` | 1 key, 1 branch, a small and a two-part archive, 1 stray upload; 3 savers, or 2 savers, 1 restorer and 2 clock values | the invariants of the two stores, with a third saver that acts after a race or a failure of the others; `RestoreFaithful`, with overwrites and expiry between any two steps of the restore |
| `create_race`, `already_exists_checksum` | 2 savers, no restorer | findings 3 and 4 |
| `fallback_inflight` | 2 savers, 2 keys of one branch | finding 5 |
| `path_mapping` | lists of one and two paths in every form, of three in the shortest; names of which one is the beginning of another; two machines, each with its working directory inside its home under a different name; with and without `--clean` | the files' places, refusals, and what a restore touches |
| `request_path` | 2 servers that both create the table, 2 runs, 2 commands for one id, 2 keys of one issuer, 1 restart | who is let through, the answers, the table, and that runs end |
| `owner_prefix` | the same | finding 6 |

`cache_service` starts in two ways, each with the rest of the runs over (`failed`)
before it begins: three saves with the clock at its end, which without a restorer
nobody reads to decide anything, or two saves and a restore. Answers of
CreateMultipartUpload are lost only in the first way; a restore never looks at open
uploads.

`request_path` starts in three ways: a new deployment with no tenant, where the save
meets the table's and the tenant's creation; a running one with the tenant in
place, where both runs validate at the same time; and two servers that start at
once, both with the flag, and no calls. Two runs are enough for one to register
while the other asks, and to find keys that the other has had fetched; two commands
to compete for an id. In the first two ways the second server is not running, and a
call that goes to it fails; it is the table that the servers share, and two of them
are enough to compete for it. A run that has several servers and calls at once is
too large for its time; the invariants are proved for any number of them.

Savers, restorers, keys and branches are symmetric sets; the properties checked
with symmetry are invariants and one action property, no liveness. One key is
enough for the invariants about stores since every action touches a single
key's object and record; the fallback is the one operation that crosses keys,
and its run has two. Two parts are enough to arrive out of order and to be a
proper subset.

The properties:

- `CommittedHasObject`: the commit is last; a record under a cache id means that
  an object was stored there (it may since have been reaped).
- `ObjectsWhole`: no truncated object, although S3 would make one.
- `UncontendedMatch`: for a key without a race, record and object agree,
  whatever failed, expired or was stored before. The dangerous case is an object
  from an UpdateEntry that died before its PutCache, or a PUT whose client died.
- `UncontendedWriteOnce`: for a key without a race a committed entry is only
  ever removed.
- `RestoreFaithful`: a restore that was given the entry it asked for extracts
  that entry's archive, in one piece, if the record is still there at the end
  and the key had no race. The last condition is needed: once the record has
  expired another save may overwrite the object under the URLs that were given.
- `CompletionAccepted`: no part is missing or out of order when S3 is asked to
  complete an upload.
- `UploadsAccountedFor`: a save that was turned away has opened no multipart upload,
  and one that succeeded has had the one completed that its URLs belong to. What
  stays open for ever is a failed save's, or one whose id was in a lost answer.
- `SuccessIsComplete`, `FailureIsNotSuccess`, `UploadsBounded`, `NoWedge`,
  `Returns`: the uploader.
- `DownloadsComplete`: the zero entry of a failed goroutine never reaches
  `combineParts`, because the append waits for Download to take the error and
  return it. `TargetTouchedLast`: no failure before the extraction costs the
  files that were there. One of the extraction itself, after `--clean`, does.
- `ImplementsTransfer`, `DownloadImplementsTransfer`, `ImplementsWriteOnceCache`:
  the refinements.
- `PlacedWhereSaved`, `WellFormedRestores`, `CleanRestoreExact`,
  `OnlyTargetsTouched`: for lists in their shortest form (`WellFormed`), and, where
  places are concerned, without a path whose text begins with that of a path of
  the other root (`Unambiguous`). Without these conditions they do not hold; see
  "Known limits" below.
- `WarmCallServed`: concurrent registration, fetches and the replacement of keys
  do not turn away a call whose key the server has. Without keys they may.
- `AdmittedHasTenant`: the lookup by prefix in a late index never lets a call
  through unless a command made a tenant of its provider whose owner begins with the
  one it names. This is less than the comment of `validateOwner` promises;
  `OwnerExists` is the promise, and finding 6 says that it does not hold.
- `AnswersTrue`, `TenantsKept`: the condition of PutTenant under retries and
  competing commands.
- `ExpiryOn`: of the servers that start at once one at most sets the table up, and
  a table stays without a time to live only if the server that made it stopped
  before it had set it, or was not told that it had made it.
- `EveryByteOnce`, `NumberedInOrder`, `NonLastPartsFull`, `PartLimitExactly`,
  `OnlyTailEmpty`: the offsets.

### Fairness

Only `Returns`, `RestoreEnds`, the refinements of `PartTransfer` and `EveryRunEnds`
need any. In the first three, weak fairness is given to the loop, to the closing
goroutine and to each worker (and, in `RestoreFiles`, to the command's own steps,
which run one after the other): the Go scheduler runs every goroutine that can run,
and every attempt ends, since the HTTP client fails a broken connection and the
retries are counted. Nothing is assumed about which attempts succeed. The cache
protocol is checked for safety only: a client may stop at any time, and the code has
no step that makes up for it.

`EveryRunEnds` has weak fairness for the steps of each run (the client's, and the
goroutine's that serves its call) and for the fetch of each registered URL, which
httprc repeats. Where an issuer never answers, the call that registered its URL
does wait, as long as the client lets it; the fairness of `Fetch` excludes that.
Nothing need ever be created, rotated, expired or restarted.

### Findings

1. A file one byte longer than a whole number of parts gets a last part of no
   bytes (`presigner.go:220`). The comment says that each offset can be
   downloaded separately; a range that ends before it starts can not.
   `OnlyTailEmpty` shows that this is the only such case.
2. `Upload` waits for ever when as many parts fail as there are slots while
   the loop is still starting parts (`uploader.go:90`). `NoWedgeBelowLimit`
   proves that fewer failures than slots never have this effect.
3. CreateEntry's second check does not prevent the race it mentions
   (`rpc_cache.go:120-126`): two saves can leave the record of one with the
   object of the other. `UncontendedMatch` shows that this race is the only way.
4. "cache entry found with matching sha256sum" is logged without a comparison
   (`save.go:125`).
5. The in-flight record is not moved but copied, and takes part in the fallback
   query before its upload is complete (`rpc_cache.go:257-258`).
6. `validateOwner` is said to validate the owner with the OIDC identity, and the owner
   to have to exist in the tenant index (`rpc_cache.go:343`). It compares nothing
   with the identity, which it only logs (line 352), and its query takes any tenant whose
   key begins with the one asked for (`dynamodb.go:196`): in the run a call that names
   `org` is let through when the only tenant is `org-team`. `AdmittedHasTenant` shows
   that some tenant with that beginning there must be. The identity's part of the
   sentence has no property: the model's tokens have no owner, because no code
   decides anything by it.

### Known limits of the code

The models also show these, which the properties' hypotheses or forms take into
account. They contradict no promise of the code's own comments that a run could
quote, or are of small consequence.

- Paths such as `./x`, `x/.`, `.` and `~/`, and absolute paths below the home
  directory, are archived under names that no mapping of the restore accepts
  (`mappings.go:31`, `extract.go:32`): the save succeeds, every restore fails, with
  `--clean` after the targets are gone. `pkg/archive/README.md` says that absolute
  paths are handled. `--clean` also fails for a path that ends in `/.`.
- A list with a relative path and one under `~/`, one of whose texts begins with the
  other's, sends the later one's files to the earlier one's root (`extract.go:31`).
- Of two calls that find a server without their issuer's URL, the one that
  registers second is refused (`jwx.go:40`); a retry would succeed, and the client
  has none.
- GitLab has a name, an issuer and a provider type, but no token source
  (`tokens.go:18`) and no claims (`jwx.go:143`): its calls are refused.
- The admin command signs its calls for API Gateway, and the rpc server asks for
  a bearer token in front of the provision service too (`rpc.go:115`): there the
  command is refused.
- A table whose creator stopped before `UpdateTimeToLive`, or never heard that its
  CreateTable had worked, never gets its time to live: the repeated call, and every
  other server, finds the table in use and goes on (`dynamodb.go:264`).
- A multipart upload stays open when its save fails, and when the answer that had its
  id was lost, even though the save succeeds: no code aborts uploads, and the
  bucket's lifecycle rule only expires objects (`api.cfn.yml:119`).
- The owner and provider that a call names need not be those of its token (finding 6).
- After a lost answer `create-tenant` reports that its own tenant already exists.
- UpdateEntry does not call `validateOwner`; its entry was created by a call that did.

## Proofs

All proofs are checked by TLAPS for every value of the constants, from the named
assumptions next to the constants' declarations: sizes, limits and counts are
naturals (positive where the code needs it), `PartCount` is a function to the
naturals, and the markers for absent records and objects are different from
what they stand in for (`DistinctAssumption`).

- `PartOffsetsProofs`. `IInv` says that `start` is one past the last range,
  `end` is `part * MinPartSize` inside the loop, and the ranges so far are in
  order and cover exactly the bytes before `start`. `EveryByteOnce` follows from
  coverage and order. `SizeInv` relates the number of ranges to the size of the
  archive, which gives `NonLastPartsFull` and `PartLimitExactly`. `OnlyTailEmpty`
  is inductive next to `IInv`: only the last range can end before it starts, and
  then `start` is the archive's size and one past a whole number of parts.
- `PartUploaderProofs`. The properties are about sets of goroutines and the code
  about counters. `IInv` says that the semaphore and the WaitGroup hold the
  cardinalities of the sets they count (`CountInv`), which workers the loop has
  started (`SpawnInv`), that a failed worker past its send means that Upload has
  returned an error (`FailInv`), and whose etags are collected (`EtagInv`).
  `NoWedgeBelowLimit` has `MaxFailures < Limit` as its hypothesis, which is
  exactly what the stuck run violates.
- `PartDownloaderProofs`. The same counting (`CountInv`, `SpawnInv`, `FailInv`), and
  `ListInv`: the entries of `downloads` are the results of the workers past their
  append, each once. `DoneInv` says that a closed `done` finds no worker left, so
  that a list which is returned holds them all. `NoWedgeBelowLimit` has the
  same hypothesis as the uploader's. `WedgeIsForever`, here and for the uploader,
  is the other half: once the loop and the holders of the slots wait for each other,
  every step leaves them there, so that finding 2 is a call that never returns.
  The same module has `RestoreFiles`. `RestoreRunsDownload` says that a behaviour of the
  command is one of the downloader, which carries its invariants over. `FilesInv`
  says that the zip file is a beginning of the sorted list, all of it from the moment
  restore goes on to the target paths, and only after a success; `ReturnedList`
  that a returned list does not move under it, no goroutine being left to append.
  A complete list, sorted, has part `i` in place `i` (`ClimbsByOne`: distinct numbers
  that ascend and leave none out), which gives `TargetTouchedLast`.
- `SortingProofs`. That a list can be sorted at all is an induction on its length,
  which the prover can not do over an operator; `LeastNumber` (from the
  well-foundedness of `<`) takes its place: a least length without an order would be
  one more than a length with one (`OneMore`).
- `CacheServiceProofs`. The inductive invariant ties each saver's state to the
  stores: the record under its upload id and the one its handler holds describe
  its own archive, and for a key without a race at most one saver is creating
  it, no record exists under the key while it does, and at `commit` the object
  is its own. From it follow `UncontendedMatch`, `CommittedHasObject` and
  `UncontendedWriteOnce`, for any number of savers, restorers, keys and
  archives, and that `CacheService` implements `WriteOnceCache`.
- `CacheRestoreProofs` builds on that invariant. For `RestoreFaithful` it adds that
  the saver named in a standing record has ended (`WriterEnded`), so that a record
  which was once removed or replaced never comes back as it was, and that what has
  been downloaded is the record's archive for as long as the record stands
  (`DownloadsMatch`); the object can not change meanwhile because nobody is
  creating a key that has a record. `OpenWhileSaving` says at which places of a save
  its upload, or a stray one, can be open, and gives `UploadsAccountedFor`.
  `EtagsHeld` and `ReadyToComplete` (every part has one etag, and S3 holds it, when
  UpdateEntry is called) give `CompletionAccepted` and, with `SortByFacts`, that a
  completed object has every part (`ObjectsWhole`). Two theorems narrow findings 3 and
  5 down: a record that disagrees with its object is the work of two runs that were
  asked for the same key (`OnlyRivalsMismatch`), and a fallback candidate without an
  object is always an in-flight record (`OnlyInflightMisleads`).
- `PathMappingProofs`. An entry's name is what follows the chroot of one of the
  paths (`ArchiveInv`), it begins with that path's relative path, and under
  `Unambiguous` the first mapping that matches has the same root, so that the
  target is the file's image on the restoring machine. The images are apart by
  hypothesis, so that what has been extracted stays until the end. `NamesInv` is the
  part for lists in any form: an entry's name leads from one of the saver's roots to
  its file. `DottedAndAbsoluteAreLost` is one of the known limits as a theorem: no
  mapping of a list of `./` and absolute paths takes any entry, so that the restore
  of anything saved with it is refused.
- `RequestPathProofs`. A part of the invariant for each module, preserved by the
  module's own steps: `TableInv` (`ExpiryOn` with the types: a server takes the table
  for its own only when there is none, and then no other server has), `TenancyInv` (every tenant is some command's), and
  `AuthInv` (`KeyBound`: a token's key is no later than its issuer's newest, so
  that a withdrawn key never comes back). `RunInv` joins them: a run past its first
  call has its tenant, and a warm call finds its URL registered and its key in
  the set until it is verified, unless the issuer has withdrawn it. `QuietRun`
  says that steps which leave a run where it is preserve it, and covers the
  other runs in every step.

Every invariant and action property that a passing run checks is proved. `Returns`,
`RestoreEnds` and `EveryRunEnds` stay with TLC: liveness under fairness is out of the
prover's reach. The refinements of `PartTransfer` are proved for the initial states
and the steps; their fairness is model-checked.

## Plan

Done: all modules of the table above, and theorems for all safety properties.

Left: failures of `filepath.Walk` in `PathMapping` (`create.go:76` drops them), which
need an archive that lacks some of a path's files.

## Not modelled

Tracing, flags, listeners and generated code: they keep no protocol state. The zip
format, checksums, signatures and the content of archives beyond their identity.
`Store.DeleteCache` and `Store.GetCache`, which nothing calls, and GetTenant, which
only reads and which no command calls. Presigned URLs' expiry, which ends an upload
or download with an error that is one of the failures above. In `PathMapping`:
`..`, symbolic links, permissions and directories without files. In `RequestPath`:
the audience, not-before times and the clock behind a token's expiry, and a
client's own timeouts.
