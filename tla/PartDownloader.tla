--------------------------- MODULE PartDownloader ---------------------------
(***************************************************************************)
(* pkg/downloader: the uploader's arrangement of goroutines, with two      *)
(* differences.  A goroutine whose part failed does not return after it    *)
(* has sent its error, and goes on to append an empty DownloadedFile.  And *)
(* only the statuses 400, 404 and 500 are errors: the body of any other    *)
(* answer is stored as the part.                                           *)
(***************************************************************************)
EXTENDS Integers, Sequences, FiniteSets

CONSTANTS
    N,           \* number of download instructions
    Limit,       \* concurrent downloads (20 in restore.go)
    MaxTries,    \* attempts of download (3)
    MaxFailures  \* bound: parts the environment makes fail for good

ASSUME NAssumption == N \in Nat \ {0}
ASSUME LimitAssumption == Limit \in Nat \ {0}
ASSUME MaxTriesAssumption == MaxTries \in Nat \ {0}
ASSUME MaxFailuresAssumption == MaxFailures \in Nat

Parts == 1 .. N

\* What a file holds: the part's bytes; the whole object, which S3 sends when a range
\* ends before it starts (calculateOffsets' empty tail); the document that explains
\* a status which is not checked, as 403 or 503; or nothing, in the zero value.
Bodies == {"bytes", "object", "document", "none"}
DownloadedFile == [part : 0 .. N, body : Bodies]
ZeroFile == [part |-> 0, body |-> "none"]

VARIABLES
    main,       \* Download: "loop", "select", and what it returned: "ok" or "err"
    next,       \* the loop's next instruction
    sem,        \* tokens in the semaphore channel
    wg,         \* the WaitGroup's counter
    done,       \* the done channel is closed
    worker,     \* each part's goroutine
    tries,      \* attempts made for each part
    download,   \* each goroutine's result
    downloads   \* the results in the order they were appended

channels == <<next, sem, wg, done>>
vars == <<main, channels, worker, tries, download, downloads>>

WorkerState ==
    {"none", "downloading", "collect", "sending", "release", "wgdone", "exited"}

Holding == {p \in Parts : worker[p] \in {"downloading", "collect", "sending", "release"}}

\* Parts whose download ended in an error.
Failed == {p \in Parts : worker[p] \notin {"none", "downloading"} /\ download[p] = ZeroFile}

-----------------------------------------------------------------------------

Init ==
    /\ main = "loop"
    /\ next = 1
    /\ sem = 0
    /\ wg = N
    /\ done = FALSE
    /\ worker = [p \in Parts |-> "none"]
    /\ tries = [p \in Parts |-> 0]
    /\ download = [p \in Parts |-> ZeroFile]
    /\ downloads = <<>>

\* make(chan struct{}, limit) one slot too large.
SlotFree_OneMore == sem <= Limit
SlotFree == sem < Limit

Spawn ==
    /\ main = "loop"
    /\ next \in Parts
    /\ SlotFree
    /\ sem' = sem + 1
    /\ next' = next + 1
    /\ worker' = [worker EXCEPT ![next] = "downloading"]
    /\ UNCHANGED <<main, wg, done, tries, download, downloads>>

LoopEnd ==
    /\ main = "loop"
    /\ next > N
    /\ main' = "select"
    /\ UNCHANGED <<channels, worker, tries, download, downloads>>

\* An answer whose status is not an error and whose body arrives in full.
DownloadOK(p) ==
    /\ worker[p] = "downloading"
    /\ \E body \in Bodies \ {"none"} :
          download' = [download EXCEPT ![p] = [part |-> p, body |-> body]]
    /\ worker' = [worker EXCEPT ![p] = "collect"]
    /\ UNCHANGED <<main, channels, tries, downloads>>

\* A lost connection, an error status or a short body, with attempts left.
DownloadRetry(p) ==
    /\ worker[p] = "downloading"
    /\ tries[p] + 1 < MaxTries
    /\ tries' = [tries EXCEPT ![p] = @ + 1]
    /\ UNCHANGED <<main, channels, worker, download, downloads>>

\* The last attempt's error, or the retries' time is up.
DownloadFails(p) ==
    /\ worker[p] = "downloading"
    /\ Cardinality(Failed) < MaxFailures
    /\ worker' = [worker EXCEPT ![p] = "sending"]
    /\ UNCHANGED <<main, channels, tries, download, downloads>>

\* As if the channel were buffered: the error waits for nobody.
SendError_Buffered(p) ==
    /\ worker[p] = "sending"
    /\ worker' = [worker EXCEPT ![p] = "collect"]
    /\ UNCHANGED <<main, channels, tries, download, downloads>>

\* d.errors <- err meets the select's receive; without a return the goroutine
\* falls through to the append.
SendError(p) ==
    /\ worker[p] = "sending"
    /\ main = "select"
    /\ main' = "err"
    /\ worker' = [worker EXCEPT ![p] = "collect"]
    /\ UNCHANGED <<channels, tries, download, downloads>>

AppendDownload(p) ==
    /\ worker[p] = "collect"
    /\ downloads' = Append(downloads, download[p])
    /\ worker' = [worker EXCEPT ![p] = "release"]
    /\ UNCHANGED <<main, channels, tries, download>>

\* The deferred function without its first line.
ReleaseSlot_Leaks(p) ==
    /\ worker[p] = "release"
    /\ worker' = [worker EXCEPT ![p] = "wgdone"]
    /\ UNCHANGED <<main, channels, tries, download, downloads>>

ReleaseSlot(p) ==
    /\ worker[p] = "release"
    /\ sem' = sem - 1
    /\ worker' = [worker EXCEPT ![p] = "wgdone"]
    /\ UNCHANGED <<main, next, wg, done, tries, download, downloads>>

\* The deferred function without its second line.
WgDone_Missing(p) ==
    /\ worker[p] = "wgdone"
    /\ worker' = [worker EXCEPT ![p] = "exited"]
    /\ UNCHANGED <<main, channels, tries, download, downloads>>

WgDone(p) ==
    /\ worker[p] = "wgdone"
    /\ wg' = wg - 1
    /\ worker' = [worker EXCEPT ![p] = "exited"]
    /\ UNCHANGED <<main, next, sem, done, tries, download, downloads>>

CloseDone ==
    /\ main # "loop"
    /\ wg = 0
    /\ ~done
    /\ done' = TRUE
    /\ UNCHANGED <<main, next, sem, wg, worker, tries, download, downloads>>

ReturnOk ==
    /\ main = "select"
    /\ done
    /\ main' = "ok"
    /\ UNCHANGED <<channels, worker, tries, download, downloads>>

Worker(p) ==
    \/ DownloadOK(p)
    \/ DownloadRetry(p)
    \/ DownloadFails(p)
    \/ SendError(p)
    \/ AppendDownload(p)
    \/ ReleaseSlot(p)
    \/ WgDone(p)

Main == Spawn \/ LoopEnd \/ ReturnOk

Next == Main \/ CloseDone \/ \E p \in Parts : Worker(p)

Spec == Init /\ [][Next]_vars

\* As for the uploader: goroutines that can run do, and every attempt ends.
Fairness ==
    /\ WF_vars(Main)
    /\ WF_vars(CloseDone)
    /\ \A p \in Parts : WF_vars(Worker(p))

-----------------------------------------------------------------------------
(* Properties *)

\* Types; the semaphore and the WaitGroup stay in range.
TypeOK ==
    /\ main \in {"loop", "select", "ok", "err"}
    /\ next \in 1 .. N + 1
    /\ sem \in 0 .. Limit
    /\ wg \in 0 .. N
    /\ done \in BOOLEAN
    /\ worker \in [Parts -> WorkerState]
    /\ tries \in [Parts -> 0 .. MaxTries]
    /\ download \in [Parts -> DownloadedFile]
    /\ downloads \in Seq(DownloadedFile)

\* A list that Download returns has a file for every part, each once, and never
\* the empty one that a failed goroutine appends: by the time it is appended,
\* Download has returned the error instead.
DownloadsComplete ==
    main = "ok" =>
        /\ \A i \in DOMAIN downloads : downloads[i].part \in Parts
        /\ \A p \in Parts :
              \E i \in DOMAIN downloads :
                  /\ downloads[i].part = p
                  /\ \A j \in DOMAIN downloads : downloads[j].part = p => j = i

\* While the loop waits for a slot, some goroutine that holds one is not itself
\* waiting for Download to take its error.
NoWedge ==
    (main = "loop" /\ next \in Parts /\ ~SlotFree) =>
        \E p \in Holding : worker[p] # "sending"

\* What Download promises with its goroutines left out: a part has moved once its
\* file is in the list.
Moved == {p \in Parts : \E i \in DOMAIN downloads : downloads[i].part = p}
Abstract == INSTANCE PartTransfer
    WITH moved <- Moved, broken <- Failed,
         result <- IF main \in {"ok", "err"} THEN main ELSE "running"

\* The downloader implements the abstract transfer too, the goroutines that fall
\* through after a failure included: the empty file they append never counts as
\* a part, and never lets the call succeed.
DownloadImplementsTransfer == Abstract!Spec

=============================================================================
