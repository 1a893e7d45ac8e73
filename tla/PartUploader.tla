---------------------------- MODULE PartUploader ----------------------------
(***************************************************************************)
(* pkg/uploader: one goroutine per part behind a semaphore of Limit slots, *)
(* an unbuffered channel for errors, a WaitGroup, and a goroutine that     *)
(* closes `done' when the WaitGroup is empty.  Upload starts the workers   *)
(* in a loop and only then waits for `done' or the first error.            *)
(*                                                                         *)
(* The object store behind the presigned URLs may answer or fail at will;  *)
(* an attempt whose answer is lost may still have stored the part.         *)
(***************************************************************************)
EXTENDS Integers, Sequences, FiniteSets

CONSTANTS
    N,           \* number of upload instructions
    Limit,       \* concurrent uploads (20 in save.go)
    MaxTries,    \* attempts of uploadChunk (3)
    MaxFailures  \* bound: parts the environment makes fail for good

ASSUME NAssumption == N \in Nat
ASSUME LimitAssumption == Limit \in Nat \ {0}
ASSUME MaxTriesAssumption == MaxTries \in Nat \ {0}
ASSUME MaxFailuresAssumption == MaxFailures \in Nat

Parts == 1 .. N

VARIABLES
    main,    \* Upload: "loop", "select", and what it returned: "ok" or "err"
    next,    \* the loop's next instruction
    sem,     \* tokens in the semaphore channel
    wg,      \* the WaitGroup's counter
    done,    \* the done channel is closed
    worker,  \* each part's goroutine
    tries,   \* attempts made for each part
    etags,   \* parts in the order their etags were collected
    stored,  \* parts the object store holds
    failed   \* parts whose upload ended in an error

vars == <<main, next, sem, wg, done, worker, tries, etags, stored, failed>>

WorkerState ==
    {"none", "uploading", "collect", "sending", "release", "wgdone", "exited"}

\* Goroutines that hold a slot of the semaphore.
Holding == {p \in Parts : worker[p] \in {"uploading", "collect", "sending", "release"}}
Uploading == {p \in Parts : worker[p] = "uploading"}
Running == {p \in Parts : worker[p] # "exited"}

Collected(p) == \E i \in DOMAIN etags : etags[i] = p

-----------------------------------------------------------------------------

Init ==
    /\ main = "loop"
    /\ next = 1
    /\ sem = 0
    /\ wg = N
    /\ done = FALSE
    /\ worker = [p \in Parts |-> "none"]
    /\ tries = [p \in Parts |-> 0]
    /\ etags = <<>>
    /\ stored = {}
    /\ failed = {}

\* make(chan struct{}, limit) one slot too large.
SlotFree_OneMore == sem <= Limit
\* sem <- struct{}{} does not block.
SlotFree == sem < Limit

Spawn ==
    /\ main = "loop"
    /\ next \in Parts
    /\ SlotFree
    /\ sem' = sem + 1
    /\ next' = next + 1
    /\ worker' = [worker EXCEPT ![next] = "uploading"]
    /\ UNCHANGED <<main, wg, done, tries, etags, stored, failed>>

\* The loop ends, the closing goroutine starts, and Upload enters its select.
LoopEnd ==
    /\ main = "loop"
    /\ next > N
    /\ main' = "select"
    /\ UNCHANGED <<next, sem, wg, done, worker, tries, etags, stored, failed>>

\* 200: the part is stored and its etag is in the answer.
UploadOK(p) ==
    /\ worker[p] = "uploading"
    /\ tries[p] < MaxTries
    /\ tries' = [tries EXCEPT ![p] = @ + 1]
    /\ stored' = stored \cup {p}
    /\ worker' = [worker EXCEPT ![p] = "collect"]
    /\ UNCHANGED <<main, next, sem, wg, done, etags, failed>>

\* A lost connection or a status that is retried, with attempts left.
UploadRetry(p) ==
    /\ worker[p] = "uploading"
    /\ tries[p] + 1 < MaxTries
    /\ tries' = [tries EXCEPT ![p] = @ + 1]
    /\ stored' \in {stored, stored \cup {p}}
    /\ UNCHANGED <<main, next, sem, wg, done, worker, etags, failed>>

\* A read error, a permanent status (400, 403, 411) or the last attempt's error.
UploadFails(p) ==
    /\ worker[p] = "uploading"
    /\ Cardinality(failed) < MaxFailures
    /\ failed' = failed \cup {p}
    /\ stored' \in {stored, stored \cup {p}}
    /\ worker' = [worker EXCEPT ![p] = "sending"]
    /\ UNCHANGED <<main, next, sem, wg, done, tries, etags>>

AppendEtag(p) ==
    /\ worker[p] = "collect"
    /\ etags' = Append(etags, p)
    /\ worker' = [worker EXCEPT ![p] = "release"]
    /\ UNCHANGED <<main, next, sem, wg, done, tries, stored, failed>>

\* As if the channel were buffered: the error waits for nobody.
SendError_Buffered(p) ==
    /\ worker[p] = "sending"
    /\ worker' = [worker EXCEPT ![p] = "release"]
    /\ UNCHANGED <<main, next, sem, wg, done, tries, etags, stored, failed>>

\* Without the return after the send.
SendError_FallsThrough(p) ==
    /\ worker[p] = "sending"
    /\ main = "select"
    /\ main' = "err"
    /\ worker' = [worker EXCEPT ![p] = "collect"]
    /\ UNCHANGED <<next, sem, wg, done, tries, etags, stored, failed>>

\* u.errors <- err meets the select's receive, and Upload returns the error.
SendError(p) ==
    /\ worker[p] = "sending"
    /\ main = "select"
    /\ main' = "err"
    /\ worker' = [worker EXCEPT ![p] = "release"]
    /\ UNCHANGED <<next, sem, wg, done, tries, etags, stored, failed>>

\* The deferred function without its first line.
ReleaseSlot_Leaks(p) ==
    /\ worker[p] = "release"
    /\ worker' = [worker EXCEPT ![p] = "wgdone"]
    /\ UNCHANGED <<main, next, sem, wg, done, tries, etags, stored, failed>>

ReleaseSlot(p) ==
    /\ worker[p] = "release"
    /\ sem' = sem - 1
    /\ worker' = [worker EXCEPT ![p] = "wgdone"]
    /\ UNCHANGED <<main, next, wg, done, tries, etags, stored, failed>>

\* The deferred function without its second line.
WgDone_Missing(p) ==
    /\ worker[p] = "wgdone"
    /\ worker' = [worker EXCEPT ![p] = "exited"]
    /\ UNCHANGED <<main, next, sem, wg, done, tries, etags, stored, failed>>

WgDone(p) ==
    /\ worker[p] = "wgdone"
    /\ wg' = wg - 1
    /\ worker' = [worker EXCEPT ![p] = "exited"]
    /\ UNCHANGED <<main, next, sem, done, tries, etags, stored, failed>>

\* wg.Wait() returns and the goroutine closes the done channel.
CloseDone ==
    /\ main # "loop"
    /\ wg = 0
    /\ ~done
    /\ done' = TRUE
    /\ UNCHANGED <<main, next, sem, wg, worker, tries, etags, stored, failed>>

ReturnOk ==
    /\ main = "select"
    /\ done
    /\ main' = "ok"
    /\ UNCHANGED <<next, sem, wg, done, worker, tries, etags, stored, failed>>

\* After it has returned the program may end, whatever the goroutines do.
Returned ==
    /\ main \in {"ok", "err"}
    /\ UNCHANGED vars

Worker(p) ==
    \/ UploadOK(p)
    \/ UploadRetry(p)
    \/ UploadFails(p)
    \/ AppendEtag(p)
    \/ SendError(p)
    \/ ReleaseSlot(p)
    \/ WgDone(p)

Main == Spawn \/ LoopEnd \/ ReturnOk

Next == Main \/ CloseDone \/ Returned \/ \E p \in Parts : Worker(p)

Spec == Init /\ [][Next]_vars

\* Every goroutine that can run does, and every attempt ends: the HTTP client
\* fails a broken connection.
Fairness ==
    /\ WF_vars(Main)
    /\ WF_vars(CloseDone)
    /\ \A p \in Parts : WF_vars(Worker(p))

FairSpec == Spec /\ Fairness

-----------------------------------------------------------------------------
(* Properties *)

\* Types; the semaphore never holds more tokens than its capacity and the
\* WaitGroup's counter never goes negative, which would panic.
TypeOK ==
    /\ main \in {"loop", "select", "ok", "err"}
    /\ next \in 1 .. N + 1
    /\ sem \in 0 .. Limit
    /\ wg \in 0 .. N
    /\ done \in BOOLEAN
    /\ worker \in [Parts -> WorkerState]
    /\ tries \in [Parts -> 0 .. MaxTries]
    /\ etags \in Seq(Parts)
    /\ stored \subseteq Parts
    /\ failed \subseteq Parts

\* "a limit of 20 concurrent uploads": the slots bound the attempts in flight.
UploadsBounded == Cardinality(Uploading) <= Limit

\* When Upload returns without an error, the store holds every part and the etags
\* name each part exactly once, in whatever order the answers came: what
\* CompleteMultipartUpload needs.
SuccessIsComplete ==
    main = "ok" =>
        /\ stored = Parts
        /\ \A p \in Parts :
              \E i \in DOMAIN etags :
                  /\ etags[i] = p
                  /\ \A j \in DOMAIN etags : etags[j] = p => j = i

\* A part whose upload failed never has an etag among the results, and while no
\* error has been reported its goroutine stays alive, so Upload can not succeed.
FailureIsNotSuccess ==
    \A p \in failed :
        /\ ~Collected(p)
        /\ main # "ok"

\* While the loop waits for a slot, some goroutine that holds one is not itself
\* waiting for Upload to take its error: the loop is never stuck for good.
NoWedge ==
    (main = "loop" /\ next \in Parts /\ ~SlotFree) =>
        \E p \in Holding : worker[p] # "sending"

\* "The uploader will return when all uploads are complete or when an error
\* occurs."
Returns == <>(main \in {"ok", "err"})

\* What Upload promises with its goroutines left out: a part has moved once its
\* etag is among the results, and is broken once its upload has failed.
Moved == {p \in Parts : Collected(p)}
Abstract == INSTANCE PartTransfer
    WITH moved <- Moved, broken <- failed,
         result <- IF main \in {"ok", "err"} THEN main ELSE "running"

\* The semaphore, the channels and the WaitGroup implement the abstract transfer:
\* success only with every part, failure only with a broken one, no part that
\* both moved and broke, nothing left to move after a success; and each part and
\* the call itself do come to an end.
ImplementsTransfer == Abstract!Spec

=============================================================================
