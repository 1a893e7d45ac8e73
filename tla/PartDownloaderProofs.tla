------------------------ MODULE PartDownloaderProofs ------------------------
(***************************************************************************)
(* The downloader's safety for any number of parts, slots and attempts,    *)
(* and that of the restore command's work on the files it returns.         *)
(***************************************************************************)
EXTENDS RestoreFiles, SortingProofs, FiniteSetTheorems, TLAPS

HoldingState == {"downloading", "collect", "sending", "release"}
Appended == {"release", "wgdone", "exited"}

\* A goroutine's result is of its part, or the zero file; the latter until it has one.
TypeInv ==
    /\ TypeOK
    /\ \A p \in Parts :
          /\ download[p].part = p \/ download[p] = ZeroFile
          /\ worker[p] \in {"none", "downloading"} => download[p] = ZeroFile

Running == {p \in Parts : worker[p] # "exited"}

\* The channel and the WaitGroup count what they stand for.
CountInv ==
    /\ sem = Cardinality(Holding)
    /\ wg = Cardinality(Running)

\* The loop has started exactly the workers before `next'.
SpawnInv ==
    /\ \A p \in Parts : worker[p] = "none" <=> p >= next
    /\ main # "loop" => next = N + 1

\* A failed worker that is past its send has made Download return an error.
FailInv ==
    \A p \in Parts :
        /\ worker[p] = "sending" => p \in Failed
        /\ p \in Failed /\ worker[p] # "sending" => main = "err"

\* While Download has not failed, the list has one file for each worker past its
\* append.
ListInv ==
    main # "err" =>
        /\ \A i \in DOMAIN downloads :
              /\ downloads[i].part \in Parts
              /\ worker[downloads[i].part] \in Appended
        /\ \A p \in Parts :
              worker[p] \in Appended => \E i \in DOMAIN downloads : downloads[i].part = p
        /\ \A i, j \in DOMAIN downloads : downloads[i].part = downloads[j].part => i = j

DoneInv ==
    /\ done => \A p \in Parts : worker[p] = "exited"
    /\ main = "ok" => done

BoundInv == IsFiniteSet(Failed) /\ Cardinality(Failed) <= MaxFailures

IInv == TypeInv /\ CountInv /\ SpawnInv /\ FailInv /\ ListInv /\ DoneInv /\ BoundInv

-----------------------------------------------------------------------------

LEMMA PartsFinite == IsFiniteSet(Parts) /\ Cardinality(Parts) = N
  BY NAssumption, FS_Interval DEF Parts

\* What one worker's step does to the two sets that are counted.
LEMMA WorkerMoves ==
    ASSUME TypeOK, CountInv, NEW p \in Parts, NEW w \in WorkerState,
           worker' = [worker EXCEPT ![p] = w]
    PROVE  /\ worker' \in [Parts -> WorkerState]
           /\ worker'[p] = w /\ \A q \in Parts \ {p} : worker'[q] = worker[q]
           /\ Cardinality(Holding') =
                 IF worker[p] \in HoldingState
                   THEN IF w \in HoldingState THEN sem ELSE sem - 1
                   ELSE IF w \in HoldingState THEN sem + 1 ELSE sem
           /\ Cardinality(Running') =
                 IF worker[p] # "exited"
                   THEN IF w # "exited" THEN wg ELSE wg - 1
                   ELSE IF w # "exited" THEN wg + 1 ELSE wg
           /\ worker[p] \in HoldingState => sem >= 1
           /\ worker[p] # "exited" => wg >= 1
           /\ Cardinality(Running') <= N
<1>1. /\ worker \in [Parts -> WorkerState]
      /\ worker' \in [Parts -> WorkerState]
      /\ worker'[p] = w /\ \A q \in Parts \ {p} : worker'[q] = worker[q]
  BY DEF TypeOK
<1>2. /\ IsFiniteSet(Holding) /\ IsFiniteSet(Running)
      /\ IsFiniteSet(Running') /\ Cardinality(Running') <= N
  <2>1. Holding \subseteq Parts /\ Running \subseteq Parts /\ Running' \subseteq Parts
    BY DEF Holding, Running
  <2>2. QED
    BY <2>1, PartsFinite, FS_Subset
<1>3. Holding' = IF w \in HoldingState THEN Holding \cup {p} ELSE Holding \ {p}
  BY <1>1 DEF Holding, HoldingState
<1>4. Running' = IF w # "exited" THEN Running \cup {p} ELSE Running \ {p}
  BY <1>1 DEF Running
<1>5. /\ p \in Holding <=> worker[p] \in HoldingState
      /\ p \in Running <=> worker[p] # "exited"
  BY DEF Holding, Running, HoldingState
<1>6. /\ Cardinality(Holding) = sem /\ Cardinality(Running) = wg
      /\ sem \in Nat /\ wg \in Nat
  BY LimitAssumption, NAssumption DEF CountInv, TypeOK
<1>7. /\ p \in Holding => sem >= 1
      /\ p \in Running => wg >= 1
  <2>1. /\ p \in Holding => Cardinality(Holding) # 0
        /\ p \in Running => Cardinality(Running) # 0
    BY <1>2, FS_EmptySet
  <2>2. QED
    BY <2>1, <1>6
<1>8. /\ Cardinality(Holding \cup {p}) = IF p \in Holding THEN sem ELSE sem + 1
      /\ Cardinality(Holding \ {p}) = IF p \in Holding THEN sem - 1 ELSE sem
      /\ Cardinality(Running \cup {p}) = IF p \in Running THEN wg ELSE wg + 1
      /\ Cardinality(Running \ {p}) = IF p \in Running THEN wg - 1 ELSE wg
  BY <1>2, <1>6, FS_AddElement, FS_RemoveElement
<1>9. QED
  BY <1>1, <1>2, <1>3, <1>4, <1>5, <1>7, <1>8

LEMMA InitIInv == Init => IInv
<1> SUFFICES ASSUME Init
             PROVE  IInv
  OBVIOUS
<1> USE NAssumption, LimitAssumption, MaxTriesAssumption, MaxFailuresAssumption
<1>1. /\ worker \in [Parts -> {"none"}] /\ worker \in [Parts -> WorkerState]
      /\ tries \in [Parts -> 0 .. MaxTries]
      /\ download \in [Parts -> {ZeroFile}] /\ Parts = 1 .. N
  BY DEF Init, WorkerState, Parts
<1>2. TypeInv
  <2>1. ZeroFile \in DownloadedFile
    BY DEF ZeroFile, DownloadedFile, Bodies
  <2>2. next \in 1 .. N + 1 /\ sem \in 0 .. Limit /\ wg \in 0 .. N
    BY DEF Init
  <2>3. downloads \in Seq(DownloadedFile)
    BY DEF Init
  <2>4. download \in [Parts -> DownloadedFile] /\ \A p \in Parts : download[p] = ZeroFile
    BY <1>1, <2>1
  <2>5. QED
    BY <1>1, <2>2, <2>3, <2>4 DEF Init, TypeInv, TypeOK
<1>3. Failed = {}
  BY <1>1 DEF Failed
<1>4. CountInv
  <2>1. Holding = {} /\ Running = Parts
    BY <1>1 DEF Holding, Running
  <2>2. QED
    BY <2>1, PartsFinite, FS_EmptySet DEF Init, CountInv
<1>5. SpawnInv /\ FailInv
  BY <1>1, <1>3 DEF Init, SpawnInv, FailInv
<1>6. ListInv /\ DoneInv
  BY <1>1 DEF Init, ListInv, DoneInv, Appended
<1>7. BoundInv
  BY <1>3, FS_EmptySet DEF BoundInv
<1>8. QED
  BY <1>2, <1>4, <1>5, <1>6, <1>7 DEF IInv

\* The end of a download: with its file, or with nothing.
LEMMA DownloadEnds ==
    ASSUME IInv, NEW p \in Parts, DownloadOK(p) \/ DownloadFails(p)
    PROVE  IInv'
<1>0. TypeOK /\ CountInv /\ worker[p] = "downloading" /\ download[p] \in DownloadedFile
  BY DEF IInv, TypeInv, TypeOK, DownloadOK, DownloadFails
<1> DEFINE w == worker'[p]
<1>1. /\ w \in {"collect", "sending"} /\ worker' = [worker EXCEPT ![p] = w]
      /\ UNCHANGED <<main, channels, tries, downloads>>
      /\ w = "sending" => UNCHANGED download /\ Cardinality(Failed) < MaxFailures
      /\ download' \in [Parts -> DownloadedFile]
      /\ \A q \in Parts \ {p} : download'[q] = download[q]
      /\ w = "collect" => download'[p].part = p
  <2>1. CASE DownloadOK(p)
    <3>1. PICK body \in Bodies \ {"none"} :
             download' = [download EXCEPT ![p] = [part |-> p, body |-> body]]
      BY <2>1 DEF DownloadOK
    <3>2. [part |-> p, body |-> body] \in DownloadedFile
      BY NAssumption DEF DownloadedFile, Bodies, Parts
    <3>3. worker' = [worker EXCEPT ![p] = "collect"] /\ w = "collect"
      BY <1>0, <2>1 DEF DownloadOK, TypeOK
    <3>4. /\ download' \in [Parts -> DownloadedFile] /\ download'[p].part = p
          /\ \A q \in Parts \ {p} : download'[q] = download[q]
      BY <1>0, <3>1, <3>2 DEF TypeOK
    <3>5. QED
      BY <2>1, <3>3, <3>4 DEF DownloadOK
  <2>2. CASE DownloadFails(p)
    BY <1>0, <2>2 DEF DownloadFails, TypeOK
  <2>3. QED
    BY <2>1, <2>2
<1> HIDE DEF w
<1>2. UNCHANGED <<next, sem, wg, done>>
  BY <1>1 DEF channels
<1>3. /\ worker' \in [Parts -> WorkerState]
      /\ w = worker'[p] /\ \A q \in Parts \ {p} : worker'[q] = worker[q]
      /\ CountInv'
  BY <1>0, <1>1, <1>2, WorkerMoves DEF WorkerState, HoldingState, CountInv, w
<1>4. TypeInv'
  BY <1>0, <1>1, <1>2, <1>3 DEF IInv, TypeInv, TypeOK
<1>5. /\ w = "collect" => Failed' = Failed /\ p \notin Failed'
      /\ w = "sending" => Failed' \subseteq Failed \cup {p}
      /\ \A q \in Parts \ {p} : q \in Failed' <=> q \in Failed
  <2>1. p \notin Failed /\ \A q \in Parts \ {p} : q \in Failed' <=> q \in Failed
    BY <1>0, <1>1, <1>3 DEF Failed
  <2>2. w = "collect" => p \notin Failed'
    BY <1>1, <1>3 DEF Failed, ZeroFile, Parts
  <2>3. Failed \subseteq Parts /\ Failed' \subseteq Parts
    BY DEF Failed
  <2>4. QED
    BY <2>1, <2>2, <2>3
<1>6. (SpawnInv /\ DoneInv)'
  BY <1>0, <1>1, <1>2, <1>3 DEF IInv, SpawnInv, DoneInv
<1>7. FailInv'
  <2>1. w = "sending" => p \in Failed'
    <3>1. download[p] = ZeroFile
      BY <1>0 DEF IInv, TypeInv
    <3>2. QED
      BY <1>1, <1>3, <3>1 DEF Failed
  <2>2. QED
    BY <1>1, <1>3, <1>5, <2>1 DEF IInv, FailInv
<1>8. ListInv'
  BY <1>0, <1>1, <1>3 DEF IInv, ListInv, Appended
<1>9. BoundInv'
  <2>1. IsFiniteSet(Failed) /\ Cardinality(Failed) \in Nat /\ Cardinality(Failed) <= MaxFailures
    BY FS_CardinalityType DEF IInv, BoundInv
  <2>2. CASE w = "collect"
    BY <1>5, <2>1, <2>2 DEF BoundInv
  <2>3. CASE w = "sending"
    <3>0. /\ IsFiniteSet(Failed \cup {p})
          /\ Cardinality(Failed \cup {p}) =
                IF p \in Failed THEN Cardinality(Failed) ELSE Cardinality(Failed) + 1
      BY <2>1, FS_AddElement, Zenon
    <3>1. /\ IsFiniteSet(Failed \cup {p})
          /\ Cardinality(Failed \cup {p}) <= Cardinality(Failed) + 1
      BY <2>1, <3>0
    <3>2. IsFiniteSet(Failed') /\ Cardinality(Failed') <= Cardinality(Failed \cup {p})
      BY <1>5, <2>3, <3>1, FS_Subset
    <3>3. Cardinality(Failed') \in Nat /\ Cardinality(Failed \cup {p}) \in Nat
      BY <3>1, <3>2, FS_CardinalityType
    <3>4. QED
      BY <1>1, <2>1, <2>3, <3>1, <3>2, <3>3, MaxFailuresAssumption DEF BoundInv
  <2>4. QED
    BY <1>1, <2>2, <2>3
<1>10. QED
  BY <1>3, <1>4, <1>6, <1>7, <1>8, <1>9 DEF IInv

LEMMA WorkerIInv ==
    ASSUME IInv, NEW p \in Parts, Worker(p)
    PROVE  IInv'
<1> USE NAssumption, LimitAssumption, MaxTriesAssumption
<1>0. TypeOK /\ CountInv /\ worker \in [Parts -> WorkerState]
  BY DEF IInv, TypeInv, TypeOK
<1>1. CASE DownloadRetry(p)
  <2>1. /\ UNCHANGED <<main, next, sem, wg, done, worker, download, downloads>>
        /\ tries' \in [Parts -> 0 .. MaxTries]
    BY <1>0, <1>1 DEF DownloadRetry, TypeOK, channels
  <2>2. TypeInv' /\ CountInv'
    BY <1>0, <2>1 DEF IInv, TypeInv, TypeOK, CountInv, Holding, Running
  <2>3. (SpawnInv /\ FailInv /\ ListInv /\ DoneInv /\ BoundInv)'
    BY <2>1 DEF IInv, SpawnInv, FailInv, ListInv, DoneInv, BoundInv, Failed
  <2>4. QED
    BY <2>2, <2>3 DEF IInv
<1>2. CASE SendError(p)
  <2>1. /\ worker[p] = "sending" /\ worker' = [worker EXCEPT ![p] = "collect"]
        /\ main = "select" /\ main' = "err"
        /\ UNCHANGED <<next, sem, wg, done, tries, download, downloads>>
    BY <1>2 DEF SendError, channels
  <2>2. /\ worker' \in [Parts -> WorkerState]
        /\ worker'[p] = "collect" /\ \A q \in Parts \ {p} : worker'[q] = worker[q]
        /\ CountInv'
    BY <1>0, <2>1, WorkerMoves DEF WorkerState, HoldingState, CountInv
  <2>3. TypeInv' /\ Failed' = Failed
    BY <1>0, <2>1, <2>2 DEF IInv, TypeInv, TypeOK, Failed
  <2>4. (SpawnInv /\ FailInv /\ ListInv /\ DoneInv /\ BoundInv)'
    BY <2>1, <2>2, <2>3 DEF IInv, SpawnInv, FailInv, ListInv, DoneInv, BoundInv, Appended
  <2>5. QED
    BY <2>2, <2>3, <2>4 DEF IInv
<1>3. CASE AppendDownload(p)
  <2>1. /\ worker[p] = "collect" /\ worker' = [worker EXCEPT ![p] = "release"]
        /\ UNCHANGED <<main, next, sem, wg, done, tries, download>>
        /\ downloads' = Append(downloads, download[p])
        /\ downloads \in Seq(DownloadedFile) /\ download[p] \in DownloadedFile
    BY <1>0, <1>3 DEF AppendDownload, TypeOK, channels
  <2>2. /\ worker' \in [Parts -> WorkerState]
        /\ worker'[p] = "release" /\ \A q \in Parts \ {p} : worker'[q] = worker[q]
        /\ CountInv'
    BY <1>0, <2>1, WorkerMoves DEF WorkerState, HoldingState, CountInv
  <2>3. /\ downloads' \in Seq(DownloadedFile) /\ Len(downloads) \in Nat
        /\ DOMAIN downloads = 1 .. Len(downloads)
        /\ DOMAIN downloads' = 1 .. Len(downloads) + 1
        /\ \A i \in 1 .. Len(downloads) : downloads'[i] = downloads[i]
        /\ downloads'[Len(downloads) + 1] = download[p]
    BY <2>1
  <2>4. TypeInv' /\ Failed' = Failed
    BY <1>0, <2>1, <2>2, <2>3 DEF IInv, TypeInv, TypeOK, Failed
  <2>5. ListInv'
    <3> SUFFICES ASSUME main # "err"
                 PROVE  ListInv'
      BY <2>1 DEF ListInv
    <3>1. download[p].part = p
      BY <2>1 DEF IInv, TypeInv, FailInv, Failed
    <3>2. /\ \A i \in DOMAIN downloads :
                /\ downloads[i].part \in Parts
                /\ worker[downloads[i].part] \in Appended
          /\ \A q \in Parts :
                worker[q] \in Appended => \E i \in DOMAIN downloads : downloads[i].part = q
          /\ \A i, j \in DOMAIN downloads : downloads[i].part = downloads[j].part => i = j
      BY DEF IInv, ListInv
    <3>3. \A i \in DOMAIN downloads : downloads[i].part # p
      BY <2>1, <3>2 DEF Appended
    <3>4. \A i \in DOMAIN downloads' :
             downloads'[i].part \in Parts /\ worker'[downloads'[i].part] \in Appended
      BY <2>2, <2>3, <3>1, <3>2, <3>3 DEF Appended
    <3>5. ASSUME NEW q \in Parts, worker'[q] \in Appended
          PROVE  \E i \in DOMAIN downloads' : downloads'[i].part = q
      BY <2>2, <2>3, <3>1, <3>2, <3>5
    <3>6. \A i, j \in DOMAIN downloads' : downloads'[i].part = downloads'[j].part => i = j
      BY <2>3, <3>1, <3>2, <3>3
    <3>7. QED
      BY <3>4, <3>5, <3>6 DEF ListInv
  <2>6. (SpawnInv /\ FailInv /\ DoneInv /\ BoundInv)'
    BY <2>1, <2>2, <2>4 DEF IInv, SpawnInv, FailInv, DoneInv, BoundInv
  <2>7. QED
    BY <2>2, <2>4, <2>5, <2>6 DEF IInv
<1>4. CASE ReleaseSlot(p)
  <2>1. /\ worker[p] = "release" /\ worker' = [worker EXCEPT ![p] = "wgdone"]
        /\ UNCHANGED <<main, next, wg, done, tries, download, downloads>>
        /\ sem' = sem - 1
    BY <1>4 DEF ReleaseSlot
  <2>2. /\ worker' \in [Parts -> WorkerState]
        /\ worker'[p] = "wgdone" /\ \A q \in Parts \ {p} : worker'[q] = worker[q]
        /\ CountInv' /\ sem >= 1
    BY <1>0, <2>1, WorkerMoves DEF WorkerState, HoldingState, CountInv
  <2>3. TypeInv' /\ Failed' = Failed
    BY <1>0, <2>1, <2>2 DEF IInv, TypeInv, TypeOK, Failed
  <2>4. (SpawnInv /\ FailInv /\ ListInv /\ DoneInv /\ BoundInv)'
    BY <2>1, <2>2, <2>3 DEF IInv, SpawnInv, FailInv, ListInv, DoneInv, BoundInv, Appended
  <2>5. QED
    BY <2>2, <2>3, <2>4 DEF IInv
<1>5. CASE WgDone(p)
  <2>1. /\ worker[p] = "wgdone" /\ worker' = [worker EXCEPT ![p] = "exited"]
        /\ UNCHANGED <<main, next, sem, done, tries, download, downloads>>
        /\ wg' = wg - 1
    BY <1>5 DEF WgDone
  <2>2. /\ worker' \in [Parts -> WorkerState]
        /\ worker'[p] = "exited" /\ \A q \in Parts \ {p} : worker'[q] = worker[q]
        /\ CountInv' /\ wg >= 1
    BY <1>0, <2>1, WorkerMoves DEF WorkerState, HoldingState, CountInv
  <2>3. TypeInv' /\ Failed' = Failed
    BY <1>0, <2>1, <2>2 DEF IInv, TypeInv, TypeOK, Failed
  <2>4. (SpawnInv /\ FailInv /\ ListInv /\ DoneInv /\ BoundInv)'
    BY <2>1, <2>2, <2>3 DEF IInv, SpawnInv, FailInv, ListInv, DoneInv, BoundInv, Appended
  <2>5. QED
    BY <2>2, <2>3, <2>4 DEF IInv
<1>6. QED
  BY <1>1, <1>2, <1>3, <1>4, <1>5, DownloadEnds DEF Worker

LEMMA NextIInv == IInv /\ [Next]_vars => IInv'
<1> SUFFICES ASSUME IInv, [Next]_vars
             PROVE  IInv'
  OBVIOUS
<1> USE NAssumption, LimitAssumption
<1>0. TypeOK /\ CountInv
  BY DEF IInv, TypeInv
<1>1. CASE Spawn
  <2>1. /\ next \in Parts /\ worker' = [worker EXCEPT ![next] = "downloading"]
        /\ UNCHANGED <<main, wg, done, tries, download, downloads>>
        /\ main = "loop" /\ sem' = sem + 1 /\ next' = next + 1 /\ sem < Limit
    BY <1>1 DEF Spawn, SlotFree
  <2>2. worker[next] = "none"
    BY <2>1 DEF IInv, SpawnInv, Parts
  <2>3. /\ worker' \in [Parts -> WorkerState]
        /\ worker'[next] = "downloading" /\ \A q \in Parts \ {next} : worker'[q] = worker[q]
        /\ CountInv'
    BY <1>0, <2>1, <2>2, WorkerMoves DEF WorkerState, HoldingState, CountInv
  <2>4. TypeOK'
    BY <1>0, <2>1, <2>3 DEF TypeOK, Parts
  <2>5. TypeInv' /\ Failed' = Failed
    BY <2>1, <2>2, <2>3, <2>4 DEF IInv, TypeInv, Failed
  <2>6. SpawnInv'
    BY <1>0, <2>1, <2>3 DEF IInv, SpawnInv, TypeOK, Parts
  <2>7. (FailInv /\ ListInv /\ DoneInv /\ BoundInv)'
    BY <2>1, <2>2, <2>3, <2>5 DEF IInv, FailInv, ListInv, DoneInv, BoundInv, Appended
  <2>8. QED
    BY <2>3, <2>5, <2>6, <2>7 DEF IInv
<1>2. CASE LoopEnd
  <2>1. /\ main = "loop" /\ main' = "select" /\ next > N
        /\ UNCHANGED <<next, sem, wg, done, worker, tries, download, downloads>>
    BY <1>2 DEF LoopEnd, channels
  <2>2. TypeInv' /\ CountInv' /\ SpawnInv'
    BY <1>0, <2>1 DEF IInv, TypeInv, TypeOK, CountInv, SpawnInv, Holding, Running
  <2>3. (FailInv /\ ListInv /\ DoneInv /\ BoundInv)'
    BY <2>1 DEF IInv, FailInv, ListInv, DoneInv, BoundInv, Failed
  <2>4. QED
    BY <2>2, <2>3 DEF IInv
<1>3. CASE ReturnOk
  <2>1. /\ main = "select" /\ main' = "ok" /\ done
        /\ UNCHANGED <<next, sem, wg, done, worker, tries, download, downloads>>
    BY <1>3 DEF ReturnOk, channels
  <2>2. TypeInv' /\ CountInv' /\ SpawnInv'
    BY <1>0, <2>1 DEF IInv, TypeInv, TypeOK, CountInv, SpawnInv, Holding, Running
  <2>3. (FailInv /\ ListInv /\ DoneInv /\ BoundInv)'
    BY <2>1 DEF IInv, FailInv, ListInv, DoneInv, BoundInv, Failed
  <2>4. QED
    BY <2>2, <2>3 DEF IInv
<1>4. CASE CloseDone
  <2>1. /\ wg = 0 /\ done' = TRUE
        /\ UNCHANGED <<main, next, sem, wg, worker, tries, download, downloads>>
    BY <1>4 DEF CloseDone
  <2>2. \A p \in Parts : worker[p] = "exited"
    <3>1. Running \subseteq Parts
      BY DEF Running
    <3>2. IsFiniteSet(Running)
      BY <3>1, PartsFinite, FS_Subset
    <3>3. Running = {}
      BY <1>0, <2>1, <3>2, FS_EmptySet DEF CountInv
    <3>4. QED
      BY <3>3 DEF Running
  <2>3. TypeInv' /\ CountInv' /\ SpawnInv'
    BY <1>0, <2>1 DEF IInv, TypeInv, TypeOK, CountInv, SpawnInv, Holding, Running
  <2>4. (FailInv /\ ListInv /\ DoneInv /\ BoundInv)'
    BY <2>1, <2>2 DEF IInv, FailInv, ListInv, DoneInv, BoundInv, Failed
  <2>5. QED
    BY <2>3, <2>4 DEF IInv
<1>5. CASE UNCHANGED vars
  BY <1>5 DEF vars, channels, IInv, TypeInv, TypeOK, CountInv, SpawnInv, FailInv, ListInv,
              DoneInv, BoundInv, Failed, Holding, Running
<1>6. QED
  BY <1>1, <1>2, <1>3, <1>4, <1>5, WorkerIInv DEF Next, Main

LEMMA IInvAlways == Spec => []IInv
  BY InitIInv, NextIInv, PTL DEF Spec

-----------------------------------------------------------------------------

\* Type correctness: the semaphore and the WaitGroup stay within their bounds.
THEOREM TypeCorrect == Spec => []TypeOK
<1>1. IInv => TypeOK
  BY DEF IInv, TypeInv
<1>2. QED
  BY <1>1, IInvAlways, PTL

\* Download succeeds only with one file for each part, although a goroutine whose
\* part failed appends an empty file after it has sent its error.
THEOREM SuccessMeansComplete == Spec => []DownloadsComplete
<1>1. IInv => DownloadsComplete
  <2> SUFFICES ASSUME IInv, main = "ok"
               PROVE  /\ \A i \in DOMAIN downloads : downloads[i].part \in Parts
                      /\ \A p \in Parts :
                            \E i \in DOMAIN downloads :
                                /\ downloads[i].part = p
                                /\ \A j \in DOMAIN downloads : downloads[j].part = p => j = i
    BY DEF DownloadsComplete
  <2>1. \A p \in Parts : worker[p] \in Appended
    BY DEF IInv, DoneInv, Appended
  <2>2. QED
    BY <2>1 DEF IInv, ListInv
<1>2. QED
  BY <1>1, IInvAlways, PTL

\* The loop is never stuck while fewer parts fail than there are slots.
THEOREM NoWedgeBelowLimit ==
    ASSUME MaxFailures < Limit
    PROVE  Spec => []NoWedge
<1>1. IInv => NoWedge
  <2> SUFFICES ASSUME IInv, ~SlotFree, \A p \in Holding : worker[p] = "sending"
               PROVE  FALSE
    BY DEF NoWedge
  <2>1. Holding \subseteq Failed /\ IsFiniteSet(Failed)
    BY DEF IInv, FailInv, BoundInv, Holding
  <2>2. IsFiniteSet(Holding) /\ Cardinality(Holding) <= Cardinality(Failed)
    BY <2>1, FS_Subset
  <2>3. Cardinality(Holding) \in Nat /\ Cardinality(Failed) \in Nat
    BY <2>1, <2>2, FS_CardinalityType
  <2>4. Cardinality(Holding) >= Limit /\ Cardinality(Failed) <= MaxFailures
    BY LimitAssumption DEF IInv, CountInv, TypeInv, TypeOK, BoundInv, SlotFree
  <2>5. QED
    BY <2>2, <2>3, <2>4, LimitAssumption, MaxFailuresAssumption, MaxFailures < Limit
<1>2. QED
  BY <1>1, IInvAlways, PTL

\* As for the uploader: once the loop and the goroutines wait for each other, they do
\* so for ever.
THEOREM WedgeIsForever == Spec => [](~NoWedge => []~NoWedge)
<1>1. TypeOK /\ ~NoWedge /\ [Next]_vars => (~NoWedge)'
  <2> SUFFICES ASSUME TypeOK, ~NoWedge, [Next]_vars
               PROVE  (~NoWedge)'
    OBVIOUS
  <2>1. /\ main = "loop" /\ next \in Parts /\ ~SlotFree
        /\ \A p \in Holding : worker[p] = "sending"
        /\ worker \in [Parts -> WorkerState]
    BY DEF NoWedge, TypeOK
  <2>2. ASSUME NEW p \in Parts, Worker(p)
        PROVE  worker[p] = "wgdone" /\ WgDone(p)
    <3>1. worker[p] \notin {"downloading", "collect", "release"}
      BY <2>1 DEF Holding
    <3>2. main = "loop"
      BY <2>1
    <3>3. QED
      BY <2>2, <3>1, <3>2
      DEF Worker, DownloadOK, DownloadRetry, DownloadFails, SendError, AppendDownload, ReleaseSlot, WgDone
  <2>3. UNCHANGED <<main, next, sem>>
    BY <2>1, <2>2, NAssumption
    DEF Next, Main, Spawn, LoopEnd, ReturnOk, CloseDone, channels, WgDone, Parts, vars
  <2>4. \A p \in Parts : worker'[p] = worker[p] \/ worker'[p] = "exited"
    BY <2>1, <2>2, NAssumption
    DEF Next, Main, Spawn, LoopEnd, ReturnOk, CloseDone, channels, WgDone, Parts, vars
  <2>5. \A p \in Holding' : p \in Holding /\ worker'[p] = worker[p]
    BY <2>4 DEF Holding
  <2>6. QED
    BY <2>1, <2>3, <2>5 DEF NoWedge, SlotFree
<1>2. QED
  BY <1>1, TypeCorrect, PTL DEF Spec

-----------------------------------------------------------------------------
(* The refinement of PartTransfer *)

\* The steps that move nothing and answer nothing.
LEMMA Stutter ==
    ASSUME UNCHANGED <<main, downloads>>, Failed' = Failed
    PROVE  UNCHANGED Abstract!vars
  BY DEF Abstract!vars, Moved

\* A file in the list is of a goroutine past its append, after a failure too.
MovedInv ==
    \A i \in DOMAIN downloads :
        downloads[i].part \in Parts => worker[downloads[i].part] \in Appended

LEMMA MovedStep ==
    ASSUME IInv, MovedInv, [Next]_vars
    PROVE  MovedInv'
<1>0. /\ worker \in [Parts -> WorkerState]
      /\ download \in [Parts -> DownloadedFile] /\ downloads \in Seq(DownloadedFile)
      /\ \A p \in Parts : download[p].part = p \/ download[p] = ZeroFile
  BY DEF IInv, TypeInv, TypeOK
<1>1. CASE UNCHANGED downloads /\ \A p \in Parts : worker[p] \in Appended => worker'[p] \in Appended
  BY <1>1 DEF MovedInv
<1>2. ASSUME NEW p \in Parts, Worker(p)
      PROVE  MovedInv'
  <2>1. CASE AppendDownload(p)
    <3>1. /\ downloads' = Append(downloads, download[p])
          /\ worker' = [worker EXCEPT ![p] = "release"] /\ worker[p] = "collect"
      BY <2>1 DEF AppendDownload
    <3>2. \A i \in DOMAIN downloads' :
             downloads'[i] = download[p] \/ (i \in DOMAIN downloads /\ downloads'[i] = downloads[i])
      BY <1>0, <3>1
    <3>3. download[p].part \in Parts => download[p].part = p
      BY <1>0 DEF ZeroFile, Parts
    <3>4. QED
      BY <1>0, <3>1, <3>2, <3>3 DEF MovedInv, Appended
  <2>2. CASE DownloadOK(p) \/ DownloadRetry(p) \/ DownloadFails(p) \/ SendError(p)
    BY <1>0, <1>1, <2>2
       DEF DownloadOK, DownloadRetry, DownloadFails, SendError, Appended
  <2>3. CASE ReleaseSlot(p) \/ WgDone(p)
    BY <1>0, <1>1, <2>3 DEF ReleaseSlot, WgDone, Appended
  <2>4. QED
    BY <1>2, <2>1, <2>2, <2>3 DEF Worker
<1>3. CASE Spawn
  BY <1>0, <1>1, <1>3 DEF Spawn, IInv, SpawnInv, Appended
<1>4. CASE LoopEnd \/ ReturnOk \/ CloseDone \/ UNCHANGED vars
  BY <1>1, <1>4 DEF LoopEnd, ReturnOk, CloseDone, vars
<1>5. QED
  BY <1>2, <1>3, <1>4 DEF Next, Main

LEMMA DownloadInProgress ==
    ASSUME IInv, MovedInv, NEW p \in Parts, worker[p] \in {"downloading", "collect"}
    PROVE  main # "ok" /\ p \notin Moved
  BY DEF IInv, DoneInv, MovedInv, Appended, Moved

LEMMA WorkerTransfers ==
    ASSUME IInv, MovedInv, NEW p \in Parts, Worker(p)
    PROVE  Abstract!Next \/ UNCHANGED Abstract!vars
<1>0. /\ worker \in [Parts -> WorkerState]
      /\ download \in [Parts -> DownloadedFile] /\ downloads \in Seq(DownloadedFile)
      /\ \A q \in Parts : download[q].part = q \/ download[q] = ZeroFile
      /\ worker[p] = "downloading" => download[p] = ZeroFile
  BY DEF IInv, TypeInv, TypeOK
<1>1. CASE DownloadOK(p)
  <2>1. /\ worker[p] = "downloading" /\ worker' = [worker EXCEPT ![p] = "collect"]
        /\ UNCHANGED <<main, downloads>>
        /\ \A q \in Parts \ {p} : download'[q] = download[q]
        /\ download'[p] # ZeroFile
    BY <1>0, <1>1 DEF DownloadOK, ZeroFile, Parts
  <2>2. Failed' = Failed
    BY <1>0, <2>1 DEF Failed
  <2>3. QED
    BY <2>1, <2>2, Stutter
<1>2. CASE DownloadRetry(p)
  BY <1>2, Stutter DEF DownloadRetry, Failed
<1>3. CASE DownloadFails(p)
  <2>1. /\ worker[p] = "downloading" /\ worker' = [worker EXCEPT ![p] = "sending"]
        /\ UNCHANGED <<main, download, downloads>>
    BY <1>3 DEF DownloadFails
  <2>2. Failed' = Failed \cup {p} /\ p \notin Failed /\ Moved' = Moved
    BY <1>0, <2>1 DEF Failed, Moved
  <2>3. Abstract!Break(p)
    BY <2>1, <2>2, DownloadInProgress DEF Abstract!Break
  <2>4. QED
    BY <2>3 DEF Abstract!Next, Abstract!Transfer
<1>4. CASE SendError(p)
  <2>1. /\ worker[p] = "sending" /\ worker' = [worker EXCEPT ![p] = "collect"]
        /\ main = "select" /\ main' = "err" /\ UNCHANGED <<download, downloads>>
    BY <1>4 DEF SendError
  <2>2. Failed' = Failed /\ Moved' = Moved /\ p \in Failed
    BY <1>0, <2>1 DEF Failed, Moved, IInv, FailInv
  <2>3. Abstract!Fail
    BY <2>1, <2>2 DEF Abstract!Fail
  <2>4. QED
    BY <2>3 DEF Abstract!Next, Abstract!Return
<1>5. CASE AppendDownload(p)
  <2>1. /\ worker[p] = "collect" /\ worker' = [worker EXCEPT ![p] = "release"]
        /\ downloads' = Append(downloads, download[p])
        /\ UNCHANGED <<main, download>>
    BY <1>5 DEF AppendDownload
  <2>2. Failed' = Failed
    BY <1>0, <2>1 DEF Failed
  <2>3. \A q \in Parts : q \in Moved' <=> q \in Moved \/ q = download[p].part
    BY <1>0, <2>1 DEF Moved
  <2>4. CASE download[p] = ZeroFile
    BY <2>1, <2>2, <2>3, <2>4 DEF ZeroFile, Parts, Moved, Abstract!vars
  <2>5. CASE download[p] # ZeroFile
    <3>1. Moved' = Moved \cup {p}
      BY <1>0, <2>3, <2>5 DEF Moved
    <3>2. Abstract!Move(p)
      BY <2>1, <2>2, <2>5, <3>1, DownloadInProgress DEF Abstract!Move, Failed
    <3>3. QED
      BY <3>2 DEF Abstract!Next, Abstract!Transfer
  <2>6. QED
    BY <2>4, <2>5
<1>6. CASE ReleaseSlot(p) \/ WgDone(p)
  <2>1. Failed' = Failed
    BY <1>0, <1>6 DEF ReleaseSlot, WgDone, Failed
  <2>2. QED
    BY <1>6, <2>1, Stutter DEF ReleaseSlot, WgDone
<1>7. QED
  BY <1>1, <1>2, <1>3, <1>4, <1>5, <1>6 DEF Worker

LEMMA StepTransfers ==
    ASSUME IInv, MovedInv, [Next]_vars
    PROVE  [Abstract!Next]_(Abstract!vars)
<1>1. CASE Spawn
  <2>1. Failed' = Failed
    BY <1>1 DEF Spawn, Failed, IInv, TypeInv, TypeOK, SpawnInv
  <2>2. QED
    BY <1>1, <2>1, Stutter DEF Spawn
<1>2. CASE CloseDone \/ UNCHANGED vars
  BY <1>2, Stutter DEF CloseDone, vars, Failed
<1>3. CASE LoopEnd
  BY <1>3 DEF LoopEnd, Abstract!vars, Moved, Failed
<1>4. CASE ReturnOk
  <2>1. \A p \in Parts : worker[p] \in Appended
    BY <1>4 DEF ReturnOk, IInv, DoneInv, Appended
  <2>2. Moved = Parts /\ Moved' = Moved /\ Failed' = Failed
    BY <1>4, <2>1 DEF ReturnOk, IInv, ListInv, Moved, Failed
  <2>3. Abstract!Succeed
    BY <1>4, <2>2 DEF ReturnOk, Abstract!Succeed
  <2>4. QED
    BY <2>3 DEF Abstract!Next, Abstract!Return
<1>5. ASSUME NEW p \in Parts, Worker(p)
      PROVE  [Abstract!Next]_(Abstract!vars)
  BY <1>5, WorkerTransfers
<1>6. QED
  BY <1>1, <1>2, <1>3, <1>4, <1>5 DEF Next, Main

\* For any number of parts, slots and attempts Download behaves as the abstract
\* transfer, although a goroutine whose part failed goes on to append a file.
THEOREM TransferImplemented == Spec => Abstract!Safety
<1>1. Init => Abstract!Init /\ MovedInv
  BY DEF Init, Abstract!Init, Moved, Failed, MovedInv
<1>2. IInv /\ MovedInv /\ [Next]_vars => MovedInv' /\ [Abstract!Next]_(Abstract!vars)
  BY MovedStep, StepTransfers
<1>3. QED
  BY <1>1, <1>2, IInvAlways, PTL DEF Spec, Abstract!Safety

-----------------------------------------------------------------------------
(* The files of RestoreFiles *)

restoreVars == <<vars, fileVars>>

\* The zip file holds the first of the sorted downloads, and all of them from the
\* moment restore goes on to the target paths, which it does only after a success.
FilesInv ==
    /\ phase \in {"download", "combine", "clean", "extract", "done", "failed"}
    /\ phase \in {"combine", "clean", "extract", "done"} => main = "ok"
    /\ main # "ok" => zip = <<>>
    /\ phase \in {"download", "combine"} => target = "old"
    /\ zip \in Seq(DownloadedFile)
    /\ main = "ok" =>
          /\ Len(zip) <= Len(downloads)
          /\ \A i \in 1 .. Len(zip) : zip[i] = SortedDownloads[i]
    /\ phase \in {"clean", "extract", "done"} \/ target # "old" =>
          main = "ok" /\ Len(zip) = Len(downloads)

\* Numbers that ascend and leave out none of 1 .. N are 1, 2 and so on up to N.
LEMMA ClimbsByOne ==
    ASSUME NEW m \in Nat, NEW f \in [1 .. m -> Parts],
           \A i, j \in 1 .. m : i < j => f[i] < f[j],
           \A p \in Parts : \E i \in 1 .. m : f[i] = p
    PROVE  m = N /\ \A i \in 1 .. m : f[i] = i
<1> USE NAssumption DEF Parts
<1>1. \A i \in 1 .. m : f[i] = i
  <2> DEFINE Astray == {i \in 1 .. m : f[i] # i}
  <2> SUFFICES ASSUME Astray # {}
               PROVE  FALSE
    OBVIOUS
  <2>1. Astray \in SUBSET Nat
    OBVIOUS
  <2>2. PICK i \in Astray : \A k \in Astray : i <= k
    BY <2>1, LeastNumber
  <2>3. i \in 1 .. m /\ f[i] # i /\ \A k \in 1 .. m : k < i => f[k] = k
    BY <2>2
  <2> HIDE DEF Astray
  <2>4. f[i] > i
    <3>1. CASE i = 1
      BY <2>3, <3>1
    <3>2. CASE i # 1
      <4>1. i - 1 \in 1 .. m /\ i - 1 < i
        BY <2>3, <3>2
      <4>2. f[i - 1] = i - 1 /\ f[i - 1] < f[i]
        BY <2>3, <4>1
      <4>3. QED
        BY <2>3, <4>2
    <3>3. QED
      BY <3>1, <3>2
  <2>5. PICK k \in 1 .. m : f[k] = i
    BY <2>3, <2>4
  <2>6. k < i \/ k = i \/ k > i
    BY <2>3
  <2>7. QED
    BY <2>3, <2>4, <2>5, <2>6
<1>2. \E i \in 1 .. m : f[i] = N
  OBVIOUS
<1>3. m \in 1 .. m => m <= N
  BY <1>1
<1>4. QED
  BY <1>1, <1>2, <1>3

\* A complete list of downloads, sorted, has the parts in their places.
LEMMA SortedPlaces ==
    ASSUME TypeOK, DownloadsComplete, main = "ok"
    PROVE  /\ SortedDownloads \in Seq(DownloadedFile)
           /\ Len(SortedDownloads) = N /\ Len(downloads) = N
           /\ \A i \in Parts : SortedDownloads[i].part = i
<1> DEFINE m == Len(downloads)
           key == [i \in DOMAIN downloads |-> downloads[i].part]
<1>1. /\ downloads \in Seq(DownloadedFile) /\ m \in Nat /\ DOMAIN downloads = 1 .. m
      /\ \A i \in 1 .. m : downloads[i].part \in Parts
      /\ \A p \in Parts : \E i \in 1 .. m : downloads[i].part = p
      /\ \A i, j \in 1 .. m : downloads[i].part = downloads[j].part => i = j
  <2>1. downloads \in Seq(DownloadedFile) /\ m \in Nat /\ DOMAIN downloads = 1 .. m
    BY DEF TypeOK
  <2>2. /\ \A i \in 1 .. m : downloads[i].part \in Parts
        /\ \A p \in Parts :
              \E i \in 1 .. m :
                  /\ downloads[i].part = p
                  /\ \A j \in 1 .. m : downloads[j].part = p => j = i
    BY <2>1 DEF DownloadsComplete
  <2> HIDE DEF m
  <2>3. QED
    BY <2>1, <2>2
<1>2. key \in [DOMAIN downloads -> Nat]
  BY <1>1 DEF Parts
<1>3. PICK p \in Bijection(DOMAIN downloads, DOMAIN downloads) :
          /\ SortBy(downloads, key) = [i \in DOMAIN downloads |-> downloads[p[i]]]
          /\ Ascending(key, p)
          /\ SortBy(downloads, key) \in Seq(DownloadedFile)
  <2> HIDE DEF key
  <2>1. QED
    BY <1>1, <1>2, SortByFacts
<1>4. /\ p \in [1 .. m -> 1 .. m]
      /\ \A i, j \in 1 .. m : p[i] = p[j] => i = j
      /\ \A j \in 1 .. m : \E i \in 1 .. m : p[i] = j
  BY <1>1, <1>3 DEF Bijection, Injection, Surjection, IsInjective
<1>5. /\ SortedDownloads = [i \in 1 .. m |-> downloads[p[i]]]
      /\ SortedDownloads \in Seq(DownloadedFile)
      /\ \A i, j \in 1 .. m : i < j => downloads[p[i]].part <= downloads[p[j]].part
  BY <1>1, <1>3, <1>4 DEF SortedDownloads, Ascending
<1> DEFINE f == [i \in 1 .. m |-> downloads[p[i]].part]
<1>6. f \in [1 .. m -> Parts]
  BY <1>1, <1>4
<1>7. \A i, j \in 1 .. m : i < j => f[i] < f[j]
  <2> SUFFICES ASSUME NEW i \in 1 .. m, NEW j \in 1 .. m, i < j
               PROVE  f[i] < f[j]
    OBVIOUS
  <2>1. f[i] <= f[j]
    BY <1>5
  <2>2. p[i] # p[j] /\ p[i] \in 1 .. m /\ p[j] \in 1 .. m
    <3> HIDE DEF m, f
    <3>1. QED
      BY <1>1, <1>4
  <2>3. f[i] # f[j]
    BY <1>1, <2>2
  <2>4. f[i] \in Int /\ f[j] \in Int
    BY <1>6 DEF Parts
  <2> HIDE DEF f
  <2>5. QED
    BY <2>1, <2>3, <2>4
<1>8. \A q \in Parts : \E i \in 1 .. m : f[i] = q
  BY <1>1, <1>4
<1>9. m = N /\ \A i \in 1 .. m : f[i] = i
  <2> HIDE DEF f, m
  <2>1. QED
    BY <1>1, <1>6, <1>7, <1>8, ClimbsByOne
<1>10. QED
  BY <1>1, <1>5, <1>9 DEF Parts

\* Once Download has returned its list nothing in it moves any more: by then every
\* goroutine has exited.
LEMMA ReturnedList ==
    ASSUME IInv, main = "ok", [Next]_vars
    PROVE  UNCHANGED <<main, downloads>>
<1>1. \A p \in Parts : worker[p] = "exited"
  BY DEF IInv, DoneInv
<1>2. ~Main
  BY DEF Main, Spawn, LoopEnd, ReturnOk
<1>3. \A p \in Parts : ~Worker(p)
  BY <1>1 DEF Worker, DownloadOK, DownloadRetry, DownloadFails, SendError, AppendDownload,
              ReleaseSlot, WgDone
<1>4. QED
  BY <1>2, <1>3 DEF Next, CloseDone, vars

\* Each step of restore is a step of the downloader or leaves it alone.
LEMMA RestoreSimulates == [RestoreNext]_restoreVars => [Next]_vars
  BY DEF RestoreNext, RestoreSteps, Downloading, Downloaded, AppendToFile, Combined,
         CleanPaths, ExtractFiles, StepFails, Ended, restoreVars

LEMMA FilesStep ==
    ASSUME IInv, FilesInv, DownloadsComplete, [RestoreNext]_restoreVars
    PROVE  FilesInv'
<1>0. TypeOK
  BY DEF IInv, TypeInv
<1>1. ASSUME [Next]_vars, UNCHANGED fileVars
      PROVE  FilesInv'
  <2>1. UNCHANGED <<phase, clean, zip, target>>
    BY <1>1 DEF fileVars
  <2>2. CASE main = "ok"
    <3>1. UNCHANGED <<main, downloads>> /\ SortedDownloads' = SortedDownloads
      BY <1>1, <2>2, ReturnedList DEF SortedDownloads
    <3>2. QED
      BY <2>1, <3>1 DEF FilesInv
  <2>3. CASE main # "ok"
    <3>1. downloads' \in Seq(DownloadedFile)
      BY <1>1, NextIInv DEF IInv, TypeInv, TypeOK
    <3>2. zip' = <<>> /\ Len(zip') <= Len(downloads')
      BY <2>1, <2>3, <3>1 DEF FilesInv
    <3>3. QED
      BY <2>1, <2>3, <3>2 DEF FilesInv
  <2>4. QED
    BY <2>2, <2>3
<1>2. ASSUME UNCHANGED vars, RestoreSteps
      PROVE  FilesInv'
  <2>1. UNCHANGED <<main, downloads>> /\ SortedDownloads' = SortedDownloads
    BY <1>2 DEF vars, SortedDownloads
  <2>2. CASE Downloaded
    BY <2>1, <2>2 DEF Downloaded, FilesInv
  <2>3. CASE AppendToFile
    <3>1. main = "ok" /\ phase = "combine" /\ target = "old" /\ zip \in Seq(DownloadedFile)
      BY <2>3 DEF AppendToFile, FilesInv
    <3>2. /\ SortedDownloads \in Seq(DownloadedFile)
          /\ Len(SortedDownloads) = Len(downloads) /\ Len(downloads) \in Nat
      BY <1>0, <3>1, SortedPlaces, NAssumption
    <3> DEFINE n == Len(zip) + 1
    <3>3. n \in 1 .. Len(downloads) /\ SortedDownloads[n] \in DownloadedFile
      BY <2>3, <3>1, <3>2 DEF AppendToFile
    <3>4. /\ zip' \in Seq(DownloadedFile) /\ Len(zip') = n /\ zip'[n] = SortedDownloads[n]
          /\ \A i \in 1 .. Len(zip) : zip'[i] = zip[i]
      BY <2>3, <3>1, <3>3 DEF AppendToFile
    <3>5. \A i \in 1 .. n : zip'[i] = SortedDownloads[i]
      BY <3>1, <3>4 DEF FilesInv
    <3>6. UNCHANGED <<phase, target>> /\ Len(zip') <= Len(downloads)
      BY <2>3, <3>3, <3>4 DEF AppendToFile
    <3>7. QED
      BY <2>1, <3>1, <3>4, <3>5, <3>6 DEF FilesInv
  <2>4. CASE Combined \/ CleanPaths \/ ExtractFiles \/ StepFails
    <3>1. UNCHANGED zip
      BY <2>4 DEF Combined, CleanPaths, ExtractFiles, StepFails
    <3>2. \/ /\ phase = "combine" /\ phase' \in {"clean", "extract"} /\ UNCHANGED target
             /\ Len(zip) = Len(downloads)
          \/ phase \in {"clean", "extract"} /\ phase' \in {"extract", "done", "failed"}
          \/ phase = "combine" /\ phase' = "failed" /\ UNCHANGED target
      BY <2>4 DEF Combined, CleanPaths, ExtractFiles, StepFails
    <3>3. QED
      BY <2>1, <3>1, <3>2 DEF FilesInv
  <2>5. QED
    BY <1>2, <2>2, <2>3, <2>4 DEF RestoreSteps
<1>3. CASE UNCHANGED restoreVars \/ Ended
  BY <1>1, <1>3 DEF restoreVars, Ended
<1>4. QED
  BY <1>1, <1>2, <1>3 DEF RestoreNext, Downloading, RestoreSteps, Downloaded, AppendToFile,
                          Combined, CleanPaths, ExtractFiles, StepFails

\* restore runs the downloader as it is specified, so that what holds of every
\* behaviour of Download by itself holds inside the command.
THEOREM RestoreRunsDownload == RestoreSpec => Spec
  BY RestoreSimulates, PTL DEF RestoreSpec, RestoreInit, Spec, restoreVars

\* No failure costs the files that were there before every part of the archive has
\* been downloaded and stands in its place in the zip file.
THEOREM TargetIsTouchedLast == RestoreSpec => []TargetTouchedLast
<1>1. RestoreInit => FilesInv
  BY NAssumption DEF RestoreInit, Init, FilesInv
<1>2. RestoreSpec => [](IInv /\ DownloadsComplete)
  BY RestoreRunsDownload, IInvAlways, SuccessMeansComplete, PTL
<1>3. RestoreSpec => []FilesInv
  BY <1>1, <1>2, FilesStep, PTL DEF RestoreSpec, restoreVars
<1>4. IInv /\ DownloadsComplete /\ FilesInv => TargetTouchedLast
  <2> SUFFICES ASSUME TypeOK, DownloadsComplete, FilesInv, target # "old"
               PROVE  [i \in DOMAIN zip |-> zip[i].part] = [i \in Parts |-> i]
    BY DEF TargetTouchedLast, IInv, TypeInv
  <2>1. /\ main = "ok" /\ Len(zip) = Len(downloads) /\ zip \in Seq(DownloadedFile)
        /\ \A i \in 1 .. Len(zip) : zip[i] = SortedDownloads[i]
    BY DEF FilesInv
  <2>2. /\ Len(downloads) = N
        /\ \A i \in Parts : SortedDownloads[i].part = i
    BY <2>1, SortedPlaces
  <2>3. DOMAIN zip = Parts
    BY <2>1, <2>2 DEF Parts
  <2>4. \A i \in DOMAIN zip : zip[i].part = i
    BY <2>1, <2>2, <2>3 DEF Parts
  <2>5. QED
    BY <2>3, <2>4
<1>5. QED
  BY <1>2, <1>3, <1>4, PTL

=============================================================================
