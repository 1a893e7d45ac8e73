------------------------- MODULE PartUploaderProofs -------------------------
(***************************************************************************)
(* The uploader's safety for any number of parts, slots and attempts.      *)
(***************************************************************************)
EXTENDS PartUploader, FiniteSetTheorems, TLAPS

HoldingState == {"uploading", "collect", "sending", "release"}
Finished == {"release", "wgdone", "exited"}

\* The channel and the WaitGroup count what they stand for.
CountInv ==
    /\ sem = Cardinality(Holding)
    /\ wg = Cardinality(Running)

\* The loop has started exactly the workers before `next'.
SpawnInv ==
    /\ \A p \in Parts : worker[p] = "none" <=> p >= next
    /\ main # "loop" => next = N + 1

\* A failed worker that is past its send has made Upload return an error.
FailInv ==
    \A p \in Parts :
        /\ worker[p] = "sending" => p \in failed
        /\ worker[p] \in {"none", "uploading", "collect"} => p \notin failed
        /\ p \in failed /\ worker[p] \in Finished => main = "err"

\* The etags are those of the workers that finished without an error.
EtagInv ==
    /\ \A p \in Parts : Collected(p) <=> worker[p] \in Finished /\ p \notin failed
    /\ \A p \in Parts : worker[p] = "collect" \/ Collected(p) => p \in stored
    /\ \A i, j \in DOMAIN etags : etags[i] = etags[j] => i = j

DoneInv ==
    /\ done => \A p \in Parts : worker[p] = "exited"
    /\ main = "ok" => done

BoundInv == IsFiniteSet(failed) /\ Cardinality(failed) <= MaxFailures

IInv == TypeOK /\ CountInv /\ SpawnInv /\ FailInv /\ EtagInv /\ DoneInv /\ BoundInv

-----------------------------------------------------------------------------

LEMMA PartsFinite == IsFiniteSet(Parts) /\ Cardinality(Parts) = N
  BY NAssumption, FS_Interval DEF Parts

\* What one worker's step does to the two sets that are counted.
LEMMA WorkerMoves ==
    ASSUME TypeOK, CountInv, NEW p \in Parts, NEW w \in WorkerState,
           worker' = [worker EXCEPT ![p] = w]
    PROVE  /\ worker' \in [Parts -> WorkerState]
           /\ worker'[p] = w /\ \A q \in Parts \ {p} : worker'[q] = worker[q]
           /\ Cardinality(Holding') =
                 IF worker[p] \in HoldingState
                   THEN IF w \in HoldingState THEN sem ELSE sem - 1
                   ELSE IF w \in HoldingState THEN sem + 1 ELSE sem
           /\ Cardinality(Running') =
                 IF worker[p] # "exited"
                   THEN IF w # "exited" THEN wg ELSE wg - 1
                   ELSE IF w # "exited" THEN wg + 1 ELSE wg
           /\ worker[p] \in HoldingState => sem >= 1
           /\ worker[p] # "exited" => wg >= 1
           /\ Cardinality(Running') <= N
<1>1. /\ worker \in [Parts -> WorkerState]
      /\ worker' \in [Parts -> WorkerState]
      /\ worker'[p] = w /\ \A q \in Parts \ {p} : worker'[q] = worker[q]
  BY DEF TypeOK
<1>2. /\ IsFiniteSet(Holding) /\ IsFiniteSet(Running)
      /\ IsFiniteSet(Running') /\ Cardinality(Running') <= N
  <2>1. Holding \subseteq Parts /\ Running \subseteq Parts /\ Running' \subseteq Parts
    BY DEF Holding, Running
  <2>2. QED
    BY <2>1, PartsFinite, FS_Subset
<1>3. Holding' = IF w \in HoldingState THEN Holding \cup {p} ELSE Holding \ {p}
  BY <1>1 DEF Holding, HoldingState
<1>4. Running' = IF w # "exited" THEN Running \cup {p} ELSE Running \ {p}
  BY <1>1 DEF Running
<1>5. /\ p \in Holding <=> worker[p] \in HoldingState
      /\ p \in Running <=> worker[p] # "exited"
  BY DEF Holding, Running, HoldingState
<1>6. /\ Cardinality(Holding) = sem /\ Cardinality(Running) = wg
      /\ sem \in Nat /\ wg \in Nat
  BY LimitAssumption, NAssumption DEF CountInv, TypeOK
<1>7. /\ p \in Holding => sem >= 1
      /\ p \in Running => wg >= 1
  <2>1. /\ p \in Holding => Cardinality(Holding) # 0
        /\ p \in Running => Cardinality(Running) # 0
    BY <1>2, FS_EmptySet
  <2>2. QED
    BY <2>1, <1>6
<1>8. /\ Cardinality(Holding \cup {p}) = IF p \in Holding THEN sem ELSE sem + 1
      /\ Cardinality(Holding \ {p}) = IF p \in Holding THEN sem - 1 ELSE sem
      /\ Cardinality(Running \cup {p}) = IF p \in Running THEN wg ELSE wg + 1
      /\ Cardinality(Running \ {p}) = IF p \in Running THEN wg - 1 ELSE wg
  BY <1>2, <1>6, FS_AddElement, FS_RemoveElement
<1>9. QED
  BY <1>1, <1>2, <1>3, <1>4, <1>5, <1>7, <1>8

LEMMA InitIInv == Init => IInv
<1> SUFFICES ASSUME Init
             PROVE  IInv
  OBVIOUS
<1> USE NAssumption, LimitAssumption, MaxTriesAssumption, MaxFailuresAssumption
<1>1. TypeOK
  <2>1. /\ worker \in [Parts -> WorkerState]
        /\ tries \in [Parts -> 0 .. MaxTries]
    BY DEF Init, WorkerState
  <2>2. /\ next \in 1 .. N + 1 /\ sem \in 0 .. Limit /\ wg \in 0 .. N
        /\ etags \in Seq(Parts)
    BY DEF Init
  <2>3. QED
    BY <2>1, <2>2 DEF Init, TypeOK
<1>2. CountInv
  <2>1. Holding = {} /\ Running = Parts
    BY DEF Init, Holding, Running
  <2>2. QED
    BY <2>1, PartsFinite, FS_EmptySet DEF Init, CountInv
<1>3. SpawnInv /\ FailInv /\ EtagInv /\ DoneInv
  <2>1. worker \in [Parts -> {"none"}] /\ Parts = 1 .. N
    BY DEF Init, Parts
  <2>2. SpawnInv
    BY <2>1 DEF Init, SpawnInv
  <2>3. FailInv
    BY <2>1 DEF Init, FailInv, Finished
  <2>4. EtagInv
    BY <2>1 DEF Init, EtagInv, Collected, Finished
  <2>5. DoneInv
    BY DEF Init, DoneInv
  <2>6. QED
    BY <2>2, <2>3, <2>4, <2>5
<1>4. BoundInv
  BY FS_EmptySet DEF Init, BoundInv
<1>5. QED
  BY <1>1, <1>2, <1>3, <1>4 DEF IInv

\* A worker's own steps.
LEMMA WorkerIInv ==
    ASSUME IInv, NEW p \in Parts, Worker(p)
    PROVE  IInv'
<1> USE NAssumption, LimitAssumption, MaxTriesAssumption, MaxFailuresAssumption
<1>0. TypeOK /\ CountInv /\ worker \in [Parts -> WorkerState]
  BY DEF IInv, TypeOK
<1>1. CASE UploadOK(p)
  <2>1. /\ worker[p] = "uploading" /\ worker' = [worker EXCEPT ![p] = "collect"]
        /\ UNCHANGED <<main, next, sem, wg, done, etags, failed>>
        /\ stored' = stored \cup {p}
        /\ tries' \in [Parts -> 0 .. MaxTries]
    BY <1>1 DEF UploadOK, TypeOK, IInv
  <2>2. /\ worker' \in [Parts -> WorkerState]
        /\ worker'[p] = "collect" /\ \A q \in Parts \ {p} : worker'[q] = worker[q]
        /\ CountInv'
    BY <1>0, <2>1, WorkerMoves DEF WorkerState, HoldingState, CountInv
  <2>3. TypeOK'
    BY <1>0, <2>1, <2>2 DEF TypeOK
  <2>4. (SpawnInv /\ FailInv /\ EtagInv /\ DoneInv /\ BoundInv)'
    BY <2>1, <2>2 DEF IInv, SpawnInv, FailInv, EtagInv, DoneInv, BoundInv, Collected, Finished
  <2>5. QED
    BY <2>2, <2>3, <2>4 DEF IInv
<1>2. CASE UploadRetry(p)
  <2>1. /\ UNCHANGED <<main, next, sem, wg, done, worker, etags, failed>>
        /\ stored \subseteq stored' /\ stored' \subseteq Parts
        /\ tries' \in [Parts -> 0 .. MaxTries]
    BY <1>0, <1>2 DEF UploadRetry, TypeOK
  <2>2. TypeOK' /\ CountInv'
    BY <1>0, <2>1 DEF TypeOK, CountInv, Holding, Running
  <2>3. (SpawnInv /\ FailInv /\ EtagInv /\ DoneInv /\ BoundInv)'
    BY <2>1 DEF IInv, SpawnInv, FailInv, EtagInv, DoneInv, BoundInv, Collected
  <2>4. QED
    BY <2>2, <2>3 DEF IInv
<1>3. CASE UploadFails(p)
  <2>1. /\ worker[p] = "uploading" /\ worker' = [worker EXCEPT ![p] = "sending"]
        /\ UNCHANGED <<main, next, sem, wg, done, tries, etags>>
        /\ failed' = failed \cup {p} /\ Cardinality(failed) < MaxFailures
        /\ stored \subseteq stored' /\ stored' \subseteq Parts
    BY <1>0, <1>3 DEF UploadFails, TypeOK
  <2>2. /\ worker' \in [Parts -> WorkerState]
        /\ worker'[p] = "sending" /\ \A q \in Parts \ {p} : worker'[q] = worker[q]
        /\ CountInv'
    BY <1>0, <2>1, WorkerMoves DEF WorkerState, HoldingState, CountInv
  <2>3. TypeOK'
    BY <1>0, <2>1, <2>2 DEF TypeOK
  <2>4. (SpawnInv /\ FailInv /\ EtagInv /\ DoneInv)'
    BY <2>1, <2>2 DEF IInv, SpawnInv, FailInv, EtagInv, DoneInv, Collected, Finished
  <2>5. BoundInv'
    <3>1. IsFiniteSet(failed) /\ Cardinality(failed) \in Nat
      BY FS_CardinalityType DEF IInv, BoundInv
    <3>2. IsFiniteSet(failed') /\ Cardinality(failed') <= Cardinality(failed) + 1
      BY <2>1, <3>1, FS_AddElement
    <3>3. Cardinality(failed') \in Nat
      BY <3>2, FS_CardinalityType
    <3>4. QED
      BY <2>1, <3>1, <3>2, <3>3 DEF BoundInv
  <2>6. QED
    BY <2>2, <2>3, <2>4, <2>5 DEF IInv
<1>4. CASE AppendEtag(p)
  <2>1. /\ worker[p] = "collect" /\ worker' = [worker EXCEPT ![p] = "release"]
        /\ UNCHANGED <<main, next, sem, wg, done, tries, stored, failed>>
        /\ etags' = Append(etags, p) /\ etags \in Seq(Parts)
    BY <1>0, <1>4 DEF AppendEtag, TypeOK
  <2>2. /\ worker' \in [Parts -> WorkerState]
        /\ worker'[p] = "release" /\ \A q \in Parts \ {p} : worker'[q] = worker[q]
        /\ CountInv'
    BY <1>0, <2>1, WorkerMoves DEF WorkerState, HoldingState, CountInv
  <2>3. /\ etags' \in Seq(Parts) /\ Len(etags) \in Nat
        /\ DOMAIN etags = 1 .. Len(etags) /\ DOMAIN etags' = 1 .. Len(etags) + 1
        /\ \A i \in 1 .. Len(etags) : etags'[i] = etags[i]
        /\ etags'[Len(etags) + 1] = p
    BY <2>1
  <2>4. TypeOK'
    BY <1>0, <2>1, <2>2, <2>3 DEF TypeOK
  <2>5. ~Collected(p) /\ p \in stored /\ p \notin failed
    BY <2>1 DEF IInv, EtagInv, FailInv, Finished
  <2>6. /\ Collected(p)'
        /\ \A q \in Parts \ {p} : Collected(q)' <=> Collected(q)
    <3>1. Collected(p)'
      BY <2>3 DEF Collected
    <3>2. ASSUME NEW q \in Parts \ {p}
          PROVE  Collected(q)' <=> Collected(q)
      BY <2>3 DEF Collected
    <3>3. QED
      BY <3>1, <3>2
  <2>7. EtagInv'
    <3>1. ASSUME NEW i \in DOMAIN etags', NEW j \in DOMAIN etags', etags'[i] = etags'[j]
          PROVE  i = j
      BY <2>3, <2>5, <3>1 DEF IInv, EtagInv, Collected
    <3>2. \A q \in Parts : Collected(q)' <=> worker'[q] \in Finished /\ q \notin failed'
      BY <2>1, <2>2, <2>5, <2>6 DEF IInv, EtagInv, Finished
    <3>3. \A q \in Parts : worker'[q] = "collect" \/ Collected(q)' => q \in stored'
      BY <2>1, <2>2, <2>5, <2>6 DEF IInv, EtagInv
    <3>4. QED
      BY <3>1, <3>2, <3>3 DEF EtagInv
  <2>8. (SpawnInv /\ FailInv /\ DoneInv /\ BoundInv)'
    BY <2>1, <2>2, <2>5 DEF IInv, SpawnInv, FailInv, DoneInv, BoundInv, Finished
  <2>9. QED
    BY <2>2, <2>4, <2>7, <2>8 DEF IInv
<1>5. CASE SendError(p)
  <2>1. /\ worker[p] = "sending" /\ worker' = [worker EXCEPT ![p] = "release"]
        /\ main = "select" /\ main' = "err"
        /\ UNCHANGED <<next, sem, wg, done, tries, etags, stored, failed>>
    BY <1>5 DEF SendError
  <2>2. /\ worker' \in [Parts -> WorkerState]
        /\ worker'[p] = "release" /\ \A q \in Parts \ {p} : worker'[q] = worker[q]
        /\ CountInv'
    BY <1>0, <2>1, WorkerMoves DEF WorkerState, HoldingState, CountInv
  <2>3. TypeOK'
    BY <1>0, <2>1, <2>2 DEF TypeOK
  <2>4. (SpawnInv /\ FailInv /\ EtagInv /\ DoneInv /\ BoundInv)'
    BY <2>1, <2>2 DEF IInv, SpawnInv, FailInv, EtagInv, DoneInv, BoundInv, Collected, Finished
  <2>5. QED
    BY <2>2, <2>3, <2>4 DEF IInv
<1>6. CASE ReleaseSlot(p)
  <2>1. /\ worker[p] = "release" /\ worker' = [worker EXCEPT ![p] = "wgdone"]
        /\ UNCHANGED <<main, next, wg, done, tries, etags, stored, failed>>
        /\ sem' = sem - 1
    BY <1>6 DEF ReleaseSlot
  <2>2. /\ worker' \in [Parts -> WorkerState]
        /\ worker'[p] = "wgdone" /\ \A q \in Parts \ {p} : worker'[q] = worker[q]
        /\ CountInv' /\ sem >= 1
    BY <1>0, <2>1, WorkerMoves DEF WorkerState, HoldingState, CountInv
  <2>3. TypeOK'
    BY <1>0, <2>1, <2>2 DEF TypeOK
  <2>4. (SpawnInv /\ FailInv /\ EtagInv /\ DoneInv /\ BoundInv)'
    BY <2>1, <2>2 DEF IInv, SpawnInv, FailInv, EtagInv, DoneInv, BoundInv, Collected, Finished
  <2>5. QED
    BY <2>2, <2>3, <2>4 DEF IInv
<1>7. CASE WgDone(p)
  <2>1. /\ worker[p] = "wgdone" /\ worker' = [worker EXCEPT ![p] = "exited"]
        /\ UNCHANGED <<main, next, sem, done, tries, etags, stored, failed>>
        /\ wg' = wg - 1
    BY <1>7 DEF WgDone
  <2>2. /\ worker' \in [Parts -> WorkerState]
        /\ worker'[p] = "exited" /\ \A q \in Parts \ {p} : worker'[q] = worker[q]
        /\ CountInv' /\ wg >= 1
    BY <1>0, <2>1, WorkerMoves DEF WorkerState, HoldingState, CountInv
  <2>3. TypeOK'
    BY <1>0, <2>1, <2>2 DEF TypeOK
  <2>4. (SpawnInv /\ FailInv /\ EtagInv /\ DoneInv /\ BoundInv)'
    BY <2>1, <2>2 DEF IInv, SpawnInv, FailInv, EtagInv, DoneInv, BoundInv, Collected, Finished
  <2>5. QED
    BY <2>2, <2>3, <2>4 DEF IInv
<1>8. QED
  BY <1>1, <1>2, <1>3, <1>4, <1>5, <1>6, <1>7 DEF Worker

LEMMA NextIInv == IInv /\ [Next]_vars => IInv'
<1> SUFFICES ASSUME IInv, [Next]_vars
             PROVE  IInv'
  OBVIOUS
<1> USE NAssumption, LimitAssumption
<1>0. TypeOK /\ CountInv
  BY DEF IInv
<1>1. CASE Spawn
  <2>1. /\ next \in Parts /\ worker' = [worker EXCEPT ![next] = "uploading"]
        /\ UNCHANGED <<main, wg, done, tries, etags, stored, failed>>
        /\ main = "loop" /\ sem' = sem + 1 /\ next' = next + 1 /\ sem < Limit
    BY <1>1 DEF Spawn, SlotFree
  <2>2. worker[next] = "none"
    BY <2>1 DEF IInv, SpawnInv, Parts
  <2>3. /\ worker' \in [Parts -> WorkerState]
        /\ worker'[next] = "uploading" /\ \A q \in Parts \ {next} : worker'[q] = worker[q]
        /\ CountInv'
    BY <1>0, <2>1, <2>2, WorkerMoves DEF WorkerState, HoldingState, CountInv
  <2>4. TypeOK'
    BY <1>0, <2>1, <2>3 DEF TypeOK, Parts
  <2>5. SpawnInv'
    BY <1>0, <2>1, <2>3 DEF IInv, SpawnInv, TypeOK, Parts
  <2>6. (FailInv /\ EtagInv /\ DoneInv /\ BoundInv)'
    BY <2>1, <2>2, <2>3 DEF IInv, FailInv, EtagInv, DoneInv, BoundInv, Collected, Finished
  <2>7. QED
    BY <2>3, <2>4, <2>5, <2>6 DEF IInv
<1>2. CASE LoopEnd
  <2>1. /\ main = "loop" /\ main' = "select" /\ next > N
        /\ UNCHANGED <<next, sem, wg, done, worker, tries, etags, stored, failed>>
    BY <1>2 DEF LoopEnd
  <2>2. TypeOK' /\ CountInv' /\ SpawnInv'
    BY <1>0, <2>1 DEF IInv, TypeOK, CountInv, SpawnInv, Holding, Running
  <2>3. (FailInv /\ EtagInv /\ DoneInv /\ BoundInv)'
    BY <2>1 DEF IInv, FailInv, EtagInv, DoneInv, BoundInv, Collected
  <2>4. QED
    BY <2>2, <2>3 DEF IInv
<1>3. CASE ReturnOk
  <2>1. /\ main = "select" /\ main' = "ok" /\ done
        /\ UNCHANGED <<next, sem, wg, done, worker, tries, etags, stored, failed>>
    BY <1>3 DEF ReturnOk
  <2>2. TypeOK' /\ CountInv' /\ SpawnInv'
    BY <1>0, <2>1 DEF IInv, TypeOK, CountInv, SpawnInv, Holding, Running
  <2>3. (FailInv /\ EtagInv /\ DoneInv /\ BoundInv)'
    BY <2>1 DEF IInv, FailInv, EtagInv, DoneInv, BoundInv, Collected
  <2>4. QED
    BY <2>2, <2>3 DEF IInv
<1>4. CASE CloseDone
  <2>1. /\ wg = 0 /\ done' = TRUE
        /\ UNCHANGED <<main, next, sem, wg, worker, tries, etags, stored, failed>>
    BY <1>4 DEF CloseDone
  <2>2. \A p \in Parts : worker[p] = "exited"
    <3>1. Running \subseteq Parts
      BY DEF Running
    <3>2. IsFiniteSet(Running)
      BY <3>1, PartsFinite, FS_Subset
    <3>3. Running = {}
      BY <1>0, <2>1, <3>2, FS_EmptySet DEF CountInv
    <3>4. QED
      BY <3>3 DEF Running
  <2>3. TypeOK' /\ CountInv' /\ SpawnInv'
    BY <1>0, <2>1 DEF IInv, TypeOK, CountInv, SpawnInv, Holding, Running
  <2>4. (FailInv /\ EtagInv /\ DoneInv /\ BoundInv)'
    BY <2>1, <2>2 DEF IInv, FailInv, EtagInv, DoneInv, BoundInv, Collected
  <2>5. QED
    BY <2>3, <2>4 DEF IInv
<1>5. CASE UNCHANGED vars
  BY <1>5 DEF vars, IInv, TypeOK, CountInv, SpawnInv, FailInv, EtagInv, DoneInv, BoundInv,
              Collected, Holding, Running
<1>6. QED
  BY <1>1, <1>2, <1>3, <1>4, <1>5, WorkerIInv DEF Next, Main, Returned

LEMMA IInvAlways == Spec => []IInv
  BY InitIInv, NextIInv, PTL DEF Spec

-----------------------------------------------------------------------------

\* Type correctness: the semaphore and the WaitGroup stay within their bounds.
THEOREM TypeCorrect == Spec => []TypeOK
<1>1. IInv => TypeOK
  BY DEF IInv
<1>2. QED
  BY <1>1, IInvAlways, PTL

\* At most Limit attempts are in flight, for any number of parts.
THEOREM UploadsAreBounded == Spec => []UploadsBounded
<1>1. IInv => UploadsBounded
  <2> SUFFICES ASSUME IInv
               PROVE  Cardinality(Uploading) <= Limit
    BY DEF UploadsBounded
  <2>1. Holding \subseteq Parts /\ Uploading \subseteq Holding
    BY DEF Holding, Uploading
  <2>2. IsFiniteSet(Holding)
    BY <2>1, PartsFinite, FS_Subset
  <2>3. IsFiniteSet(Uploading) /\ Cardinality(Uploading) <= Cardinality(Holding)
    BY <2>1, <2>2, FS_Subset
  <2>4. Cardinality(Uploading) \in Nat
    BY <2>3, FS_CardinalityType
  <2>5. QED
    BY <2>3, <2>4, LimitAssumption DEF IInv, CountInv, TypeOK
<1>2. QED
  BY <1>1, IInvAlways, PTL

\* Upload succeeds only with one etag for each part, each of them stored.
THEOREM SuccessMeansComplete == Spec => []SuccessIsComplete
<1>1. IInv => SuccessIsComplete
  <2> SUFFICES ASSUME IInv, main = "ok"
               PROVE  /\ stored = Parts
                      /\ \A p \in Parts :
                            \E i \in DOMAIN etags :
                                /\ etags[i] = p
                                /\ \A j \in DOMAIN etags : etags[j] = p => j = i
    BY DEF SuccessIsComplete
  <2>1. \A p \in Parts : worker[p] = "exited" /\ p \notin failed
    BY DEF IInv, DoneInv, FailInv, Finished
  <2>2. \A p \in Parts : Collected(p) /\ p \in stored
    BY <2>1 DEF IInv, EtagInv, Finished
  <2>3. QED
    BY <2>2 DEF IInv, EtagInv, Collected, TypeOK
<1>2. QED
  BY <1>1, IInvAlways, PTL

\* A failed part never counts as uploaded.
THEOREM FailuresAreReported == Spec => []FailureIsNotSuccess
<1>1. IInv => FailureIsNotSuccess
  BY DEF IInv, TypeOK, DoneInv, FailInv, EtagInv, FailureIsNotSuccess, Finished
<1>2. QED
  BY <1>1, IInvAlways, PTL

\* The loop is never stuck while fewer parts fail than there are slots, for any
\* number of parts and slots: the holders of the slots can not all be failures.
THEOREM NoWedgeBelowLimit ==
    ASSUME MaxFailures < Limit
    PROVE  Spec => []NoWedge
<1>1. IInv => NoWedge
  <2> SUFFICES ASSUME IInv, ~SlotFree, \A p \in Holding : worker[p] = "sending"
               PROVE  FALSE
    BY DEF NoWedge
  <2>1. Holding \subseteq failed /\ IsFiniteSet(failed)
    BY DEF IInv, FailInv, BoundInv, Holding
  <2>2. IsFiniteSet(Holding) /\ Cardinality(Holding) <= Cardinality(failed)
    BY <2>1, FS_Subset
  <2>3. Cardinality(Holding) \in Nat /\ Cardinality(failed) \in Nat
    BY <2>1, <2>2, FS_CardinalityType
  <2>4. Cardinality(Holding) >= Limit /\ Cardinality(failed) <= MaxFailures
    BY LimitAssumption DEF IInv, CountInv, TypeOK, BoundInv, SlotFree
  <2>5. QED
    BY <2>2, <2>3, <2>4, LimitAssumption, MaxFailuresAssumption, MaxFailures < Limit
<1>2. QED
  BY <1>1, IInvAlways, PTL

\* Once every slot is held by a goroutine that waits for its error to be taken, while
\* the loop still waits for a slot, nothing ever frees one: Upload does not return.
THEOREM WedgeIsForever == Spec => [](~NoWedge => []~NoWedge)
<1>1. TypeOK /\ ~NoWedge /\ [Next]_vars => (~NoWedge)'
  <2> SUFFICES ASSUME TypeOK, ~NoWedge, [Next]_vars
               PROVE  (~NoWedge)'
    OBVIOUS
  <2>1. /\ main = "loop" /\ next \in Parts /\ ~SlotFree
        /\ \A p \in Holding : worker[p] = "sending"
        /\ worker \in [Parts -> WorkerState]
    BY DEF NoWedge, TypeOK
  <2>2. ASSUME NEW p \in Parts, Worker(p)
        PROVE  worker[p] = "wgdone" /\ WgDone(p)
    <3>1. worker[p] \notin {"uploading", "collect", "release"}
      BY <2>1 DEF Holding
    <3>2. main = "loop"
      BY <2>1
    <3>3. QED
      BY <2>2, <3>1, <3>2
      DEF Worker, UploadOK, UploadRetry, UploadFails, AppendEtag, SendError, ReleaseSlot, WgDone
  <2>3. UNCHANGED <<main, next, sem>>
    BY <2>1, <2>2, NAssumption
    DEF Next, Main, Spawn, LoopEnd, ReturnOk, CloseDone, Returned, WgDone, Parts, vars
  <2>4. \A p \in Parts : worker'[p] = worker[p] \/ worker'[p] = "exited"
    BY <2>1, <2>2, NAssumption
    DEF Next, Main, Spawn, LoopEnd, ReturnOk, CloseDone, Returned, WgDone, Parts, vars
  <2>5. \A p \in Holding' : p \in Holding /\ worker'[p] = worker[p]
    BY <2>4 DEF Holding
  <2>6. QED
    BY <2>1, <2>3, <2>5 DEF NoWedge, SlotFree
<1>2. QED
  BY <1>1, TypeCorrect, PTL DEF Spec

-----------------------------------------------------------------------------
(* The refinement of PartTransfer *)

\* The steps that move nothing and answer nothing.
LEMMA Stutter ==
    ASSUME UNCHANGED <<main, etags, failed>>
    PROVE  UNCHANGED Abstract!vars
  BY DEF Abstract!vars, Moved, Collected

LEMMA UploadInProgress ==
    ASSUME IInv, NEW p \in Parts, worker[p] \in {"uploading", "collect"}
    PROVE  main # "ok" /\ p \notin Moved /\ p \notin failed
  BY DEF IInv, DoneInv, FailInv, EtagInv, Finished, Moved

LEMMA WorkerTransfers ==
    ASSUME IInv, NEW p \in Parts, Worker(p)
    PROVE  Abstract!Next \/ UNCHANGED Abstract!vars
<1>1. CASE UploadOK(p) \/ UploadRetry(p) \/ ReleaseSlot(p) \/ WgDone(p)
  BY <1>1, Stutter DEF UploadOK, UploadRetry, ReleaseSlot, WgDone
<1>2. CASE UploadFails(p)
  <2>1. Moved' = Moved /\ failed' = failed \cup {p} /\ main' = main
    BY <1>2 DEF UploadFails, Moved, Collected
  <2>2. Abstract!Break(p)
    BY <1>2, <2>1, UploadInProgress DEF UploadFails, Abstract!Break
  <2>3. QED
    BY <2>2 DEF Abstract!Next, Abstract!Transfer
<1>3. CASE AppendEtag(p)
  <2>1. Moved' = Moved \cup {p}
    <3>1. etags \in Seq(Parts) /\ etags' = Append(etags, p)
      BY <1>3 DEF AppendEtag, IInv, TypeOK
    <3>2. \A q \in Parts : Collected(q)' <=> Collected(q) \/ q = p
      BY <3>1 DEF Collected
    <3>3. QED
      BY <3>2 DEF Moved
  <2>2. Abstract!Move(p)
    BY <1>3, <2>1, UploadInProgress DEF AppendEtag, Abstract!Move
  <2>3. QED
    BY <2>2 DEF Abstract!Next, Abstract!Transfer
<1>4. CASE SendError(p)
  <2>1. p \in failed /\ Moved' = Moved
    BY <1>4 DEF SendError, IInv, FailInv, Moved, Collected
  <2>2. Abstract!Fail
    BY <1>4, <2>1 DEF SendError, Abstract!Fail
  <2>3. QED
    BY <2>2 DEF Abstract!Next, Abstract!Return
<1>5. QED
  BY <1>1, <1>2, <1>3, <1>4 DEF Worker

LEMMA StepTransfers ==
    ASSUME IInv, [Next]_vars
    PROVE  [Abstract!Next]_(Abstract!vars)
<1>1. CASE Spawn \/ CloseDone \/ UNCHANGED vars
  BY <1>1, Stutter DEF Spawn, CloseDone, vars
<1>2. CASE LoopEnd
  BY <1>2 DEF LoopEnd, Abstract!vars, Moved, Collected
<1>3. CASE ReturnOk
  <2>1. \A p \in Parts : worker[p] = "exited" /\ p \notin failed
    BY <1>3 DEF ReturnOk, IInv, DoneInv, FailInv, Finished
  <2>2. Moved = Parts /\ Moved' = Moved
    BY <1>3, <2>1 DEF ReturnOk, IInv, EtagInv, Finished, Moved, Collected
  <2>3. Abstract!Succeed
    BY <1>3, <2>2 DEF ReturnOk, Abstract!Succeed
  <2>4. QED
    BY <2>3 DEF Abstract!Next, Abstract!Return
<1>4. ASSUME NEW p \in Parts, Worker(p)
      PROVE  [Abstract!Next]_(Abstract!vars)
  BY <1>4, WorkerTransfers
<1>5. QED
  BY <1>1, <1>2, <1>3, <1>4 DEF Next, Main, Returned

\* Whatever the number of parts, slots and attempts, and however the goroutines
\* interleave, Upload behaves as the abstract transfer: it succeeds only when
\* every part has moved and fails only when one is broken.
THEOREM UploadImplementsTransfer == Spec => Abstract!Safety
<1>1. Init => Abstract!Init
  BY DEF Init, Abstract!Init, Moved, Collected
<1>2. IInv /\ [Next]_vars => [Abstract!Next]_(Abstract!vars)
  BY StepTransfers
<1>3. QED
  BY <1>1, <1>2, IInvAlways, PTL DEF Spec, Abstract!Safety

=============================================================================
