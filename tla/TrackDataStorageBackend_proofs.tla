-------------------- MODULE TrackDataStorageBackend_proofs --------------------
(***************************************************************************)
(* Proofs about TrackDataStorageBackend for any set of producers, any      *)
(* bound of the queue and any number of events and sessions.               *)
(***************************************************************************)
EXTENDS TrackDataStorageBackend, SequenceTheorems, TLAPS

\* Which states of the control thread, of m_running and of the worker go
\* together.
ControlInv ==
    /\ control = "idle" => (running <=> worker # "none")
    /\ control \in {"spawn", "join", "clear"} => running
    /\ control \in {"spawn", "clear"} => worker = "none"
    /\ control = "join" => worker # "none"

LEMMA ControlInvariant == Spec => []ControlInv
<1>1. Init => ControlInv
  BY DEF Init, ControlInv
<1>2. ControlInv /\ [Next]_vars => ControlInv'
  <2> SUFFICES ASSUME ControlInv, [Next]_vars PROVE ControlInv'
    OBVIOUS
  <2> USE DEF ControlInv, session, counters, producers
  <2>1. CASE InitDirectory
    BY <2>1 DEF InitDirectory
  <2>2. CASE ConfigureSession
    BY <2>2 DEF ConfigureSession
  <2>3. CASE Start
    BY <2>3 DEF Start
  <2>4. CASE StartSpawns
    BY <2>4 DEF StartSpawns
  <2>5. CASE Stop
    BY <2>5 DEF Stop
  <2>6. CASE StopJoins
    BY <2>6 DEF StopJoins
  <2>7. CASE StopClears
    BY <2>7 DEF StopClears
  <2>8. ASSUME NEW p \in Producers, EventArrives(p) \/ EnqueueStep(p) PROVE ControlInv'
    BY <2>8 DEF EventArrives, EnqueueStep, CheckRunning, Refuse, NothingToStore, Push,
                ProducerStep
  <2>9. CASE WorkerStep
    BY <2>9 DEF WorkerStep, WorkerTakes, WorkerWrites, WorkerExits, WorkerUnchanged
  <2>10. CASE UNCHANGED vars
    BY <2>10 DEF vars
  <2>11. QED
    BY <2>1, <2>2, <2>3, <2>4, <2>5, <2>6, <2>7, <2>8, <2>9, <2>10 DEF Next, ControlStep
<1>3. QED
  BY <1>1, <1>2, PTL DEF Spec
-----------------------------------------------------------------------------
\* A batch that is queued is well typed.
LEMMA NewBatchType == TypeOK => NewBatch \in Batches
  BY LenProperties DEF TypeOK, NewBatch, Batches, Attended

\* Type correctness; the queue of batches never exceeds its bound.
THEOREM TypeCorrect == Spec => []TypeOK
<1>1. Init => TypeOK
  <2> SUFFICES ASSUME Init PROVE TypeOK
    OBVIOUS
  <2>1. <<>> \in Seq(Batches) /\ <<>> \in Seq(Writes) /\ Len(<<>>) = 0
    BY EmptySeq
  <2>2. 0 \in 0..MaxSessions /\ 0 \in 0..MaxEvents /\ 0 <= MaxPending
    BY StorageAssumption
  <2>3. writing = <<>> /\ Len(writing) = 0 /\ worker = "none"
    BY <2>1 DEF Init
  <2>4. stage \in [Producers -> {"idle", "check", "build"}]
    BY DEF Init
  <2>5. Len(queue) = 0 /\ Len(queue) <= MaxPending
    BY <2>1, <2>2 DEF Init
  <2>6. QED
    BY <2>1, <2>2, <2>3, <2>4, <2>5 DEF Init, TypeOK, ControlStates, WorkerStates, DefaultFile
<1>2. TypeOK /\ ControlInv /\ [Next]_vars => TypeOK'
  <2> SUFFICES ASSUME TypeOK, ControlInv, [Next]_vars PROVE TypeOK'
    OBVIOUS
  <2> USE StorageAssumption DEF ControlStates, WorkerStates, session, counters, producers
  <2>1. CASE InitDirectory
    BY <2>1 DEF InitDirectory, TypeOK
  <2>2. CASE ConfigureSession
    BY <2>2 DEF ConfigureSession, TypeOK, DefaultFile
  <2>3. CASE Start
    BY <2>3 DEF Start, TypeOK
  <2>4. CASE StartSpawns
    BY <2>4 DEF StartSpawns, TypeOK, ControlInv
  <2>5. CASE Stop
    BY <2>5 DEF Stop, TypeOK
  <2>6. CASE StopJoins
    BY <2>6 DEF StopJoins, TypeOK
  <2>7. CASE StopClears
    BY <2>7 DEF StopClears, TypeOK
  <2>8. ASSUME NEW p \in Producers, EventArrives(p) PROVE TypeOK'
    BY <2>8 DEF EventArrives, ProducerStep, TypeOK
  <2>9. ASSUME NEW p \in Producers, CheckRunning(p) \/ Refuse(p) \/ NothingToStore(p)
        PROVE  TypeOK'
    BY <2>9 DEF CheckRunning, Refuse, NothingToStore, ProducerStep, TypeOK
  <2>10. ASSUME NEW p \in Producers, Push(p) PROVE TypeOK'
    <3>1. /\ queue \in Seq(Batches) /\ accepted \in Seq(Batches) /\ NewBatch \in Batches
          /\ Len(queue) \in Nat /\ MaxPending \in Nat /\ Len(queue) <= MaxPending
          /\ dropped \in Nat
      BY NewBatchType, LenProperties DEF TypeOK
    <3>2. /\ Append(queue, NewBatch) \in Seq(Batches)
          /\ Append(accepted, NewBatch) \in Seq(Batches)
          /\ Len(Append(queue, NewBatch)) = Len(queue) + 1
      BY <3>1, AppendProperties
    <3>3. queue' \in Seq(Batches) /\ Len(queue') <= MaxPending
          /\ accepted' \in Seq(Batches) /\ dropped' \in Nat
      <4>1. CASE Len(queue) >= MaxPending
        <5>1. dropped' = dropped + 1 /\ queue' = queue /\ accepted' = accepted
          BY <2>10, <4>1 DEF Push
        <5>2. QED
          BY <3>1, <5>1
      <4>2. CASE ~(Len(queue) >= MaxPending)
        <5>1. /\ queue' = Append(queue, NewBatch) /\ accepted' = Append(accepted, NewBatch)
              /\ dropped' = dropped
          BY <2>10, <4>2 DEF Push
        <5>2. QED
          BY ONLY <3>1, <3>2, <4>2, <5>1
      <4>3. QED
        BY <4>1, <4>2
    <3>4. QED
      BY <2>10, <3>3 DEF Push, ProducerStep, TypeOK
  <2>11. CASE WorkerTakes
    <3>1. /\ Head(queue) \in Batches /\ Tail(queue) \in Seq(Batches)
          /\ Len(Tail(queue)) = Len(queue) - 1 /\ Len(queue) \in Nat
      BY <2>11, HeadTailProperties, LenProperties DEF WorkerTakes, TypeOK
    <3>2. <<Head(queue)>> \in Seq(Batches) /\ Len(<<Head(queue)>>) = 1
      BY <3>1
    <3>3. QED
      BY <2>11, <3>1, <3>2 DEF WorkerTakes, WorkerUnchanged, TypeOK
  <2>12. CASE WorkerWrites
    <3>a. writing \in Seq(Batches) /\ Len(writing) = 1
      BY <2>12 DEF WorkerWrites, TypeOK
    <3>1. writing[1] \in Batches
      BY ONLY <3>a, ElementOfSeq
    <3>2. [batch |-> writing[1], file |-> outputPath] \in Writes
      BY <3>1 DEF TypeOK, Writes
    <3>3. done' \in Seq(Writes)
      BY <2>12, <3>2, AppendProperties DEF WorkerWrites, TypeOK
    <3>4. <<>> \in Seq(Batches) /\ Len(<<>>) = 0
      BY EmptySeq
    <3>5. QED
      BY <2>12, <3>3, <3>4 DEF WorkerWrites, WorkerUnchanged, TypeOK
  <2>13. CASE WorkerExits
    BY <2>13 DEF WorkerExits, WorkerUnchanged, TypeOK
  <2>14. CASE UNCHANGED vars
    BY <2>14 DEF vars, TypeOK
  <2>15. QED
    BY <2>1, <2>2, <2>3, <2>4, <2>5, <2>6, <2>7, <2>8, <2>9, <2>10, <2>11, <2>12, <2>13,
       <2>14 DEF Next, ControlStep, EnqueueStep, WorkerStep
<1>3. QED
  BY <1>1, <1>2, ControlInvariant, PTL DEF Spec

\* Nothing but configureSession() assigns the path: no event, no producer and no
\* worker does, and neither start() nor stop().
LEMMA PathIsConfigured ==
    ASSUME [Next]_vars, outputPath' # outputPath
    PROVE  ConfigureSession
<1> USE DEF session, counters, producers
<1>1. UNCHANGED vars => outputPath' = outputPath
  BY DEF vars
<1>2. WorkerStep => outputPath' = outputPath
  BY DEF WorkerStep, WorkerTakes, WorkerWrites, WorkerExits, WorkerUnchanged
<1>3. \A p \in Producers : EventArrives(p) \/ EnqueueStep(p) => outputPath' = outputPath
  BY DEF EventArrives, EnqueueStep, CheckRunning, Refuse, NothingToStore, Push, ProducerStep
<1>4. InitDirectory \/ Start \/ Stop \/ ControlStep => outputPath' = outputPath
  BY DEF InitDirectory, Start, Stop, ControlStep, StartSpawns, StopJoins, StopClears
<1>5. QED
  BY <1>1, <1>2, <1>3, <1>4 DEF Next

\* configureSession() changes the path only while no worker could read it.
THEOREM PathChangesOnlyAlone == Spec => PathChangesAlone
<1>1. ControlInv /\ ConfigureSession => worker = "none" /\ ~running
  BY DEF ConfigureSession, ControlInv
<1>2. ControlInv /\ [Next]_vars => (outputPath' # outputPath => worker = "none" /\ ~running)
  BY <1>1, PathIsConfigured
<1>3. QED
  BY <1>2, ControlInvariant, PTL DEF Spec, PathChangesAlone
-----------------------------------------------------------------------------
\* The batches of the writes that ended form a sequence.
LEMMA DoneBatchesType ==
    ASSUME TypeOK
    PROVE  DoneBatches \in Seq(Batches) /\ Len(DoneBatches) = Len(done)
<1>1. done \in Seq(Writes) /\ Len(done) \in Nat /\ DOMAIN done = 1..Len(done)
  BY LenProperties DEF TypeOK
<1>2. \A i \in 1..Len(done) : done[i].batch \in Batches
  <2>1. \A i \in 1..Len(done) : done[i] \in Writes
    BY <1>1, ElementOfSeq
  <2>2. QED
    BY <2>1 DEF Writes
<1>3. DoneBatches \in [1..Len(done) -> Batches]
  BY <1>1, <1>2 DEF DoneBatches
<1>4. QED
  BY ONLY <1>1, <1>3, SeqDef

\* A write that ends moves its batch to the end of those batches.
LEMMA WriteAppends ==
    ASSUME TypeOK, WorkerWrites
    PROVE  DoneBatches' = DoneBatches \o writing
<1>1. done \in Seq(Writes) /\ Len(done) \in Nat /\ DOMAIN done = 1..Len(done)
  BY LenProperties DEF TypeOK
<1>2. writing \in Seq(Batches) /\ Len(writing) = 1
  BY DEF TypeOK, WorkerWrites
<1> DEFINE w == [batch |-> writing[1], file |-> outputPath]
<1>3. w \in Writes /\ w.batch = writing[1]
  <2>1. writing[1] \in Batches
    BY ONLY <1>2, ElementOfSeq
  <2>2. QED
    BY <2>1 DEF TypeOK, Writes
<1>4. done' = Append(done, w)
  BY DEF WorkerWrites
<1> HIDE DEF w
<1>5. /\ done' \in Seq(Writes) /\ Len(done') = Len(done) + 1
      /\ DOMAIN done' = 1..(Len(done) + 1)
      /\ \A i \in 1..Len(done) : done'[i] = done[i]
      /\ done'[Len(done) + 1] = w
  BY ONLY <1>1, <1>3, <1>4, AppendProperties, LenProperties
<1>6. DoneBatches \in Seq(Batches) /\ Len(DoneBatches) = Len(done)
  BY DoneBatchesType
<1>7. /\ DoneBatches \o writing \in Seq(Batches)
      /\ Len(DoneBatches \o writing) = Len(done) + 1
      /\ \A i \in 1..(Len(done) + 1) : (DoneBatches \o writing)[i] =
            IF i <= Len(done) THEN DoneBatches[i] ELSE writing[i - Len(done)]
  <2> DEFINE d == DoneBatches
             n == Len(done)
  <2>1. d \in Seq(Batches) /\ Len(d) = n /\ n \in Nat
    BY ONLY <1>1, <1>6
  <2> HIDE DEF d, n
  <2>2. /\ d \o writing \in Seq(Batches)
        /\ Len(d \o writing) = n + 1
        /\ \A i \in 1..(n + 1) : (d \o writing)[i] =
              IF i <= n THEN d[i] ELSE writing[i - n]
    <3>1. /\ d \o writing \in Seq(Batches)
          /\ Len(d \o writing) = Len(d) + Len(writing)
          /\ \A i \in 1..(Len(d) + Len(writing)) : (d \o writing)[i] =
                IF i <= Len(d) THEN d[i] ELSE writing[i - Len(d)]
      BY ONLY <1>2, <2>1, ConcatProperties
    <3>2. QED
      BY ONLY <1>2, <2>1, <3>1
  <2>3. QED
    BY ONLY <2>2 DEF d, n
<1>8. DoneBatches' = [i \in 1..(Len(done) + 1) |-> done'[i].batch]
  BY <1>5 DEF DoneBatches
<1>9. \A i \in 1..(Len(done) + 1) : DoneBatches'[i] = (DoneBatches \o writing)[i]
  <2> SUFFICES ASSUME NEW i \in 1..(Len(done) + 1)
               PROVE  DoneBatches'[i] = (DoneBatches \o writing)[i]
    OBVIOUS
  <2>1. CASE i <= Len(done)
    <3>1. i \in 1..Len(done)
      BY ONLY <1>1, <2>1, i \in 1..(Len(done) + 1)
    <3>2. DoneBatches[i] = done[i].batch
      BY <1>1, <3>1 DEF DoneBatches
    <3>3. QED
      BY ONLY <1>5, <1>7, <1>8, <2>1, <3>1, <3>2
  <2>2. CASE ~(i <= Len(done))
    <3>1. i = Len(done) + 1
      BY ONLY <1>1, <2>2, i \in 1..(Len(done) + 1)
    <3>2. QED
      BY ONLY <1>1, <1>3, <1>5, <1>7, <1>8, <2>2, <3>1
  <2>3. QED
    BY <2>1, <2>2
<1>10. DoneBatches' \in [1..(Len(done) + 1) -> Batches]
       /\ DoneBatches \o writing \in [1..(Len(done) + 1) -> Batches]
  <2>1. DoneBatches \o writing \in [1..(Len(done) + 1) -> Batches]
    BY ONLY <1>7, LenProperties
  <2>2. QED
    BY ONLY <1>8, <1>9, <2>1
<1> DEFINE f == DoneBatches'
           g == DoneBatches \o writing
<1>11. /\ f \in [1..(Len(done) + 1) -> Batches]
       /\ g \in [1..(Len(done) + 1) -> Batches]
       /\ \A i \in 1..(Len(done) + 1) : f[i] = g[i]
  BY ONLY <1>9, <1>10
<1> HIDE DEF f, g
<1>12. f = g
  BY ONLY <1>11
<1>13. QED
  BY ONLY <1>12 DEF f, g

\* No batch is lost, written twice or overtaken across stops and restarts.
THEOREM Conservation == Spec => []BatchesConserved
<1>1. Init => BatchesConserved
  <2> SUFFICES ASSUME Init PROVE BatchesConserved
    OBVIOUS
  <2>1. done = <<>> /\ accepted = <<>> /\ writing = <<>> /\ queue = <<>> /\ DOMAIN done = {}
    BY EmptySeq DEF Init
  <2>2. DoneBatches = <<>>
    BY <2>1 DEF DoneBatches
  <2>3. (<<>> \o <<>>) \o <<>> = <<>>
    BY EmptySeq, ConcatEmptySeq
  <2>4. QED
    BY <2>1, <2>2, <2>3 DEF BatchesConserved
<1>2. TypeOK /\ BatchesConserved /\ [Next]_vars => BatchesConserved'
  <2> SUFFICES ASSUME TypeOK, BatchesConserved, [Next]_vars PROVE BatchesConserved'
    OBVIOUS
  <2> USE DEF session, counters, producers
  <2>a. /\ DoneBatches \in Seq(Batches) /\ writing \in Seq(Batches) /\ queue \in Seq(Batches)
        /\ DoneBatches \o writing \in Seq(Batches) /\ NewBatch \in Batches
    <3>1. DoneBatches \in Seq(Batches) /\ writing \in Seq(Batches) /\ queue \in Seq(Batches)
      BY DoneBatchesType DEF TypeOK
    <3>2. QED
      BY <3>1, NewBatchType, ConcatProperties
  <2>1. CASE UNCHANGED <<done, writing, queue, accepted>>
    BY <2>1 DEF BatchesConserved, DoneBatches
  <2>2. ASSUME NEW p \in Producers, Push(p) PROVE BatchesConserved'
    <3>1. CASE UNCHANGED <<queue, accepted>>
      BY <2>1, <2>2, <3>1 DEF Push, ProducerStep
    <3>2. CASE queue' = Append(queue, NewBatch) /\ accepted' = Append(accepted, NewBatch)
      <4>1. DoneBatches' = DoneBatches /\ writing' = writing
        BY <2>2 DEF Push, ProducerStep, DoneBatches
      <4>2. accepted = (DoneBatches \o writing) \o queue
        BY DEF BatchesConserved
      <4> DEFINE n == NewBatch
                 d == DoneBatches \o writing
      <4>3. n \in Batches /\ d \in Seq(Batches) /\ queue \in Seq(Batches)
        BY ONLY <2>a
      <4> HIDE DEF n, d
      <4>4. d \o Append(queue, n) = Append(d \o queue, n)
        BY ONLY <4>3, ConcatAssociative, AppendIsConcat, ConcatProperties
      <4>5. QED
        BY <3>2, <4>1, <4>2, <4>4 DEF n, d, BatchesConserved
    <3>3. QED
      BY <2>2, <3>1, <3>2 DEF Push
  <2>3. CASE WorkerTakes
    <3>1. writing = <<>>
      BY <2>3, <2>a, EmptySeq DEF WorkerTakes, TypeOK
    <3>2. (DoneBatches \o <<>>) \o queue = (DoneBatches \o <<Head(queue)>>) \o Tail(queue)
      BY <2>3, <2>a DEF WorkerTakes
    <3>3. QED
      BY <2>3, <3>1, <3>2 DEF WorkerTakes, WorkerUnchanged, BatchesConserved, DoneBatches
  <2>4. CASE WorkerWrites
    <3>1. DoneBatches' = DoneBatches \o writing /\ writing' = <<>>
          /\ UNCHANGED <<queue, accepted>>
      BY <2>4, WriteAppends DEF WorkerWrites, WorkerUnchanged
    <3>2. (DoneBatches \o writing) \o <<>> = DoneBatches \o writing
      BY <2>a, ConcatEmptySeq
    <3>3. QED
      BY <3>1, <3>2 DEF BatchesConserved
  <2>5. ASSUME NEW p \in Producers,
               EventArrives(p) \/ CheckRunning(p) \/ Refuse(p) \/ NothingToStore(p)
        PROVE  BatchesConserved'
    BY <2>1, <2>5 DEF EventArrives, CheckRunning, Refuse, NothingToStore, ProducerStep
  <2>6. CASE InitDirectory \/ ConfigureSession \/ Start \/ Stop \/ ControlStep
    BY <2>1, <2>6 DEF InitDirectory, ConfigureSession, Start, Stop, ControlStep, StartSpawns,
                      StopJoins, StopClears
  <2>7. CASE WorkerExits
    BY <2>1, <2>7 DEF WorkerExits, WorkerUnchanged
  <2>8. CASE UNCHANGED vars
    BY <2>1, <2>8 DEF vars
  <2>9. QED
    BY <2>2, <2>3, <2>4, <2>5, <2>6, <2>7, <2>8 DEF Next, EnqueueStep, WorkerStep
<1>3. QED
  BY <1>1, <1>2, TypeCorrect, PTL DEF Spec

\* The backend and its worker stay together, and each batch has one place, across
\* any number of sessions.
THEOREM BackendIsSound == Spec => []QueueInv
<1>1. TypeOK /\ BatchesConserved => QueueInv
  BY DEF QueueInv
<1>2. QED
  BY <1>1, TypeCorrect, Conservation, PTL
-----------------------------------------------------------------------------
\* A batch queued under a live worker belongs to the file chosen now, for as
\* long as it waits; what waits when no worker is left was queued without one.
Settled(b) == b.unattended \/ b.session = outputPath

FileInv ==
    /\ worker \in {"none", "finished"} => \A i \in DOMAIN queue : queue[i].unattended
    /\ \A i \in DOMAIN queue : Settled(queue[i])
    /\ \A i \in DOMAIN writing : Settled(writing[i])
    /\ AttendedBatchKeepsItsFile

LEMMA FileInvariant == Spec => []FileInv
<1>1. Init => FileInv
  <2> SUFFICES ASSUME Init PROVE FileInv
    OBVIOUS
  <2>1. queue = <<>> /\ writing = <<>> /\ done = <<>>
    BY DEF Init
  <2>2. DOMAIN queue = {} /\ DOMAIN writing = {} /\ DOMAIN done = {}
    BY <2>1
  <2>3. QED
    BY <2>2 DEF FileInv, AttendedBatchKeepsItsFile
<1>2. TypeOK /\ ControlInv /\ FileInv /\ [Next]_vars => FileInv'
  <2> SUFFICES ASSUME TypeOK, ControlInv, FileInv, [Next]_vars PROVE FileInv'
    OBVIOUS
  <2> USE DEF session, counters, producers
  <2>1. CASE UNCHANGED <<done, writing, queue, outputPath, worker>>
    BY <2>1 DEF FileInv, AttendedBatchKeepsItsFile, Settled
  <2>2. CASE InitDirectory \/ Start \/ Stop \/ StopClears
    BY <2>1, <2>2 DEF InitDirectory, Start, Stop, StopClears
  <2>3. CASE ConfigureSession
    <3>1. worker = "none" /\ UNCHANGED <<done, writing, queue, worker>>
      BY <2>3 DEF ConfigureSession, ControlInv
    <3>2. \A i \in DOMAIN queue : queue[i].unattended
      BY <3>1 DEF FileInv
    <3>3. DOMAIN writing = {}
      <4>1. writing \in Seq(Batches) /\ Len(writing) = 0
        BY <3>1 DEF TypeOK
      <4>2. QED
        BY ONLY <4>1, LenProperties
    <3>4. QED
      BY <3>1, <3>2, <3>3 DEF FileInv, AttendedBatchKeepsItsFile, Settled
  <2>4. CASE StartSpawns \/ StopJoins
    <3>1. worker \in {"none", "finished"} /\ UNCHANGED <<done, writing, queue, outputPath>>
      BY <2>4 DEF StartSpawns, StopJoins, ControlInv
    <3>2. QED
      BY <3>1 DEF FileInv, AttendedBatchKeepsItsFile, Settled
  <2>5. ASSUME NEW p \in Producers,
               EventArrives(p) \/ CheckRunning(p) \/ Refuse(p) \/ NothingToStore(p)
        PROVE  FileInv'
    BY <2>1, <2>5 DEF EventArrives, CheckRunning, Refuse, NothingToStore, ProducerStep
  <2>6. ASSUME NEW p \in Producers, Push(p) PROVE FileInv'
    <3>1. UNCHANGED <<done, writing, outputPath, worker>>
      BY <2>6 DEF Push, ProducerStep
    <3>2. CASE queue' = queue
      BY <2>1, <3>1, <3>2
    <3>3. CASE queue' = Append(queue, NewBatch)
      <4> DEFINE n == NewBatch
      <4>1. n \in Batches /\ n.session = outputPath /\ n.unattended = ~Attended
        BY NewBatchType DEF NewBatch
      <4>2. worker \in {"none", "finished"} => n.unattended
        BY <4>1 DEF Attended
      <4> HIDE DEF n
      <4>3. queue \in Seq(Batches) /\ Len(queue) \in Nat /\ DOMAIN queue = 1..Len(queue)
        BY LenProperties DEF TypeOK
      <4>4. /\ DOMAIN queue' = 1..(Len(queue) + 1)
            /\ \A i \in 1..Len(queue) : queue'[i] = queue[i]
            /\ queue'[Len(queue) + 1] = n
        <5>1. queue' = Append(queue, n)
          BY <3>3 DEF n
        <5>2. QED
          BY ONLY <4>1, <4>3, <5>1, AppendProperties, LenProperties
      <4>5. \A i \in DOMAIN queue' : (i \in DOMAIN queue /\ queue'[i] = queue[i]) \/ queue'[i] = n
        BY ONLY <4>3, <4>4
      <4>6. worker' \in {"none", "finished"} => \A i \in DOMAIN queue' : queue'[i].unattended
        BY <3>1, <4>2, <4>5 DEF FileInv
      <4>7. \A i \in DOMAIN queue' : queue'[i].unattended \/ queue'[i].session = outputPath'
        BY <3>1, <4>1, <4>5 DEF FileInv, Settled
      <4>8. QED
        BY <3>1, <4>6, <4>7 DEF FileInv, AttendedBatchKeepsItsFile, Settled
    <3>4. QED
      BY <2>6, <3>2, <3>3 DEF Push
  <2>7. CASE WorkerTakes
    <3>1. queue \in Seq(Batches) /\ queue # <<>> /\ Len(queue) \in Nat /\ Len(queue) > 0
      BY <2>7, LenProperties, EmptySeq DEF WorkerTakes, TypeOK
    <3>2. /\ Tail(queue) \in Seq(Batches) /\ Len(Tail(queue)) = Len(queue) - 1
          /\ \A i \in 1..Len(Tail(queue)) : Tail(queue)[i] = queue[i + 1]
          /\ DOMAIN Tail(queue) = 1..Len(Tail(queue)) /\ DOMAIN queue = 1..Len(queue)
      BY ONLY <3>1, HeadTailProperties, LenProperties
    <3>3. \A i \in DOMAIN Tail(queue) : i + 1 \in DOMAIN queue /\ Tail(queue)[i] = queue[i + 1]
      BY ONLY <3>1, <3>2
    <3>4. Head(queue) = queue[1] /\ 1 \in DOMAIN queue
      BY ONLY <3>1, <3>2
    <3>5. /\ writing' = <<Head(queue)>> /\ queue' = Tail(queue) /\ worker' = "write"
          /\ UNCHANGED <<done, outputPath>>
      BY <2>7 DEF WorkerTakes, WorkerUnchanged
    <3>6. \A i \in DOMAIN writing' : writing'[i] = queue[1]
      BY <3>4, <3>5
    <3>7. QED
      BY <3>3, <3>4, <3>5, <3>6 DEF FileInv, AttendedBatchKeepsItsFile, Settled
  <2>8. CASE WorkerWrites
    <3>1. writing \in Seq(Batches) /\ Len(writing) = 1 /\ 1 \in DOMAIN writing
      BY <2>8, LenProperties DEF WorkerWrites, TypeOK
    <3>2. Settled(writing[1])
      BY <3>1 DEF FileInv
    <3> DEFINE w == [batch |-> writing[1], file |-> outputPath]
    <3>3. w \in Writes /\ (w.file # w.batch.session => w.batch.unattended)
      <4>1. writing[1] \in Batches
        BY ONLY <3>1, ElementOfSeq
      <4>2. QED
        BY <3>2, <4>1 DEF TypeOK, Writes, Settled
    <3>4. /\ done' = Append(done, w) /\ writing' = <<>> /\ worker' = "wait"
          /\ UNCHANGED <<queue, outputPath>>
      BY <2>8 DEF WorkerWrites, WorkerUnchanged
    <3> HIDE DEF w
    <3>5. done \in Seq(Writes) /\ Len(done) \in Nat /\ DOMAIN done = 1..Len(done)
      BY LenProperties DEF TypeOK
    <3>6. \A i \in DOMAIN done' : (i \in DOMAIN done /\ done'[i] = done[i]) \/ done'[i] = w
      <4>1. /\ DOMAIN done' = 1..(Len(done) + 1)
            /\ \A i \in 1..Len(done) : done'[i] = done[i]
            /\ done'[Len(done) + 1] = w
        BY ONLY <3>3, <3>4, <3>5, AppendProperties, LenProperties
      <4>2. QED
        BY ONLY <3>5, <4>1
    <3>7. AttendedBatchKeepsItsFile'
      BY <3>3, <3>6 DEF FileInv, AttendedBatchKeepsItsFile
    <3>8. DOMAIN writing' = {}
      BY <3>4
    <3>9. QED
      BY <3>4, <3>7, <3>8 DEF FileInv, Settled
  <2>9. CASE WorkerExits
    <3>1. DOMAIN queue = {}
      BY <2>9 DEF WorkerExits
    <3>2. QED
      BY <2>9, <3>1 DEF WorkerExits, WorkerUnchanged, FileInv, AttendedBatchKeepsItsFile, Settled
  <2>10. CASE UNCHANGED vars
    BY <2>1, <2>10 DEF vars
  <2>11. QED
    BY <2>2, <2>3, <2>4, <2>5, <2>6, <2>7, <2>8, <2>9, <2>10
       DEF Next, ControlStep, EnqueueStep, WorkerStep
<1>3. QED
  BY <1>1, <1>2, TypeCorrect, ControlInvariant, PTL DEF Spec

\* Batches queued while a worker is alive never reach another session's file.
THEOREM AttendedBatchesKeepTheirFile == Spec => []AttendedBatchKeepsItsFile
  BY FileInvariant, PTL DEF FileInv
=============================================================================
