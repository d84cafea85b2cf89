------------------- MODULE LocalImageStorageBackend_proofs -------------------
(***************************************************************************)
(* Proofs about LocalImageStorageBackend for any set of producers, any     *)
(* bound of the queue and any number of frames and sessions.               *)
(***************************************************************************)
EXTENDS LocalImageStorageBackend, SequenceTheorems, TLAPS

Stages == {"idle", "name", "check", "push"}

\* Giving producer p a request, or taking it away, keeps held well typed.
LEMMA HeldUpdate ==
    ASSUME NEW p \in Producers, NEW s \in Seq(Requests),
           held \in [Producers -> Seq(Requests)],
           held' = [held EXCEPT ![p] = s]
    PROVE  /\ held' \in [Producers -> Seq(Requests)]
           /\ held'[p] = s
           /\ \A q \in Producers \ {p} : held'[q] = held[q]
  OBVIOUS

\* A producer's step moves one stage; what it holds agrees with its new stage.
LEMMA ProducerTypes ==
    ASSUME TypeOK, NEW p \in Producers, NEW from, NEW to \in Stages,
           ProducerStep(p, from, to),
           NEW s \in Seq(Requests), held' = [held EXCEPT ![p] = s],
           Len(s) = IF to = "idle" THEN 0 ELSE 1,
           frames' \in 0..MaxFrames,
           queue' \in Seq(Requests), Len(queue') <= MaxPending,
           accepted' \in Seq(Requests), dropped' \in Nat
    PROVE  TypeOK'
<1>1. /\ held' \in [Producers -> Seq(Requests)]
      /\ held'[p] = s
      /\ \A q \in Producers \ {p} : held'[q] = held[q]
  BY HeldUpdate DEF TypeOK
<1>2. /\ stage' \in [Producers -> Stages]
      /\ stage'[p] = to
      /\ \A q \in Producers \ {p} : stage'[q] = stage[q]
  BY DEF ProducerStep, Stages, TypeOK
<1>3. \A q \in Producers : Len(held'[q]) = IF stage'[q] = "idle" THEN 0 ELSE 1
  BY <1>1, <1>2 DEF TypeOK
<1>4. QED
  BY <1>1, <1>2, <1>3 DEF ProducerStep, TypeOK, session, counters, Stages

\* Type correctness.
THEOREM TypeCorrect == Spec => []TypeOK
<1>1. Init => TypeOK
  <2> SUFFICES ASSUME Init PROVE TypeOK
    OBVIOUS
  <2>1. <<>> \in Seq(Requests) /\ Len(<<>>) = 0
    BY EmptySeq
  <2>2. 0 \in 0..MaxFrames /\ 0 \in NoSession..MaxSessions /\ 0 <= MaxPending
    BY StorageAssumption DEF NoSession
  <2>3. /\ stage \in [Producers -> {"idle", "name", "check", "push"}]
        /\ held \in [Producers -> Seq(Requests)]
        /\ \A p \in Producers : stage[p] = "idle" /\ held[p] = <<>>
    BY <2>1 DEF Init
  <2>4. /\ queue = <<>> /\ writing = <<>> /\ accepted = <<>> /\ done = <<>>
        /\ Len(queue) <= MaxPending /\ Len(writing) <= 1
    BY <2>1, <2>2 DEF Init
  <2>5. \A p \in Producers : Len(held[p]) = IF stage[p] = "idle" THEN 0 ELSE 1
    BY <2>1, <2>3
  <2>6. control = "idle" /\ worker = "none" /\ frames = 0 /\ naming = 0
    BY DEF Init, NoSession
  <2>7. QED
    BY <2>1, <2>2, <2>3, <2>4, <2>5, <2>6 DEF Init, TypeOK, ControlStates, WorkerStates, NoSession
<1>2. TypeOK /\ [Next]_vars => TypeOK'
  <2> SUFFICES ASSUME TypeOK, [Next]_vars PROVE TypeOK'
    OBVIOUS
  <2> USE StorageAssumption DEF ControlStates, WorkerStates, session, counters, producers
  <2>1. CASE InitDirectory
    BY <2>1 DEF InitDirectory, TypeOK
  <2>2. CASE ConfigureSession
    BY <2>2 DEF ConfigureSession, TypeOK
  <2>3. CASE ConfigureAssigns
    BY <2>3 DEF ConfigureAssigns, TypeOK, NoSession
  <2>4. CASE Start
    BY <2>4 DEF Start, TypeOK
  <2>5. CASE StartSpawns
    BY <2>5 DEF StartSpawns, TypeOK
  <2>6. CASE Stop
    BY <2>6, LenProperties DEF Stop, TypeOK
  <2>7. CASE StopJoins
    BY <2>7 DEF StopJoins, TypeOK
  <2>8. CASE StopClears
    BY <2>8 DEF StopClears, TypeOK
  <2>9. ASSUME NEW p \in Producers, FrameArrives(p) PROVE TypeOK'
    <3>1. [id |-> frames + 1, session |-> NoSession] \in Requests
      BY <2>9 DEF FrameArrives, Requests, TypeOK, NoSession, Torn
    <3>2. frames + 1 \in 0..MaxFrames
      BY <2>9 DEF FrameArrives, TypeOK
    <3>3. <<[id |-> frames + 1, session |-> NoSession]>> \in Seq(Requests)
          /\ Len(<<[id |-> frames + 1, session |-> NoSession]>>) = 1
      BY <3>1
    <3>4. ProducerStep(p, "idle", "name") /\ frames' \in 0..MaxFrames
          /\ UNCHANGED <<queue, dropped, accepted>>
          /\ held' = [held EXCEPT ![p] = <<[id |-> frames + 1, session |-> NoSession]>>]
      BY <2>9, <3>2 DEF FrameArrives
    <3>5. QED
      BY <3>3, <3>4, ProducerTypes DEF TypeOK, Stages
  <2>10. ASSUME NEW p \in Producers, BuildPath(p) PROVE TypeOK'
    <3>1. PICK s \in ReadNaming \ {NoSession} : held' = [held EXCEPT ![p][1].session = s]
      BY <2>10 DEF BuildPath
    <3>2. s \in Torn..MaxSessions
      <4>1. naming \in 0..MaxSessions /\ (control = "assign" => naming < MaxSessions)
        BY DEF TypeOK, NoSession
      <4>2. s \in {naming, naming + 1, -1} /\ (s = naming + 1 => s = naming \/ control = "assign")
        BY <3>1, <4>1 DEF ReadNaming, Torn
      <4>3. MaxSessions \in Nat
        OBVIOUS
      <4>4. QED
        BY ONLY <4>1, <4>2, <4>3 DEF Torn
    <3>a. held[p] \in Seq(Requests) /\ Len(held[p]) = 1
      BY <2>10 DEF BuildPath, ProducerStep, TypeOK
    <3>3. held[p] \in Seq(Requests) /\ Len(held[p]) = 1 /\ held[p][1] \in Requests
      BY <3>a, ElementOfSeq
    <3>4. [held[p] EXCEPT ![1].session = s] \in Seq(Requests)
          /\ Len([held[p] EXCEPT ![1].session = s]) = 1
      <4>1. [held[p][1] EXCEPT !.session = s] \in Requests
        BY <3>2, <3>3 DEF Requests
      <4>2. QED
        BY <3>3, <4>1, ExceptSeq
    <3>5. held' = [held EXCEPT ![p] = [held[p] EXCEPT ![1].session = s]]
      BY <3>1
    <3>6. QED
      BY <2>10, <3>4, <3>5, ProducerTypes DEF BuildPath, TypeOK, Stages
  <2>11. ASSUME NEW p \in Producers, CheckRunning(p) PROVE TypeOK'
    <3>1. held[p] \in Seq(Requests) /\ Len(held[p]) = 1 /\ held' = [held EXCEPT ![p] = held[p]]
      BY <2>11 DEF CheckRunning, ProducerStep, TypeOK
    <3>2. QED
      BY <2>11, <3>1, ProducerTypes DEF CheckRunning, TypeOK, Stages
  <2>12. ASSUME NEW p \in Producers, Refuse(p) PROVE TypeOK'
    BY <2>12, EmptySeq, ProducerTypes DEF Refuse, TypeOK, Stages
  <2>13. ASSUME NEW p \in Producers, Push(p) PROVE TypeOK'
    <3>1. held[p] \in Seq(Requests) /\ Len(held[p]) = 1
      BY <2>13 DEF Push, ProducerStep, TypeOK
    <3>a. queue \in Seq(Requests) /\ accepted \in Seq(Requests) /\ Len(queue) \in Nat
      BY LenProperties DEF TypeOK
    <3>2. queue \o held[p] \in Seq(Requests) /\ Len(queue \o held[p]) = Len(queue) + 1
          /\ accepted \o held[p] \in Seq(Requests)
      <4>1. /\ queue \o held[p] \in Seq(Requests)
            /\ Len(queue \o held[p]) = Len(queue) + Len(held[p])
        BY <3>1, <3>a, ConcatProperties
      <4>2. accepted \o held[p] \in Seq(Requests)
        BY <3>1, <3>a, ConcatProperties
      <4>3. QED
        BY <3>1, <4>1, <4>2
    <3>3. queue' \in Seq(Requests) /\ Len(queue') <= MaxPending
          /\ accepted' \in Seq(Requests) /\ dropped' \in Nat
      <4>1. MaxPending \in Nat /\ dropped \in Nat /\ Len(queue) <= MaxPending
        BY DEF TypeOK
      <4>2. CASE Len(queue) >= MaxPending
        BY <2>13, <3>a, <4>1, <4>2 DEF Push
      <4>3. CASE ~(Len(queue) >= MaxPending)
        <5>1. /\ queue' = queue \o held[p] /\ accepted' = accepted \o held[p]
              /\ dropped' = dropped
          BY <2>13, <4>3 DEF Push
        <5>2. QED
          BY ONLY <3>a, <3>2, <4>1, <4>3, <5>1
      <4>4. QED
        BY <4>2, <4>3
    <3>4. QED
      BY <2>13, <3>3, EmptySeq, ProducerTypes DEF Push, TypeOK, Stages
  <2>14. CASE WorkerTakes
    <3>1. /\ Head(queue) \in Requests /\ Tail(queue) \in Seq(Requests)
          /\ Len(Tail(queue)) = Len(queue) - 1 /\ Len(queue) \in Nat
      BY <2>14, HeadTailProperties, LenProperties DEF WorkerTakes, TypeOK
    <3>2. <<Head(queue)>> \in Seq(Requests) /\ Len(<<Head(queue)>>) = 1
      BY <3>1
    <3>3. QED
      BY <2>14, <3>1, <3>2 DEF WorkerTakes, WorkerUnchanged, TypeOK
  <2>15. CASE WorkerWrites
    <3>1. done \o writing \in Seq(Requests) /\ <<>> \in Seq(Requests) /\ Len(<<>>) = 0
      BY ConcatProperties, EmptySeq DEF TypeOK
    <3>2. QED
      BY <2>15, <3>1 DEF WorkerWrites, WorkerUnchanged, TypeOK
  <2>16. CASE WorkerExits
    BY <2>16 DEF WorkerExits, WorkerUnchanged, TypeOK
  <2>17. CASE UNCHANGED vars
    BY <2>17 DEF vars, TypeOK
  <2>18. QED
    BY <2>1, <2>2, <2>3, <2>4, <2>5, <2>6, <2>7, <2>8, <2>9, <2>10, <2>11, <2>12, <2>13,
       <2>14, <2>15, <2>16, <2>17 DEF Next, ControlStep, EnqueueStep, WorkerStep
<1>3. QED
  BY <1>1, <1>2, PTL DEF Spec
-----------------------------------------------------------------------------
\* Which states of the control thread, of m_running and of the worker go
\* together.  The worker leaves only after stop() has triggered its token.
ControlInv ==
    /\ control \in {"idle", "assign"} => (running <=> worker # "none")
    /\ control = "assign" => ~running
    /\ control \in {"spawn", "join", "clear"} => running
    /\ control \in {"spawn", "clear"} => worker = "none"
    /\ control = "join" => worker # "none"
    /\ worker # "none" /\ stopRequested => control = "join"
    /\ worker = "finished" => control = "join"
    /\ Len(writing) = IF worker = "write" THEN 1 ELSE 0

LEMMA ControlInvariant == Spec => []ControlInv
<1>1. Init => ControlInv
  BY EmptySeq DEF Init, ControlInv
<1>2. TypeOK /\ ControlInv /\ [Next]_vars => ControlInv'
  <2> SUFFICES ASSUME TypeOK, ControlInv, [Next]_vars PROVE ControlInv'
    OBVIOUS
  <2> USE DEF ControlInv, session, counters, producers
  <2>1. CASE InitDirectory
    BY <2>1 DEF InitDirectory
  <2>2. CASE ConfigureSession
    BY <2>2 DEF ConfigureSession
  <2>3. CASE ConfigureAssigns
    BY <2>3 DEF ConfigureAssigns
  <2>4. CASE Start
    BY <2>4 DEF Start
  <2>5. CASE StartSpawns
    BY <2>5 DEF StartSpawns
  <2>6. CASE Stop
    BY <2>6 DEF Stop
  <2>7. CASE StopJoins
    BY <2>7 DEF StopJoins
  <2>8. CASE StopClears
    BY <2>8 DEF StopClears
  <2>9. ASSUME NEW p \in Producers, FrameArrives(p) \/ EnqueueStep(p) PROVE ControlInv'
    BY <2>9 DEF FrameArrives, EnqueueStep, BuildPath, CheckRunning, Refuse, Push, ProducerStep
  <2>10. CASE WorkerTakes
    <3>1. Len(<<Head(queue)>>) = 1
      OBVIOUS
    <3>2. QED
      BY <2>10, <3>1 DEF WorkerTakes, WorkerUnchanged
  <2>11. CASE WorkerWrites
    BY <2>11, EmptySeq DEF WorkerWrites, WorkerUnchanged
  <2>12. CASE WorkerExits
    BY <2>12 DEF WorkerExits, WorkerUnchanged
  <2>13. CASE UNCHANGED vars
    BY <2>13 DEF vars
  <2>14. QED
    BY <2>1, <2>2, <2>3, <2>4, <2>5, <2>6, <2>7, <2>8, <2>9, <2>10, <2>11, <2>12, <2>13
       DEF Next, ControlStep, WorkerStep
<1>3. QED
  BY <1>1, <1>2, TypeCorrect, PTL DEF Spec

\* While m_running is false there is no worker and no write in progress, so
\* configureSession() may change what the worker reads.
THEOREM NotRunningIsJoined == Spec => []NotRunningMeansJoined
<1>1. TypeOK /\ ControlInv => NotRunningMeansJoined
  <2> SUFFICES ASSUME TypeOK, ControlInv, ~running
               PROVE  worker = "none" /\ writing = <<>>
    BY DEF NotRunningMeansJoined
  <2>1. worker = "none"
    BY DEF ControlInv, TypeOK, ControlStates
  <2>2. writing \in Seq(Requests) /\ Len(writing) = 0
    BY <2>1 DEF ControlInv, TypeOK
  <2>3. QED
    BY <2>1, <2>2, EmptySeq
<1>2. QED
  BY <1>1, TypeCorrect, ControlInvariant, PTL
-----------------------------------------------------------------------------
\* Every step moves a request from one part of the accepted sequence to the
\* next one.  The worker exits with an empty queue, when everything accepted
\* until then is done, and nothing accepted later lowers the mark.
DrainInv ==
    /\ RequestsConserved
    /\ control = "join" => mark <= Len(accepted)
    /\ control = "join" /\ worker = "finished" => mark <= Len(done)
    /\ control = "clear" => mark <= Len(done)

LEMMA DrainInvariant == Spec => []DrainInv
<1>1. Init => DrainInv
  <2>1. (<<>> \o <<>>) \o <<>> = <<>> /\ Len(<<>>) = 0
    BY EmptySeq, ConcatEmptySeq
  <2>2. QED
    BY <2>1 DEF Init, DrainInv, RequestsConserved
<1>2. TypeOK /\ ControlInv /\ DrainInv /\ [Next]_vars => DrainInv'
  <2> SUFFICES ASSUME TypeOK, ControlInv, DrainInv, [Next]_vars PROVE DrainInv'
    OBVIOUS
  <2> USE DEF DrainInv, RequestsConserved, session, counters, producers
  <2>a. /\ done \in Seq(Requests) /\ writing \in Seq(Requests) /\ queue \in Seq(Requests)
        /\ accepted \in Seq(Requests) /\ done \o writing \in Seq(Requests)
        /\ Len(done) \in Nat /\ Len(accepted) \in Nat /\ mark \in Nat
    BY ConcatProperties, LenProperties DEF TypeOK
  <2>1. CASE InitDirectory
    BY <2>1 DEF InitDirectory
  <2>2. CASE ConfigureSession
    BY <2>2 DEF ConfigureSession
  <2>3. CASE ConfigureAssigns
    BY <2>3 DEF ConfigureAssigns
  <2>4. CASE Start
    BY <2>4 DEF Start
  <2>5. CASE StartSpawns
    BY <2>5 DEF StartSpawns
  <2>6. CASE Stop
    BY <2>6, <2>a DEF Stop, ControlInv
  <2>7. CASE StopJoins
    BY <2>7 DEF StopJoins
  <2>8. CASE StopClears
    BY <2>8 DEF StopClears
  <2>9. ASSUME NEW p \in Producers, FrameArrives(p) \/ BuildPath(p) \/ CheckRunning(p) \/ Refuse(p)
        PROVE  DrainInv'
    BY <2>9 DEF FrameArrives, BuildPath, CheckRunning, Refuse, ProducerStep
  <2>10. ASSUME NEW p \in Producers, Push(p) PROVE DrainInv'
    <3>1. UNCHANGED <<done, writing, successful, failed, control, worker, mark>>
      BY <2>10 DEF Push, ProducerStep
    <3>2. held[p] \in Seq(Requests)
      BY DEF TypeOK
    <3>3. CASE UNCHANGED <<queue, accepted>>
      BY <3>1, <3>3
    <3>4. CASE queue' = queue \o held[p] /\ accepted' = accepted \o held[p]
      <4>1. (done \o writing) \o (queue \o held[p]) = ((done \o writing) \o queue) \o held[p]
        <5>1. done \o writing \in Seq(Requests) /\ queue \in Seq(Requests) /\ held[p] \in Seq(Requests)
          BY <2>a, <3>2
        <5> DEFINE a == done \o writing
                   h == held[p]
        <5>2. a \in Seq(Requests) /\ queue \in Seq(Requests) /\ h \in Seq(Requests)
          BY ONLY <5>1
        <5> HIDE DEF a, h
        <5>3. a \o (queue \o h) = (a \o queue) \o h
          BY ONLY <5>2, ConcatAssociative
        <5>4. QED
          BY ONLY <5>3 DEF a, h
      <4>2. Len(accepted') = Len(accepted) + Len(held[p]) /\ Len(held[p]) \in Nat
        BY <2>a, <3>2, <3>4, ConcatProperties, LenProperties
      <4>3. accepted' = (done' \o writing') \o queue' /\ successful' + failed' = Len(done')
        BY <3>1, <3>4, <4>1
      <4>4. Len(accepted) <= Len(accepted')
        BY ONLY <2>a, <4>2
      <4>5. /\ control' = "join" => mark' <= Len(accepted')
            /\ control' = "join" /\ worker' = "finished" => mark' <= Len(done')
            /\ control' = "clear" => mark' <= Len(done')
        <5>a. control = "join" => mark <= Len(accepted)
          BY DEF DrainInv
        <5>b. Len(accepted') \in Nat
          BY ONLY <2>a, <4>2
        <5>1. control = "join" => mark <= Len(accepted')
          BY ONLY <5>a, <5>b, <2>a, <4>4
        <5>2. QED
          BY <3>1, <5>1
      <4>6. QED
        BY <4>3, <4>5
    <3>5. QED
      BY <2>10, <3>3, <3>4 DEF Push
  <2>11. CASE WorkerTakes
    <3>1. writing = <<>>
      BY <2>11, <2>a, EmptySeq DEF WorkerTakes, ControlInv
    <3>2. (done \o <<>>) \o queue = (done \o <<Head(queue)>>) \o Tail(queue)
      BY <2>11, <2>a DEF WorkerTakes
    <3>3. QED
      BY <2>11, <3>1, <3>2 DEF WorkerTakes, WorkerUnchanged
  <2>12. CASE WorkerWrites
    <3>1. (done \o writing) \o <<>> = done \o writing
      BY <2>a, ConcatEmptySeq
    <3>2. Len(writing) = 1 /\ Len(done \o writing) = Len(done) + Len(writing)
      BY <2>12, <2>a, ConcatProperties DEF WorkerWrites, ControlInv
    <3>3. successful' + failed' = successful + failed + 1
      BY <2>12 DEF WorkerWrites, TypeOK
    <3>4. /\ done' = done \o writing /\ writing' = <<>> /\ worker' = "wait"
          /\ UNCHANGED <<queue, accepted, control, mark>>
      BY <2>12 DEF WorkerWrites, WorkerUnchanged
    <3>5. accepted' = (done' \o writing') \o queue' /\ successful' + failed' = Len(done')
      BY <2>a, <3>1, <3>2, <3>3, <3>4
    <3>6. QED
      BY <2>12, <2>a, <3>2, <3>4, <3>5 DEF WorkerWrites, ControlInv
  <2>13. CASE WorkerExits
    <3>1. writing = <<>> /\ queue = <<>>
      BY <2>13, <2>a, EmptySeq DEF WorkerExits, ControlInv
    <3>2. accepted = done
      BY <2>a, <3>1, ConcatEmptySeq
    <3>3. QED
      BY <2>13, <3>1, <3>2 DEF WorkerExits, WorkerUnchanged
  <2>14. CASE UNCHANGED vars
    BY <2>14 DEF vars
  <2>15. QED
    BY <2>1, <2>2, <2>3, <2>4, <2>5, <2>6, <2>7, <2>8, <2>9, <2>10, <2>11, <2>12, <2>13,
       <2>14 DEF Next, ControlStep, EnqueueStep, WorkerStep
<1>3. QED
  BY <1>1, <1>2, TypeCorrect, ControlInvariant, PTL DEF Spec

\* No accepted frame is lost, written twice or overtaken, whatever is stopped
\* and restarted.
THEOREM Conservation == Spec => []RequestsConserved
  BY DrainInvariant, PTL DEF DrainInv

\* The backend and its worker stay together across any number of sessions: each
\* request has one place, and m_running covers the worker.
THEOREM BackendIsSound == Spec => []StorageInv
<1>1. TypeOK /\ RequestsConserved /\ NotRunningMeansJoined => StorageInv
  BY DEF StorageInv
<1>2. QED
  BY <1>1, TypeCorrect, Conservation, NotRunningIsJoined, PTL

\* stop() returns only when every frame accepted before it has been written.
THEOREM StopDrains == Spec => []StopDrainsEarlierFrames
<1>1. TypeOK /\ DrainInv => StopDrainsEarlierFrames
  BY LenProperties DEF TypeOK, DrainInv, StopDrainsEarlierFrames
<1>2. QED
  BY <1>1, TypeCorrect, DrainInvariant, PTL
=============================================================================
