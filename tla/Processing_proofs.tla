-------------------------- MODULE Processing_proofs --------------------------
(***************************************************************************)
(* Proofs about the processing thread and the strategies that it runs.     *)
(*                                                                         *)
(* ImageProcessor, for every capacity of the frame channel and every       *)
(* number of frames and sessions: what the thread publishes, and in which  *)
(* order the tracker sees the frames.                                      *)
(*                                                                         *)
(* Trackers, for every size of the image, every choice of blobs and every  *)
(* limit of the strategies: the stage of a strategy and its targets agree, *)
(* what a target measured was in the frames, an object that crosses no     *)
(* other's path is found, an id names one object and a blob is one's only. *)
(***************************************************************************)
EXTENDS ImageProcessor, Trackers, FiniteSetTheorems, SequenceTheorems, WellFoundedInduction,
        TLAPS

-----------------------------------------------------------------------------
(* ImageProcessor                                                           *)

\* The stages of publication and their order.
LEMMA Publishing ==
    \A w \in PublishStages :
       NextEvent[w] \in {"complete", "trackResult", "rotated", "imageSend"}
  BY DEF NextEvent, PublishStages

\* Type correctness.
THEOREM TypeCorrect == Spec => []TypeOK
<1>1. Init => TypeOK
  <2> SUFFICES ASSUME Init PROVE TypeOK
    OBVIOUS
  <2>1. <<>> \in Seq(Frames) /\ Len(<<>>) = 0
    BY EmptySeq
  <2>2. 0 \in 0..MaxSessions /\ 0 \in 0..MaxFrames
    BY ProcessorAssumption
  <2>3. /\ queue = <<>> /\ fed = <<>> /\ current = <<>> /\ accepted = <<>> /\ finished = <<>>
        /\ closed = FALSE
    BY DEF Init, Channel!FifoInit
  <2>4. control \in ControlStates /\ worker \in WorkerStates
    BY DEF Init, ControlStates, WorkerStates
  <2>5. Len(queue) <= Capacity /\ Len(current) <= 1
    BY <2>1, <2>3, ProcessorAssumption
  <2>6. QED
    BY <2>1, <2>2, <2>3, <2>4, <2>5 DEF Init, TypeOK
<1>2. TypeOK /\ [Next]_vars => TypeOK'
  <2> SUFFICES ASSUME TypeOK, [Next]_vars PROVE TypeOK'
    OBVIOUS
  <2> USE ProcessorAssumption
      DEF TypeOK, ControlStates, WorkerStates, HoldingStates, PublishStages, channel, strategies, step, history,
          WorkerUnchanged
  <2>1. CASE Start
    BY <2>1 DEF Start
  <2>2. CASE StartOpens
    BY <2>2 DEF StartOpens, Channel!Open
  <2>3. CASE StartSpawns
    BY <2>3 DEF StartSpawns
  <2>4. CASE Stop
    BY <2>4 DEF Stop
  <2>5. CASE StopCloses
    BY <2>5 DEF StopCloses, Channel!Close
  <2>6. CASE StopJoins
    BY <2>6 DEF StopJoins
  <2>7. CASE Submit
    <3>1. NewFrame \in Frames
      BY <2>7 DEF Submit, NewFrame, Frames
    <3>2. submitted + 1 \in 0..MaxFrames
      BY <2>7 DEF Submit
    <3>3. CASE Channel!Enqueue(NewFrame) /\ accepted' = Append(accepted, NewFrame) /\ UNCHANGED dropped
      BY <2>7, <3>1, <3>2, <3>3, AppendProperties DEF Submit, Channel!Enqueue, Channel!HasRoom
    <3>4. CASE UNCHANGED <<queue, closed, accepted>> /\ dropped' = dropped + 1
      BY <2>7, <3>2, <3>4 DEF Submit
    <3>5. QED
      BY <2>7, <3>3, <3>4 DEF Submit
  <2>8. ASSUME NEW present \in BOOLEAN, SetProcessingStrategy(present) PROVE TypeOK'
    BY <2>8 DEF SetProcessingStrategy
  <2>9. ASSUME NEW present \in BOOLEAN, SetTrackingStrategy(present) PROVE TypeOK'
    BY <2>9 DEF SetTrackingStrategy
  <2>10. CASE WorkerChecks
    BY <2>10 DEF WorkerChecks
  <2>11. CASE WorkerTakes
    BY <2>11 DEF WorkerTakes, Channel!Dequeue
  <2>12. CASE WorkerFindsNothing
    BY <2>12 DEF WorkerFindsNothing
  <2>13. CASE WorkerProcesses
    BY <2>13 DEF WorkerProcesses
  <2>14. CASE WorkerTracks
    <3>1. fed \o current \in Seq(Frames)
      BY ConcatProperties
    <3>2. fed' \in Seq(Frames) /\ results' \in BOOLEAN
      BY <2>14, <3>1 DEF WorkerTracks
    <3>3. QED
      BY <2>14, <3>2 DEF WorkerTracks
  <2>15. CASE WorkerPublishes
    BY <2>15, Publishing DEF WorkerPublishes
  <2>16. CASE WorkerFinishesFrame
    BY <2>16, ConcatProperties DEF WorkerFinishesFrame
  <2>17. CASE WorkerLeaves
    BY <2>17 DEF WorkerLeaves
  <2>18. CASE UNCHANGED vars
    BY <2>18 DEF vars
  <2>19. QED
    BY <2>1, <2>2, <2>3, <2>4, <2>5, <2>6, <2>7, <2>8, <2>9, <2>10, <2>11, <2>12,
       <2>13, <2>14, <2>15, <2>16, <2>17, <2>18 DEF Next, ControlStep, WorkerStep
<1>3. QED
  BY <1>1, <1>2, PTL DEF Spec
-----------------------------------------------------------------------------
\* Which states of the control thread and of the worker go together.  The
\* worker leaves its loop only after stop() has begun, because nothing else
\* triggers its token or closes the channel once start() has opened it.
ControlInv ==
    /\ control = "idle" /\ worker = "none" => ~running
    /\ control = "idle" /\ worker # "none" =>
          running /\ ~stopRequested /\ ~closed /\ worker \notin {"leave", "finished"}
    /\ control \in {"open", "spawn"} => worker = "none" /\ running
    /\ control = "spawn" => ~closed
    /\ control \in {"close", "join"} => worker # "none"

LEMMA ControlInvariant == Spec => []ControlInv
<1>1. Init => ControlInv
  BY DEF Init, ControlInv, Channel!FifoInit
<1>2. TypeOK /\ ControlInv /\ [Next]_vars => ControlInv'
  <2> SUFFICES ASSUME TypeOK, ControlInv, [Next]_vars PROVE ControlInv'
    OBVIOUS
  <2> USE DEF ControlInv, channel, strategies, step, history, WorkerUnchanged
  <2>1. CASE Start
    BY <2>1 DEF Start
  <2>2. CASE StartOpens
    BY <2>2 DEF StartOpens, Channel!Open
  <2>3. CASE StartSpawns
    BY <2>3 DEF StartSpawns
  <2>4. CASE Stop
    BY <2>4 DEF Stop
  <2>5. CASE StopCloses
    BY <2>5 DEF StopCloses, Channel!Close
  <2>6. CASE StopJoins
    BY <2>6 DEF StopJoins
  <2>7. CASE Submit
    BY <2>7 DEF Submit, Channel!Enqueue
  <2>8. ASSUME NEW present \in BOOLEAN,
               SetProcessingStrategy(present) \/ SetTrackingStrategy(present)
        PROVE  ControlInv'
    BY <2>8 DEF SetProcessingStrategy, SetTrackingStrategy
  <2>9. CASE WorkerStep
    <3>1. CASE WorkerChecks
      BY <3>1 DEF WorkerChecks
    <3>2. CASE WorkerTakes
      BY <3>2 DEF WorkerTakes, Channel!Dequeue
    <3>3. CASE WorkerFindsNothing
      BY <3>3 DEF WorkerFindsNothing
    <3>4. CASE WorkerProcesses
      BY <3>4 DEF WorkerProcesses
    <3>5. CASE WorkerTracks
      BY <3>5 DEF WorkerTracks
    <3>6. CASE WorkerPublishes
      <4>1. worker # "none" /\ worker' \notin {"none", "leave", "finished"}
        BY <3>6, Publishing DEF WorkerPublishes, PublishStages
      <4>2. QED
        BY <3>6, <4>1 DEF WorkerPublishes
    <3>7. CASE WorkerFinishesFrame
      BY <3>7 DEF WorkerFinishesFrame
    <3>8. CASE WorkerLeaves
      BY <3>8 DEF WorkerLeaves
    <3>9. QED
      BY <2>9, <3>1, <3>2, <3>3, <3>4, <3>5, <3>6, <3>7, <3>8 DEF WorkerStep
  <2>10. CASE UNCHANGED vars
    BY <2>10 DEF vars
  <2>11. QED
    BY <2>1, <2>2, <2>3, <2>4, <2>5, <2>6, <2>7, <2>8, <2>9, <2>10 DEF Next, ControlStep
<1>3. QED
  BY <1>1, <1>2, TypeCorrect, PTL DEF Spec

\* Between its calls the control thread finds isRunning() and the existence of
\* the worker in agreement: stop() leaves no worker behind.
THEOREM StopLeavesNoWorker == Spec => []RunningMeansWorker
<1>1. ControlInv => RunningMeansWorker
  BY DEF ControlInv, RunningMeansWorker
<1>2. QED
  BY <1>1, ControlInvariant, PTL
-----------------------------------------------------------------------------
\* The worker holds a frame only while it works on one; with that, every step
\* moves a frame from one part of the accepted sequence to the next.
ConservationInv == HoldsFrame /\ FramesConserved

LEMMA ConservationInvariant == Spec => []ConservationInv
<1>1. Init => ConservationInv
  <2> SUFFICES ASSUME Init PROVE ConservationInv
    OBVIOUS
  <2>1. <<>> \in Seq(Frames) /\ Len(<<>>) = 0
    BY EmptySeq
  <2>2. <<>> \o <<>> \o <<>> = <<>>
    BY <2>1, ConcatEmptySeq
  <2>3. queue = <<>>
    BY DEF Init, Channel!FifoInit
  <2>4. QED
    BY <2>1, <2>2, <2>3
       DEF Init, ConservationInv, HoldsFrame, FramesConserved, HoldingStates, PublishStages
<1>2. TypeOK /\ ControlInv /\ ConservationInv /\ [Next]_vars => ConservationInv'
  <2> SUFFICES ASSUME TypeOK, ControlInv, ConservationInv, [Next]_vars PROVE ConservationInv'
    OBVIOUS
  <2> USE DEF ConservationInv, HoldsFrame, FramesConserved, HoldingStates, PublishStages,
              channel, strategies, step, history, WorkerUnchanged
  <2>1. CASE Start
    BY <2>1 DEF Start
  <2>2. CASE StartOpens
    BY <2>2 DEF StartOpens, Channel!Open
  <2>3. CASE StartSpawns
    BY <2>3 DEF StartSpawns, ControlInv
  <2>4. CASE Stop
    BY <2>4 DEF Stop
  <2>5. CASE StopCloses
    BY <2>5 DEF StopCloses, Channel!Close
  <2>6. CASE StopJoins
    BY <2>6 DEF StopJoins
  <2>7. CASE Submit
    <3>0. /\ dropped \in Nat /\ submitted \in Nat /\ Len(accepted) \in Nat
          /\ submitted' = submitted + 1
          /\ UNCHANGED <<finished, current, worker>>
      BY <2>7, LenProperties, ProcessorAssumption DEF Submit, TypeOK
    <3>1. NewFrame \in Frames
      BY <2>7, ProcessorAssumption DEF Submit, NewFrame, Frames, TypeOK
    <3>a. finished \o current \in Seq(Frames)
      BY ConcatProperties DEF TypeOK
    <3>b. HoldsFrame'
      BY <3>0
    <3>c. dropped + Len(accepted) = submitted /\ accepted = (finished \o current) \o queue
      OBVIOUS
    <3>2. CASE Channel!Enqueue(NewFrame) /\ accepted' = Append(accepted, NewFrame) /\ UNCHANGED dropped
      <4>1. accepted' = (finished \o current) \o Append(queue, NewFrame)
        <5>1. queue \in Seq(Frames)
          BY DEF TypeOK
        <5>2. (finished \o current) \o Append(queue, NewFrame)
                  = Append((finished \o current) \o queue, NewFrame)
          BY ONLY <3>1, <3>a, <5>1, ConcatAssociative, AppendIsConcat, ConcatProperties
        <5>3. QED
          BY <3>2, <3>c, <5>2
      <4>2. Len(accepted') = Len(accepted) + 1
        BY <3>1, <3>2, AppendProperties DEF TypeOK
      <4>3. queue' = Append(queue, NewFrame) /\ dropped' = dropped
        BY <3>2 DEF Channel!Enqueue
      <4>4. dropped' + Len(accepted') = submitted'
        BY ONLY <3>0, <3>c, <4>2, <4>3
      <4>5. QED
        BY <3>0, <3>b, <4>1, <4>3, <4>4
    <3>3. CASE UNCHANGED <<queue, closed, accepted>> /\ dropped' = dropped + 1
      <4>1. dropped' + Len(accepted') = submitted'
        BY ONLY <3>0, <3>3, <3>c
      <4>2. QED
        BY <3>0, <3>3, <3>b, <3>c, <4>1
    <3>4. QED
      BY <2>7, <3>2, <3>3 DEF Submit
  <2>8. ASSUME NEW present \in BOOLEAN,
               SetProcessingStrategy(present) \/ SetTrackingStrategy(present)
        PROVE  ConservationInv'
    BY <2>8 DEF SetProcessingStrategy, SetTrackingStrategy
  <2>9. CASE WorkerChecks
    BY <2>9 DEF WorkerChecks
  <2>10. CASE WorkerTakes
    <3>1. current = <<>>
      BY <2>10, EmptySeq DEF WorkerTakes, TypeOK
    <3>2. (finished \o <<>>) \o queue = (finished \o <<Head(queue)>>) \o Tail(queue)
      <4>1. PICK f \in Seq(Frames), q \in Seq(Frames) : f = finished /\ q = queue /\ q # <<>>
        BY <2>10 DEF WorkerTakes, Channel!Dequeue, TypeOK
      <4>2. Head(q) \in Frames /\ Tail(q) \in Seq(Frames) /\ q = <<Head(q)>> \o Tail(q)
        BY <4>1, HeadTailProperties
      <4>3. <<Head(q)>> \in Seq(Frames)
        BY <4>2
      <4>4. (f \o <<Head(q)>>) \o Tail(q) = f \o (<<Head(q)>> \o Tail(q))
        BY <4>2, <4>3, ConcatAssociative
      <4>5. f \o <<>> = f
        BY ConcatEmptySeq
      <4>6. QED
        BY <4>1, <4>2, <4>4, <4>5
    <3>3. QED
      BY <2>10, <3>1, <3>2 DEF WorkerTakes, Channel!Dequeue
  <2>11. CASE WorkerFindsNothing
    BY <2>11 DEF WorkerFindsNothing
  <2>12. CASE WorkerProcesses
    BY <2>12 DEF WorkerProcesses
  <2>13. CASE WorkerTracks
    BY <2>13 DEF WorkerTracks
  <2>14. CASE WorkerPublishes
    BY <2>14, Publishing DEF WorkerPublishes
  <2>15. CASE WorkerFinishesFrame
    <3>1. (finished \o current) \o <<>> = finished \o current
      BY ConcatProperties, ConcatEmptySeq DEF TypeOK
    <3>2. Len(<<>>) = 0
      BY EmptySeq
    <3>3. QED
      BY <2>15, <3>1, <3>2 DEF WorkerFinishesFrame
  <2>16. CASE WorkerLeaves
    BY <2>16 DEF WorkerLeaves
  <2>17. CASE UNCHANGED vars
    BY <2>17 DEF vars
  <2>18. QED
    BY <2>1, <2>2, <2>3, <2>4, <2>5, <2>6, <2>7, <2>8, <2>9, <2>10, <2>11, <2>12,
       <2>13, <2>14, <2>15, <2>16, <2>17 DEF Next, ControlStep, WorkerStep
<1>3. QED
  BY <1>1, <1>2, TypeCorrect, ControlInvariant, PTL DEF Spec

\* No frame is lost, duplicated or overtaken, and every refusal is counted.
THEOREM Conservation == Spec => []FramesConserved
  BY ConservationInvariant, PTL DEF ConservationInv

\* The processor's state stays together across any number of starts, stops and
\* frames: no frame has two places or none, and isRunning() is true.
THEOREM ProcessorIsSound == Spec => []ProcessorInv
<1>1. TypeOK /\ FramesConserved /\ RunningMeansWorker => ProcessorInv
  BY DEF ProcessorInv
<1>2. QED
  BY <1>1, TypeCorrect, Conservation, StopLeavesNoWorker, PTL
-----------------------------------------------------------------------------
(* Order.  The numbers of the frames increase from what the tracker was      *)
(* given over the frame in work to the queue; a frame in work is ahead of    *)
(* the tracker only until it was tracked.                                    *)

AllBefore(s, t) == \A i \in DOMAIN s, j \in DOMAIN t : s[i].id < t[j].id
Ascending(s) == \A i, j \in DOMAIN s : i < j => s[i].id < s[j].id
UpTo(s, n) == \A i \in DOMAIN s : s[i].id <= n

OrderInv == /\ Ascending(fed) /\ Ascending(queue)
            /\ AllBefore(fed, queue) /\ AllBefore(current, queue)
            /\ UpTo(fed, submitted) /\ UpTo(current, submitted) /\ UpTo(queue, submitted)
            /\ worker \in {"process", "track"} => AllBefore(fed, current)

\* The domain and the members of the sequences that the steps build.
LEMMA AppendMembers ==
    ASSUME NEW q \in Seq(Frames), NEW f \in Frames
    PROVE  /\ DOMAIN Append(q, f) = 1..(Len(q) + 1)
           /\ DOMAIN q = 1..Len(q) /\ Len(q) \in Nat
           /\ \A i \in DOMAIN q : Append(q, f)[i] = q[i]
           /\ Append(q, f)[Len(q) + 1] = f
  BY AppendProperties, LenProperties

LEMMA TailMembers ==
    ASSUME NEW q \in Seq(Frames), q # <<>>
    PROVE  /\ DOMAIN Tail(q) = 1..(Len(q) - 1)
           /\ DOMAIN q = 1..Len(q) /\ Len(q) \in Nat \ {0}
           /\ \A i \in DOMAIN Tail(q) : Tail(q)[i] = q[i + 1]
           /\ DOMAIN <<Head(q)>> = {1} /\ <<Head(q)>>[1] = q[1]
<1>1. /\ Tail(q) \in Seq(Frames) /\ Len(Tail(q)) = Len(q) - 1
      /\ \A i \in 1..Len(Tail(q)) : Tail(q)[i] = q[i + 1]
  BY HeadTailProperties
<1>2. DOMAIN Tail(q) = 1..Len(Tail(q)) /\ DOMAIN q = 1..Len(q) /\ Len(q) \in Nat \ {0}
  BY <1>1, LenProperties, EmptySeq
<1>3. DOMAIN <<Head(q)>> = {1} /\ <<Head(q)>>[1] = q[1]
  BY <1>2
<1>4. QED
  BY <1>1, <1>2, <1>3

LEMMA ConcatMembers ==
    ASSUME NEW s \in Seq(Frames), NEW t \in Seq(Frames)
    PROVE  \A i \in DOMAIN (s \o t) :
              \/ i \in DOMAIN s /\ (s \o t)[i] = s[i]
              \/ i - Len(s) \in DOMAIN t /\ (s \o t)[i] = t[i - Len(s)] /\ i > Len(s)
<1>1. /\ s \o t \in Seq(Frames) /\ Len(s \o t) = Len(s) + Len(t)
      /\ \A i \in 1..(Len(s) + Len(t)) : (s \o t)[i] =
            IF i <= Len(s) THEN s[i] ELSE t[i - Len(s)]
  BY ConcatProperties
<1>2. /\ DOMAIN (s \o t) = 1..(Len(s) + Len(t))
      /\ DOMAIN s = 1..Len(s) /\ DOMAIN t = 1..Len(t)
      /\ Len(s) \in Nat /\ Len(t) \in Nat
  BY <1>1, LenProperties
<1>3. QED
  BY <1>1, <1>2

\* A tracker object is never shown a frame twice or out of order.
THEOREM TrackerOrder == Spec => []TrackerHistoryInOrder
<1> USE DEF Ascending, AllBefore, UpTo
<1>1. Init => OrderInv
  <2> SUFFICES ASSUME Init PROVE OrderInv
    OBVIOUS
  <2>1. DOMAIN <<>> = {}
    OBVIOUS
  <2>2. fed = <<>> /\ queue = <<>> /\ current = <<>> /\ worker = "none"
    BY DEF Init, Channel!FifoInit
  <2>3. QED
    BY <2>1, <2>2 DEF OrderInv
<1>2. TypeOK /\ ControlInv /\ HoldsFrame /\ OrderInv /\ [Next]_vars => OrderInv'
  <2> SUFFICES ASSUME TypeOK, ControlInv, HoldsFrame, OrderInv, [Next]_vars PROVE OrderInv'
    OBVIOUS
  <2> USE DEF OrderInv, channel, strategies, step, history, WorkerUnchanged
  <2>1. CASE Start
    BY <2>1 DEF Start
  <2>2. CASE StartOpens
    BY <2>2 DEF StartOpens, Channel!Open
  <2>3. CASE StartSpawns
    BY <2>3 DEF StartSpawns
  <2>4. CASE Stop
    BY <2>4 DEF Stop
  <2>5. CASE StopCloses
    BY <2>5 DEF StopCloses, Channel!Close
  <2>6. CASE StopJoins
    BY <2>6 DEF StopJoins
  <2>7. CASE Submit
    <3>1. /\ submitted \in Nat /\ submitted' = submitted + 1
          /\ NewFrame.id = submitted + 1
          /\ UNCHANGED <<fed, current, worker>>
          /\ queue \in Seq(Frames)
      BY <2>7 DEF Submit, NewFrame, TypeOK
    <3>2. NewFrame \in Frames
      BY <2>7, ProcessorAssumption DEF Submit, NewFrame, Frames, TypeOK
    <3>3. /\ \A f \in Frames : f.id \in Nat
          /\ \A i \in DOMAIN fed : fed[i] \in Frames
          /\ \A i \in DOMAIN current : current[i] \in Frames
          /\ \A i \in DOMAIN queue : queue[i] \in Frames
      <4>1. fed \in Seq(Frames) /\ current \in Seq(Frames) /\ queue \in Seq(Frames)
        BY DEF TypeOK
      <4>2. \A s \in Seq(Frames) : \A i \in DOMAIN s : s[i] \in Frames
        BY LenProperties, ElementOfSeq
      <4>3. \A f \in Frames : f.id \in Nat
        BY ProcessorAssumption DEF Frames
      <4>4. QED
        BY <4>1, <4>2, <4>3
    <3>4. CASE UNCHANGED queue
      BY <3>1, <3>3, <3>4
    <3>5. CASE queue' = Append(queue, NewFrame)
      <4>1. \A i \in DOMAIN queue' :
               \/ i \in DOMAIN queue /\ queue'[i] = queue[i]
               \/ i = Len(queue) + 1 /\ queue'[i] = NewFrame
        BY <3>1, <3>2, <3>5, AppendMembers
      <4>2. \A i \in DOMAIN queue : i \in 1..Len(queue) /\ Len(queue) \in Nat
        BY <3>1, <3>2, AppendMembers
      <4>3. QED
        BY <3>1, <3>3, <4>1, <4>2
    <3>6. QED
      BY <2>7, <3>4, <3>5 DEF Submit, Channel!Enqueue
  <2>8. ASSUME NEW present \in BOOLEAN, SetProcessingStrategy(present) PROVE OrderInv'
    BY <2>8 DEF SetProcessingStrategy
  <2>9. ASSUME NEW present \in BOOLEAN, SetTrackingStrategy(present) PROVE OrderInv'
    <3>1. DOMAIN <<>> = {}
      OBVIOUS
    <3>2. QED
      BY <2>9, <3>1 DEF SetTrackingStrategy
  <2>10. CASE WorkerChecks
    BY <2>10 DEF WorkerChecks
  <2>11. CASE WorkerTakes
    <3>1. queue \in Seq(Frames) /\ queue # <<>>
      BY <2>11 DEF WorkerTakes, Channel!Dequeue, TypeOK
    <3>2. /\ queue' = Tail(queue) /\ current' = <<Head(queue)>>
          /\ UNCHANGED <<fed, submitted>>
      BY <2>11 DEF WorkerTakes, Channel!Dequeue
    <3>3. /\ \A i \in DOMAIN queue' : i + 1 \in DOMAIN queue /\ queue'[i] = queue[i + 1] /\ i \in Nat \ {0}
          /\ \A i \in DOMAIN current' : current'[i] = queue[1]
          /\ 1 \in DOMAIN queue
      BY <3>1, <3>2, TailMembers
    <3>4. QED
      BY <3>2, <3>3
  <2>12. CASE WorkerFindsNothing
    BY <2>12 DEF WorkerFindsNothing
  <2>13. CASE WorkerProcesses
    BY <2>13 DEF WorkerProcesses
  <2>14. CASE WorkerTracks
    <3>1. UNCHANGED <<queue, current, submitted>> /\ worker' = "display"
      BY <2>14 DEF WorkerTracks
    <3>2. CASE UNCHANGED fed
      BY <3>1, <3>2
    <3>3. CASE fed' = fed \o current
      <4>1. fed \in Seq(Frames) /\ current \in Seq(Frames)
            /\ Len(current) = 1 /\ DOMAIN current = 1..1
            /\ DOMAIN fed = 1..Len(fed) /\ Len(fed) \in Nat
        BY <2>14, LenProperties DEF WorkerTracks, HoldsFrame, HoldingStates, TypeOK
      <4>2. \A i \in DOMAIN fed' :
               \/ i \in DOMAIN fed /\ fed'[i] = fed[i]
               \/ i - Len(fed) \in DOMAIN current /\ fed'[i] = current[i - Len(fed)] /\ i > Len(fed)
        BY <3>3, <4>1, ConcatMembers
      <4>3. AllBefore(fed, current)
        BY <2>14 DEF WorkerTracks
      <4>4. \A i \in DOMAIN fed' : i \in Int
        BY <3>3, <4>1, ConcatProperties, LenProperties
      <4>5. QED
        BY <3>1, <4>1, <4>2, <4>3, <4>4
    <3>4. QED
      BY <2>14, <3>2, <3>3 DEF WorkerTracks
  <2>15. CASE WorkerPublishes
    BY <2>15, Publishing DEF WorkerPublishes, PublishStages
  <2>16. CASE WorkerFinishesFrame
    <3>1. DOMAIN <<>> = {}
      OBVIOUS
    <3>2. QED
      BY <2>16, <3>1 DEF WorkerFinishesFrame
  <2>17. CASE WorkerLeaves
    BY <2>17 DEF WorkerLeaves
  <2>18. CASE UNCHANGED vars
    BY <2>18 DEF vars
  <2>19. QED
    BY <2>1, <2>2, <2>3, <2>4, <2>5, <2>6, <2>7, <2>8, <2>9, <2>10, <2>11, <2>12,
       <2>13, <2>14, <2>15, <2>16, <2>17, <2>18 DEF Next, ControlStep, WorkerStep
<1>3. OrderInv => TrackerHistoryInOrder
  BY DEF OrderInv, TrackerHistoryInOrder
<1>4. QED
  BY <1>1, <1>2, <1>3, TypeCorrect, ControlInvariant, ConservationInvariant, PTL
     DEF Spec, ConservationInv
-----------------------------------------------------------------------------
(* Trackers: frame infos, paths and targets                                 *)

Infos == [pos : Int, valid : BOOLEAN]
Paths == Seq(Infos)
Records == [id : Nat, path : Paths, living : BOOLEAN]

-----------------------------------------------------------------------------
(* Trackers: numbers and sequences                                          *)

\* The greater of two numbers
LEMMA GreaterOfTwo ==
  ASSUME NEW a \in Int, NEW b \in Int
  PROVE  Max({a, b}) = IF a >= b THEN a ELSE b
<1>1. CASE a >= b
  <2>1. a \in {a, b} /\ \A y \in {a, b} : a >= y BY <1>1
  <2>2. \A x \in {a, b} : (\A y \in {a, b} : x >= y) => x = a BY <1>1
  <2> QED BY <1>1, <2>1, <2>2 DEF Max
<1>2. CASE ~(a >= b)
  <2>1. b \in {a, b} /\ \A y \in {a, b} : b >= y BY <1>2
  <2>2. \A x \in {a, b} : (\A y \in {a, b} : x >= y) => x = b BY <1>2
  <2> QED BY <1>2, <2>1, <2>2 DEF Max
<1> QED BY <1>1, <1>2

\* The middle one of three numbers
LEMMA MedianIs ==
  ASSUME NEW a \in Int, NEW b \in Int, NEW c \in Int
  PROVE  /\ Median(a, b, c) \in {a, b, c}
         /\ \E x \in {a, b, c} : x <= Median(a, b, c)
         /\ \E x \in {a, b, c} : x >= Median(a, b, c)
<1> DEFINE s == {a, b, c}
<1>1. PICK m \in s : \A y \in s : m >= y
  <2>1. CASE a >= b /\ a >= c BY <2>1
  <2>2. CASE b >= a /\ b >= c BY <2>2
  <2>3. CASE c >= a /\ c >= b BY <2>3
  <2> QED BY <2>1, <2>2, <2>3
<1>2. Max(s) = m
  <2>1. m \in Int /\ \A x \in s : x \in Int BY <1>1
  <2>2. \A x \in s : (\A y \in s : x >= y) => x = m
    <3> HIDE DEF s
    <3> QED BY <1>1, <2>1
  <2> HIDE DEF s
  <2> QED BY <1>1, <2>2 DEF Max
<1>3. PICK n \in s : \A y \in s : n <= y
  <2>1. CASE a <= b /\ a <= c BY <2>1
  <2>2. CASE b <= a /\ b <= c BY <2>2
  <2>3. CASE c <= a /\ c <= b BY <2>3
  <2> QED BY <2>1, <2>2, <2>3
<1>4. Min(s) = n
  <2>1. n \in Int /\ \A x \in s : x \in Int BY <1>3
  <2>2. \A x \in s : (\A y \in s : x <= y) => x = n
    <3> HIDE DEF s
    <3> QED BY <1>3, <2>1
  <2> HIDE DEF s
  <2> QED BY <1>3, <2>2 DEF Min
<1>5. Median(a, b, c) = a + b + c - m - n BY <1>2, <1>4 DEF Median
<1>6. /\ m \in {a, b, c} /\ m >= a /\ m >= b /\ m >= c
      /\ n \in {a, b, c} /\ n <= a /\ n <= b /\ n <= c
  BY <1>1, <1>3
<1> HIDE DEF s
<1>7. a + b + c - m - n \in {a, b, c} /\ n <= a + b + c - m - n /\ a + b + c - m - n <= m BY <1>6
<1> QED BY <1>5, <1>6, <1>7

\* The last n elements of a sequence, counted from the end
LEMMA LastNIs ==
  ASSUME NEW S, NEW s \in Seq(S), NEW n \in Nat \ {0}
  PROVE  /\ LastN(s, n) \in Seq(S)
         /\ Len(LastN(s, n)) = IF Len(s) <= n THEN Len(s) ELSE n
         /\ \A d \in Nat : d < Len(LastN(s, n)) => LastN(s, n)[Len(LastN(s, n)) - d] = s[Len(s) - d]
<1> DEFINE l == Len(s)
           m == IF l <= n THEN 1 ELSE l - n + 1
           t == SubSeq(s, m, l)
<1>1. l \in Nat /\ \A i \in 1..l : s[i] \in S BY ElementOfSeq
<1>2. Max({1, l - n + 1}) = m
  <2>1. 1 \in Int /\ l - n + 1 \in Int BY <1>1
  <2> HIDE DEF l
  <2> QED BY <1>1, <2>1, GreaterOfTwo
<1>3. LastN(s, n) = t BY <1>2 DEF LastN
<1> HIDE DEF l
<1>4. m \in Int /\ l \in Int /\ m >= 1 /\ \A i \in m..l : s[i] \in S BY <1>1
<1>5. /\ t \in Seq(S) /\ Len(t) = (IF m <= l THEN l - m + 1 ELSE 0)
      /\ \A i \in 1..(l - m + 1) : t[i] = s[m + i - 1]
  <2> HIDE DEF m
  <2>1. m \in Int /\ l \in Int /\ \A i \in m..l : s[i] \in S BY <1>4
  <2>2. t \in Seq(S) BY <2>1, SubSeqProperties
  <2>3. Len(t) = IF m <= l THEN l - m + 1 ELSE 0 BY <2>1, SubSeqProperties
  <2>4. \A i \in 1..(l - m + 1) : t[i] = s[m + i - 1] BY <2>1, SubSeqProperties
  <2> QED BY <2>2, <2>3, <2>4
<1>6. Len(t) = IF l <= n THEN l ELSE n BY <1>1, <1>5
<1>7. \A d \in Nat : d < Len(t) => t[Len(t) - d] = s[l - d]
  <2> SUFFICES ASSUME NEW d \in Nat, d < Len(t) PROVE t[Len(t) - d] = s[l - d] OBVIOUS
  <2>1. Len(t) = l - m + 1 /\ Len(t) - d \in 1..(l - m + 1) BY <1>1, <1>5, <1>6
  <2>2. m + (Len(t) - d) - 1 = l - d BY <1>4, <2>1
  <2> HIDE DEF t, m
  <2> QED BY <1>5, <2>1, <2>2
<1> QED BY <1>3, <1>5, <1>6, <1>7 DEF l

\* An element at the end of a sequence of bounded length: what was there moves on.
LEMMA ShiftIs ==
  ASSUME NEW S, NEW s \in Seq(S), NEW x \in S, NEW n \in Nat \ {0}
  PROVE  /\ LastN(Append(s, x), n) \in Seq(S)
         /\ Len(LastN(Append(s, x), n)) = IF Len(s) < n THEN Len(s) + 1 ELSE n
         /\ LastN(Append(s, x), n)[Len(LastN(Append(s, x), n))] = x
         /\ \A d \in Nat : d + 1 < Len(LastN(Append(s, x), n)) =>
               LastN(Append(s, x), n)[Len(LastN(Append(s, x), n)) - (d + 1)] = s[Len(s) - d]
<1> DEFINE a == Append(s, x)
           t == LastN(a, n)
<1>1. /\ a \in Seq(S) /\ Len(a) = Len(s) + 1 /\ Len(s) \in Nat /\ a[Len(s) + 1] = x
      /\ \A i \in 1..Len(s) : a[i] = s[i]
  OBVIOUS
<1> HIDE DEF a
<1>2. /\ t \in Seq(S) /\ Len(t) = (IF Len(a) <= n THEN Len(a) ELSE n)
      /\ \A d \in Nat : d < Len(t) => t[Len(t) - d] = a[Len(a) - d]
  BY <1>1, LastNIs
<1> HIDE DEF t
<1>3. Len(t) = (IF Len(s) < n THEN Len(s) + 1 ELSE n) /\ Len(t) > 0 BY <1>1, <1>2
<1>4. t[Len(t)] = x
  <2>1. t[Len(t) - 0] = a[Len(a) - 0] BY <1>2, <1>3
  <2>2. Len(t) \in Nat /\ Len(t) - 0 = Len(t) /\ Len(a) - 0 = Len(s) + 1 BY <1>1, <1>2
  <2> QED BY <1>1, <2>1, <2>2
<1>5. \A d \in Nat : d + 1 < Len(t) => t[Len(t) - (d + 1)] = s[Len(s) - d]
  <2> SUFFICES ASSUME NEW d \in Nat, d + 1 < Len(t) PROVE t[Len(t) - (d + 1)] = s[Len(s) - d]
    OBVIOUS
  <2>1. t[Len(t) - (d + 1)] = a[Len(a) - (d + 1)] BY <1>2
  <2>2. Len(a) - (d + 1) = Len(s) - d /\ Len(s) - d \in 1..Len(s) BY <1>1, <1>3
  <2> QED BY <1>1, <2>1, <2>2
<1> QED BY <1>2, <1>3, <1>4, <1>5 DEF a, t

\* A set of natural numbers that is not empty has a least element.
LEMMA Least ==
  ASSUME NEW T \in SUBSET Nat, T # {}
  PROVE  \E m \in T : \A n \in T : m <= n
<1> DEFINE R == OpToRel(<, Nat)
<1>1. \E m \in T : \A n \in T : <<n, m>> \notin R
  <2>1. IsWellFoundedOn(R, Nat) BY NatLessThanWellFounded
  <2> HIDE DEF R
  <2> QED BY <2>1, WFMin
<1>2. \A m, n \in T : <<n, m>> \notin R => m <= n BY DEF OpToRel
<1> QED BY <1>1, <1>2

-----------------------------------------------------------------------------
(* Trackers: the order of the chains                                        *)

\* Before is a strict total order of the chains of n blobs.
LEMMA BeforeIsOrder ==
  ASSUME NEW n \in Nat
  PROVE  /\ \A c \in [1..n -> Int] : ~Before(c, c)
         /\ \A c, d \in [1..n -> Int] : c # d => Before(c, d) \/ Before(d, c)
         /\ \A b, c, d \in [1..n -> Int] : Before(b, c) /\ Before(c, d) => Before(b, d)
<1>1. \A c \in [1..n -> Int] : ~Before(c, c) BY DEF Before
<1>2. ASSUME NEW c \in [1..n -> Int], NEW d \in [1..n -> Int], c # d
      PROVE  Before(c, d) \/ Before(d, c)
  <2> DEFINE D == {k \in 1..n : c[k] # d[k]}
  <2>1. D \in SUBSET Nat /\ D # {} BY <1>2
  <2>2. PICK m \in D : \A k \in D : m <= k
    <3> HIDE DEF D
    <3> QED BY <2>1, Least
  <2>3. m \in 1..n /\ c[m] # d[m] /\ \A j \in 1..(m - 1) : c[j] = d[j] BY <2>2
  <2>4. c[m] < d[m] \/ d[m] < c[m] BY <2>3
  <2> QED BY <2>3, <2>4 DEF Before
<1>3. ASSUME NEW b \in [1..n -> Int], NEW c \in [1..n -> Int], NEW d \in [1..n -> Int],
             Before(b, c), Before(c, d)
      PROVE  Before(b, d)
  <2>1. PICK k \in 1..n : b[k] < c[k] /\ \A j \in 1..(k - 1) : b[j] = c[j] BY <1>3 DEF Before
  <2>2. PICK l \in 1..n : c[l] < d[l] /\ \A j \in 1..(l - 1) : c[j] = d[j] BY <1>3 DEF Before
  <2>3. CASE k < l
    <3>1. c[k] = d[k] /\ \A j \in 1..(k - 1) : j \in 1..(l - 1) BY <2>2, <2>3
    <3> QED BY <2>1, <2>2, <3>1 DEF Before
  <2>4. CASE l < k
    <3>1. b[l] = c[l] /\ \A j \in 1..(l - 1) : j \in 1..(k - 1) BY <2>1, <2>4
    <3> QED BY <2>1, <2>2, <3>1 DEF Before
  <2>5. CASE k = l
    <3>1. b[k] < d[k] BY <2>1, <2>2, <2>5
    <3> QED BY <2>1, <2>2, <2>5, <3>1 DEF Before
  <2> QED BY <2>3, <2>4, <2>5
<1> QED BY <1>1, <1>2, <1>3

\* Of finitely many chains there is one with each number of chains before it.
LEMMA Ranks ==
  ASSUME NEW n \in Nat, NEW chains \in SUBSET [1..n -> Int], IsFiniteSet(chains)
  PROVE  /\ Cardinality(chains) \in Nat
         /\ \A c \in chains : Cardinality({d \in chains : Before(d, c)}) + 1 \in 1..Cardinality(chains)
         /\ \A i \in 1..Cardinality(chains) :
               \E c \in chains : Cardinality({d \in chains : Before(d, c)}) = i - 1
         /\ \A b, c \in chains : Cardinality({d \in chains : Before(d, b)}) =
                                 Cardinality({d \in chains : Before(d, c)}) => b = c
<1> DEFINE size == Cardinality(chains)
           Less(c) == {d \in chains : Before(d, c)}
           rank == [c \in chains |-> Cardinality(Less(c))]
<1>1. size \in Nat BY FS_CardinalityType
<1>2. ASSUME NEW c \in chains
      PROVE  IsFiniteSet(Less(c)) /\ Cardinality(Less(c)) \in 0..(size - 1)
  <2>1. c \notin Less(c) /\ Less(c) \in SUBSET (chains \ {c}) BY BeforeIsOrder
  <2>2. IsFiniteSet(chains \ {c}) /\ Cardinality(chains \ {c}) = size - 1 BY FS_RemoveElement
  <2> HIDE DEF Less
  <2>3. IsFiniteSet(Less(c)) /\ Cardinality(Less(c)) <= size - 1 BY <2>1, <2>2, FS_Subset
  <2>4. Cardinality(Less(c)) \in Nat BY <2>3, FS_CardinalityType
  <2> QED BY <1>1, <2>3, <2>4
<1>3. ASSUME NEW b \in chains, NEW c \in chains, Before(b, c)
      PROVE  Cardinality(Less(b)) # Cardinality(Less(c))
  <2>1. Less(b) \in SUBSET Less(c)
    <3>1. \A d \in chains : Before(d, b) => Before(d, c) BY <1>3, BeforeIsOrder
    <3> QED BY <3>1
  <2>2. b \in Less(c) /\ b \notin Less(b) BY <1>3, BeforeIsOrder
  <2>3. IsFiniteSet(Less(c)) BY <1>2
  <2> HIDE DEF Less
  <2> QED BY <2>1, <2>2, <2>3, FS_Subset
<1>4. \A b, c \in chains : Cardinality(Less(b)) = Cardinality(Less(c)) => b = c
  <2> SUFFICES ASSUME NEW b \in chains, NEW c \in chains, b # c
               PROVE  Cardinality(Less(b)) # Cardinality(Less(c))
    OBVIOUS
  <2>1. Before(b, c) \/ Before(c, b) BY BeforeIsOrder
  <2> HIDE DEF Less
  <2> QED BY <1>3, <2>1
<1>5. rank \in Injection(chains, 0..(size - 1))
  <2> HIDE DEF Less
  <2> QED BY <1>2, <1>4 DEF Injection, IsInjective
<1>6. IsFiniteSet(0..(size - 1)) /\ Cardinality(0..(size - 1)) = size
  <2>1. IsFiniteSet(0..(size - 1)) /\ Cardinality(0..(size - 1)) = IF 0 > size - 1 THEN 0 ELSE size - 1 - 0 + 1
    BY <1>1, FS_Interval
  <2> HIDE DEF size
  <2> QED BY <1>1, <2>1
<1>7. rank \in Surjection(chains, 0..(size - 1))
  <2> HIDE DEF rank, size
  <2> QED BY <1>5, <1>6, FS_Injection DEF size
<1>8. \A i \in 1..size : \E c \in chains : Cardinality(Less(c)) = i - 1
  <2> SUFFICES ASSUME NEW i \in 1..size PROVE \E c \in chains : Cardinality(Less(c)) = i - 1
    OBVIOUS
  <2>1. i - 1 \in 0..(size - 1) BY <1>1
  <2>2. \E c \in chains : rank[c] = i - 1
    <3> HIDE DEF rank
    <3> QED BY <1>7, <2>1 DEF Surjection
  <2> HIDE DEF Less
  <2> QED BY <2>2
<1>9. \A c \in chains : Cardinality(Less(c)) + 1 \in 1..size
  <2> HIDE DEF Less, size
  <2> QED BY <1>1, <1>2
<1> QED BY <1>1, <1>4, <1>8, <1>9

\* InOrder gives each chain once.
LEMMA InOrderIs ==
  ASSUME NEW n \in Nat, NEW chains \in SUBSET [1..n -> Int], IsFiniteSet(chains)
  PROVE  /\ InOrder(chains) \in Seq(chains)
         /\ \A c \in chains : \E i \in DOMAIN InOrder(chains) : InOrder(chains)[i] = c
<1> DEFINE size == Cardinality(chains)
           Rank(c) == Cardinality({d \in chains : Before(d, c)})
<1>1. /\ size \in Nat
      /\ \A c \in chains : Rank(c) + 1 \in 1..size
      /\ \A i \in 1..size : \E c \in chains : Rank(c) = i - 1
      /\ \A b, c \in chains : Rank(b) = Rank(c) => b = c
  BY Ranks
<1>2. InOrder(chains) = [i \in 1..size |-> CHOOSE c \in chains : Rank(c) = i - 1] BY DEF InOrder
<1>3. \A c \in chains : Rank(c) \in Nat
  <2>1. ASSUME NEW c \in chains PROVE Rank(c) \in Nat
    <3>1. {d \in chains : Before(d, c)} \in SUBSET chains OBVIOUS
    <3> QED BY <3>1, FS_Subset, FS_CardinalityType
  <2> QED BY <2>1
<1> HIDE DEF Rank, size
<1>4. \A i \in 1..size : /\ InOrder(chains)[i] \in chains
                         /\ Rank(InOrder(chains)[i]) = i - 1
  BY <1>1, <1>2
<1>5. InOrder(chains) \in Seq(chains) /\ DOMAIN InOrder(chains) = 1..size BY <1>1, <1>2, <1>4
<1>6. ASSUME NEW c \in chains PROVE \E i \in 1..size : InOrder(chains)[i] = c
  <2> DEFINE i == Rank(c) + 1
  <2>1. i \in 1..size /\ i - 1 = Rank(c) BY <1>1, <1>3
  <2>2. InOrder(chains)[i] \in chains /\ Rank(InOrder(chains)[i]) = Rank(c)
    <3> HIDE DEF i
    <3> QED BY <1>4, <2>1
  <2>3. InOrder(chains)[i] = c
    <3> HIDE DEF i
    <3> QED BY <1>1, <2>2
  <2> QED BY <2>1, <2>3
<1> QED BY <1>5, <1>6

-----------------------------------------------------------------------------
(* Trackers: chains and paths                                               *)

\* What a frame shows is a finite set of points.
LEMMA ViewsAreFinite ==
  /\ IsFiniteSet(0..Width)
  /\ \A v \in Views : v \in SUBSET (0..Width) /\ v \in SUBSET Int /\ IsFiniteSet(v)
<1>1. Width \in Nat /\ Views \subseteq SUBSET {2 * k : k \in 1..(Width \div 2)}
  BY TrackersAssumption
<1>2. IsFiniteSet(0..Width) BY <1>1, FS_Interval
<1>3. \A k \in 1..(Width \div 2) : 2 * k \in 0..Width BY <1>1
<1>4. \A v \in Views : v \in SUBSET (0..Width) BY <1>1, <1>3
<1>5. ASSUME NEW v \in Views PROVE v \in SUBSET Int /\ IsFiniteSet(v)
  <2>1. v \in SUBSET (0..Width) BY <1>4
  <2>2. IsFiniteSet(v) BY <1>2, <2>1, FS_Subset
  <2> QED BY <2>1, <2>2
<1> QED BY <1>2, <1>4, <1>5

\* Of finitely many points there are finitely many chains.
LEMMA FiniteChains ==
  ASSUME NEW P, IsFiniteSet(P), NEW n \in {3, 4}, NEW chains \in SUBSET [1..n -> P]
  PROVE  IsFiniteSet(chains)
<1> DEFINE Q == (P \X P) \X (P \X P)
           code == [c \in chains |-> <<<<c[1], c[2]>>, <<c[3], c[n]>>>>]
<1>1. IsFiniteSet(P \X P) BY FS_Product
<1>2. IsFiniteSet(Q) BY <1>1, FS_Product
<1>3. code \in Injection(chains, Q)
  <2>1. \A c \in chains : c[1] \in P /\ c[2] \in P /\ c[3] \in P /\ c[n] \in P OBVIOUS
  <2>2. code \in [chains -> Q] BY <2>1
  <2>3. ASSUME NEW b \in chains, NEW c \in chains, code[b] = code[c] PROVE b = c
    <3>1. b[1] = c[1] /\ b[2] = c[2] /\ b[3] = c[3] /\ b[n] = c[n] BY <2>3
    <3>2. \A k \in 1..n : b[k] = c[k] BY <3>1
    <3> QED BY <3>2
  <2> HIDE DEF code, Q
  <2> QED BY <2>2, <2>3 DEF Injection, IsInjective
<1> HIDE DEF code, Q
<1> QED BY <1>2, <1>3, FS_Injection

\* A blob of each of three views
LEMMA TriplesAre ==
  ASSUME NEW f \in Seq(Views), Len(f) = 3
  PROVE  /\ Triples(f) \in SUBSET [1..3 -> Int] /\ IsFiniteSet(Triples(f))
         /\ \A c \in Triples(f) : \A k \in 1..3 : c[k] \in f[k]
<1>1. f[1] \in Views /\ f[2] \in Views /\ f[3] \in Views BY ElementOfSeq
<1>2. f[1] \in SUBSET (0..Width) /\ f[2] \in SUBSET (0..Width) /\ f[3] \in SUBSET (0..Width)
  BY <1>1, ViewsAreFinite
<1>3. \A a \in f[1], b \in f[2], c \in f[3] : <<a, b, c>> \in [1..3 -> 0..Width] BY <1>2
<1>4. Triples(f) \in SUBSET [1..3 -> 0..Width] BY <1>3 DEF Triples
<1>5. IsFiniteSet(Triples(f)) BY <1>4, ViewsAreFinite, FiniteChains
<1>6. ASSUME NEW a \in f[1], NEW b \in f[2], NEW c \in f[3], NEW k \in 1..3
      PROVE  <<a, b, c>>[k] \in f[k]
  <2>1. k = 1 \/ k = 2 \/ k = 3 OBVIOUS
  <2> QED BY <2>1
<1>7. Triples(f) \in SUBSET [1..3 -> Int] BY <1>4
<1>8. \A c \in Triples(f) : \A k \in 1..3 : c[k] \in f[k] BY <1>6 DEF Triples
<1> QED BY <1>5, <1>7, <1>8

\* A blob of each of four views
LEMMA QuadruplesAre ==
  ASSUME NEW f \in Seq(Views), Len(f) = 4
  PROVE  /\ Quadruples(f) \in SUBSET [1..4 -> Int] /\ IsFiniteSet(Quadruples(f))
         /\ \A c \in Quadruples(f) : \A k \in 1..4 : c[k] \in f[k]
<1>1. f[1] \in Views /\ f[2] \in Views /\ f[3] \in Views /\ f[4] \in Views BY ElementOfSeq
<1>2. /\ f[1] \in SUBSET (0..Width) /\ f[2] \in SUBSET (0..Width)
      /\ f[3] \in SUBSET (0..Width) /\ f[4] \in SUBSET (0..Width)
  BY <1>1, ViewsAreFinite
<1>3. \A a \in f[1], b \in f[2], c \in f[3], d \in f[4] : <<a, b, c, d>> \in [1..4 -> 0..Width]
  BY <1>2
<1>4. Quadruples(f) \in SUBSET [1..4 -> 0..Width] BY <1>3 DEF Quadruples
<1>5. IsFiniteSet(Quadruples(f)) BY <1>4, ViewsAreFinite, FiniteChains
<1>6. ASSUME NEW a \in f[1], NEW b \in f[2], NEW c \in f[3], NEW d \in f[4], NEW k \in 1..4
      PROVE  <<a, b, c, d>>[k] \in f[k]
  <2>1. k = 1 \/ k = 2 \/ k = 3 \/ k = 4 OBVIOUS
  <2> QED BY <2>1
<1>7. Quadruples(f) \in SUBSET [1..4 -> Int] BY <1>4
<1>8. \A c \in Quadruples(f) : \A k \in 1..4 : c[k] \in f[k] BY <1>6 DEF Quadruples
<1> QED BY <1>5, <1>7, <1>8

\* A chain of three takes a blob of each of the last three frames.
LEMMA Chains3Are ==
  ASSUME fifo' \in Seq(Views)
  PROVE  /\ Chains3 \in SUBSET [1..3 -> Int] /\ IsFiniteSet(Chains3)
         /\ \A c \in Chains3 : /\ Len(fifo') >= 3
                               /\ \A d \in 0..2 : c[3 - d] \in fifo'[Len(fifo') - d]
<1>1. CASE Len(fifo') < 3 BY <1>1, FS_EmptySet DEF Chains3
<1>2. CASE ~(Len(fifo') < 3)
  <2>1. PICK g \in Seq(Views) : g = fifo' OBVIOUS
  <2> DEFINE f == LastN(g, 3)
             l == Len(g)
             m == Len(f)
  <2>2. l \in Nat /\ ~(l < 3)
    <3>1. l \in Nat BY LenProperties
    <3>2. ~(Len(g) < 3) BY <1>2, <2>1, Zenon
    <3> QED BY <3>1, <3>2
  <2>3. /\ f \in Seq(Views) /\ m = (IF l <= 3 THEN l ELSE 3)
        /\ \A d \in Nat : d < m => f[m - d] = g[l - d]
    <3>1. 3 \in Nat \ {0} OBVIOUS
    <3> QED BY <3>1, LastNIs
  <2>5. Chains3 = Triples(f) BY <1>2, <2>1 DEF Chains3
  <2> HIDE DEF f, l, m
  <2>6. m = 3 /\ l >= 3 BY <2>2, <2>3
  <2>7. \A d \in 0..2 : f[3 - d] = g[l - d] /\ 3 - d \in 1..3 BY <2>3, <2>6
  <2>8. PICK chains : chains = Chains3 OBVIOUS
  <2>9. Len(f) = 3 BY <2>6 DEF m
  <2>10. /\ chains \in SUBSET [1..3 -> Int] /\ IsFiniteSet(chains)
         /\ \A c \in chains : \A k \in 1..3 : c[k] \in f[k]
    BY <2>3, <2>5, <2>8, <2>9, TriplesAre
  <2>11. \A c \in chains : \A d \in 0..2 : c[3 - d] \in g[l - d] BY <2>7, <2>10
  <2>12. l = Len(fifo') BY <2>1 DEF l
  <2> QED BY <2>1, <2>6, <2>8, <2>10, <2>11, <2>12
<1> QED BY <1>1, <1>2

\* A chain of four takes a blob of each frame of a full fifo.
LEMMA Chains4Are ==
  ASSUME fifo' \in Seq(Views), Len(fifo') <= 4
  PROVE  /\ Chains4 \in SUBSET [1..4 -> Int] /\ IsFiniteSet(Chains4)
         /\ \A c \in Chains4 : Len(fifo') = 4 /\ \A k \in 1..4 : c[k] \in fifo'[k]
<1>1. CASE Len(fifo') < 4 BY <1>1, FS_EmptySet DEF Chains4
<1>2. CASE ~(Len(fifo') < 4)
  <2>1. PICK f \in Seq(Views) : f = fifo' OBVIOUS
  <2> DEFINE l == Len(f)
  <2>2. l \in Nat /\ l <= 4 /\ ~(l < 4) BY <1>2, <2>1, LenProperties
  <2> HIDE DEF l
  <2>3. l = 4 BY <2>2
  <2>4. Chains4 = Quadruples(f) BY <1>2, <2>1 DEF Chains4
  <2>5. PICK chains : chains = Chains4 OBVIOUS
  <2>6. Len(f) = 4 BY <2>3 DEF l
  <2>7. /\ chains \in SUBSET [1..4 -> Int] /\ IsFiniteSet(chains)
        /\ \A c \in chains : \A k \in 1..4 : c[k] \in f[k]
    BY <2>4, <2>5, <2>6, QuadruplesAre
  <2> QED BY <2>1, <2>5, <2>6, <2>7
<1> QED BY <1>1, <1>2

\* The path of a new target
LEMMA ChainPathIs ==
  ASSUME NEW n \in Nat, NEW c \in [1..n -> Int]
  PROVE  /\ ChainPath(c) \in Paths /\ Len(ChainPath(c)) = n /\ DOMAIN ChainPath(c) = 1..n
         /\ \A k \in 1..n : ChainPath(c)[k].pos = c[k] /\ ChainPath(c)[k].valid
<1>1. ChainPath(c) = [k \in 1..n |-> [pos |-> c[k], valid |-> TRUE]] BY DEF ChainPath, Info
<1>2. \A k \in 1..n : [pos |-> c[k], valid |-> TRUE] \in Infos BY DEF Infos
<1>3. ChainPath(c) \in Seq(Infos)
  <2> DEFINE x == [k \in 1..n |-> [pos |-> c[k], valid |-> TRUE]]
  <2>1. x \in [1..n -> Infos] BY <1>2
  <2> HIDE DEF x
  <2>2. x \in Seq(Infos) BY <2>1
  <2> QED BY <1>1, <2>2 DEF x
<1> QED BY <1>1, <1>3 DEF Paths

\* The targets made of a list of chains
LEMMA TargetsAre ==
  ASSUME NEW n \in Nat, NEW S \in SUBSET [1..n -> Int], NEW chains \in Seq(S), NEW first \in Nat
  PROVE  /\ Targets(chains, first + 1) \in Seq(Records)
         /\ Len(Targets(chains, first + 1)) = Len(chains)
         /\ \A i \in 1..Len(chains) :
               Targets(chains, first + 1)[i] = Target(first + i, ChainPath(chains[i]), TRUE)
<1>1. DOMAIN chains = 1..Len(chains) /\ Len(chains) \in Nat /\ \A i \in 1..Len(chains) : chains[i] \in S
  BY ElementOfSeq
<1>2. \A i \in 1..Len(chains) : first + 1 + i - 1 = first + i /\ first + i \in Nat BY <1>1
<1>3. Targets(chains, first + 1) =
         [i \in 1..Len(chains) |-> Target(first + 1 + i - 1, ChainPath(chains[i]), TRUE)]
  BY <1>1 DEF Targets, ChainPath
<1>4. \A i \in 1..Len(chains) : Targets(chains, first + 1)[i] =
                                Target(first + i, ChainPath(chains[i]), TRUE)
  BY <1>2, <1>3
<1>5. \A i \in 1..Len(chains) : Target(first + i, ChainPath(chains[i]), TRUE) \in Records
  <2>1. \A i \in 1..Len(chains) : ChainPath(chains[i]) \in Paths BY <1>1, ChainPathIs
  <2> QED BY <1>2, <2>1 DEF Target, Records
<1>6. Targets(chains, first + 1) \in Seq(Records)
  <2> DEFINE x == Targets(chains, first + 1)
             l == Len(chains)
  <2>1. DOMAIN x = 1..l /\ l \in Nat /\ \A i \in 1..l : x[i] \in Records
    BY <1>1, <1>3, <1>4, <1>5
  <2> HIDE DEF x, l
  <2>2. x = [i \in 1..l |-> x[i]] BY <1>3 DEF x, l
  <2>3. x \in [1..l -> Records] BY <2>1, <2>2
  <2>4. x \in Seq(Records) BY <2>1, <2>3
  <2> QED BY <2>4 DEF x
<1>7. Len(Targets(chains, first + 1)) = Len(chains)
  <2>1. DOMAIN Targets(chains, first + 1) = 1..Len(chains) BY <1>3
  <2> QED BY <1>1, <1>6, <2>1, LenProperties
<1> QED BY <1>4, <1>6, <1>7

-----------------------------------------------------------------------------
(* Trackers: a target and its next info                                     *)

\* The history has a length of four at least.
LEMMA HistoryIs == History \in Nat \ {0} /\ History >= 4
BY TrackersAssumption

\* The prediction of a path of three infos or more is a point.
LEMMA PredictedIs ==
  ASSUME NEW path \in Paths, Len(path) >= 3
  PROVE  Speed(path) \in Int /\ Predicted(path) \in Int
<1> DEFINE n == Len(path)
<1>1. n \in Nat /\ n >= 3 BY LenProperties DEF Paths
<1>2. \A k \in 1..n : path[k].pos \in Int
  <2>1. \A k \in 1..n : path[k] \in Infos BY ElementOfSeq DEF Paths
  <2> QED BY <2>1 DEF Infos
<1> HIDE DEF n
<1>3. path[1].pos \in Int /\ path[3].pos \in Int /\ path[n].pos \in Int BY <1>1, <1>2
<1>4. CASE n = 3
  <2>1. Speed(path) = (path[3].pos - path[1].pos) \div 2 BY <1>4 DEF Speed, n
  <2> QED BY <1>3, <2>1 DEF Predicted, Last, n
<1>5. CASE n # 3
  <2>1. Speed(path) = Median(Motion(path, n), Motion(path, n - 1), Motion(path, n - 2))
    BY <1>5 DEF Speed, n
  <2>2. ASSUME NEW k \in 2..n PROVE Motion(path, k) \in Int
    <3>1. k \in 1..n /\ k - 1 \in 1..n BY <1>1
    <3>2. path[k].pos \in Int /\ path[k - 1].pos \in Int BY <1>2, <3>1
    <3> QED BY <3>2 DEF Motion
  <2>3. Motion(path, n) \in Int /\ Motion(path, n - 1) \in Int /\ Motion(path, n - 2) \in Int
    <3>1. n \in 2..n /\ n - 1 \in 2..n /\ n - 2 \in 2..n BY <1>1, <1>5
    <3> QED BY <2>2, <3>1
  <2>4. Median(Motion(path, n), Motion(path, n - 1), Motion(path, n - 2)) \in Int
    BY <2>3, MedianIs
  <2> QED BY <1>3, <2>1, <2>4 DEF Predicted, Last, n
<1> QED BY <1>4, <1>5

\* The least of some natural numbers
LEMMA MinIs ==
  ASSUME NEW T \in SUBSET Nat, T # {}
  PROVE  Min(T) \in T /\ \A n \in T : Min(T) <= n
<1>1. \E m \in T : \A n \in T : m <= n BY Least
<1> QED BY <1>1 DEF Min

\* The nearest blob is one of the blobs.
LEMMA NearestIs ==
  ASSUME NEW blobs \in SUBSET Int, blobs # {}, NEW path, Predicted(path) \in Int
  PROVE  Nearest(blobs, path) \in blobs
<1>1. PICK p \in Int : p = Predicted(path) OBVIOUS
<1> DEFINE dists == {Distance(b, p) : b \in blobs}
<1>2. \A b \in blobs : Distance(b, p) \in Nat BY DEF Distance
<1>3. dists \in SUBSET Nat /\ dists # {} BY <1>2
<1>4. PICK d \in dists : \A e \in dists : d <= e
  <2> HIDE DEF dists
  <2> QED BY <1>3, Least
<1>5. d \in Nat /\ \A b \in blobs : d <= Distance(b, p) BY <1>3, <1>4
<1>6. \A b \in blobs : Distance(b, p) = d => b = p + d \/ b = p - d BY <1>5 DEF Distance
<1>7. \E b \in blobs : Distance(b, p) = d BY <1>4
<1>8. \E b \in blobs : Distance(b, p) = d /\ \A c \in blobs : Distance(c, p) = d => c <= b
  <2>1. CASE p + d \in blobs /\ Distance(p + d, p) = d
    <3>1. p - d <= p + d BY <1>5
    <3> QED BY <1>5, <1>6, <2>1, <3>1
  <2>2. CASE ~(p + d \in blobs /\ Distance(p + d, p) = d)
    <3>1. \A b \in blobs : Distance(b, p) = d => b = p - d BY <1>6, <2>2
    <3>2. p - d <= p - d BY <1>5
    <3> QED BY <1>7, <3>1, <3>2
  <2> QED BY <2>1, <2>2
<1>9. PICK b \in blobs : Distance(b, p) = d /\ \A c \in blobs : Distance(c, p) = d => c <= b
  BY <1>8
<1>10. \A c \in blobs : \/ Distance(b, p) < Distance(c, p)
                        \/ Distance(b, p) = Distance(c, p) /\ c <= b
  BY <1>2, <1>5, <1>9
<1> QED BY <1>1, <1>10 DEF Nearest

\* The info that a path is extended by is its last one; what was there moves on.
LEMMA ExtendIs ==
  ASSUME NEW path \in Paths, NEW info \in Infos
  PROVE  /\ Extend(path, info) \in Paths
         /\ Len(Extend(path, info)) = IF Len(path) < History THEN Len(path) + 1 ELSE History
         /\ Last(Extend(path, info)) = info
         /\ \A d \in Nat : d + 1 < Len(Extend(path, info)) =>
               Extend(path, info)[Len(Extend(path, info)) - (d + 1)] = path[Len(path) - d]
<1>1. path \in Seq(Infos) /\ History \in Nat \ {0} BY HistoryIs DEF Paths
<1> DEFINE x == LastN(Append(path, info), History)
<1>2. x \in Seq(Infos) /\ Len(x) = IF Len(path) < History THEN Len(path) + 1 ELSE History
  BY <1>1, ShiftIs
<1>3. x[Len(x)] = info BY <1>1, ShiftIs
<1>4. \A d \in Nat : d + 1 < Len(x) => x[Len(x) - (d + 1)] = path[Len(path) - d]
  BY <1>1, ShiftIs
<1>5. Extend(path, info) = x BY DEF Extend
<1> HIDE DEF x
<1> QED BY <1>2, <1>3, <1>4, <1>5 DEF Last, Paths

\* A path is extended by a prediction, or by a measurement of one of the blobs.
LEMMA MatchIs ==
  ASSUME NEW path \in Paths, Len(path) >= 3, NEW blobs \in SUBSET Int
  PROVE  \E info \in Infos : /\ Match(blobs, path) = Extend(path, info)
                             /\ info.valid <=> blobs # {}
                             /\ info.valid => info.pos \in blobs
<1>1. Predicted(path) \in Int BY PredictedIs
<1>2. CASE blobs = {}
  <2> DEFINE info == Info(Predicted(path), FALSE)
  <2>1. info \in Infos /\ info.valid = FALSE BY <1>1 DEF Info, Infos
  <2>2. Match(blobs, path) = Extend(path, info) BY <1>2 DEF Match
  <2> HIDE DEF info
  <2> QED BY <1>2, <2>1, <2>2
<1>3. CASE blobs # {}
  <2> DEFINE info == Info(Nearest(blobs, path), TRUE)
  <2>1. Nearest(blobs, path) \in blobs BY <1>1, <1>3, NearestIs
  <2>2. info \in Infos /\ info.valid = TRUE /\ info.pos \in blobs BY <2>1 DEF Info, Infos
  <2>3. Match(blobs, path) = Extend(path, info) BY <1>3 DEF Match
  <2> HIDE DEF info
  <2> QED BY <1>3, <2>2, <2>3
<1> QED BY <1>2, <1>3

\* What a path says it measured, counted from the end, was in the frames of the fifo f.
Measured(path, f) ==
    \A d \in Nat : (d < Len(path) /\ d < Len(f) /\ path[Len(path) - d].valid)
                      => path[Len(path) - d].pos \in f[Len(f) - d]

\* A path and the fifo go on together.
LEMMA MeasuredGoesOn ==
  ASSUME NEW path \in Paths, NEW f \in Seq(Views), NEW n \in {3, 4}, Measured(path, f),
         NEW blobs \in Views, NEW info \in Infos, info.valid => info.pos \in blobs
  PROVE  Measured(Extend(path, info), LastN(Append(f, blobs), n))
<1> DEFINE p == Extend(path, info)
           g == LastN(Append(f, blobs), n)
           l == Len(path)
           m == Len(f)
<1>1. /\ l \in Nat /\ Len(p) = (IF l < History THEN l + 1 ELSE History)
      /\ p[Len(p)] = info
      /\ \A d \in Nat : d + 1 < Len(p) => p[Len(p) - (d + 1)] = path[l - d]
  BY LenProperties, ExtendIs DEF Paths, Last
<1>2. n \in Nat \ {0} OBVIOUS
<1>3. m \in Nat /\ Len(g) = (IF m < n THEN m + 1 ELSE n)
  <2>1. Len(g) = IF m < n THEN m + 1 ELSE n BY <1>2, ShiftIs
  <2> QED BY <2>1, LenProperties
<1>4. g[Len(g)] = blobs BY <1>2, ShiftIs
<1>5. \A d \in Nat : d + 1 < Len(g) => g[Len(g) - (d + 1)] = f[m - d] BY <1>2, ShiftIs
<1>6. \A d \in Nat : (d < l /\ d < m /\ path[l - d].valid) => path[l - d].pos \in f[m - d]
  BY DEF Measured
<1>7. \A k \in Int : k - 0 = k OBVIOUS
<1> HIDE DEF p, g, l, m
<1>8. Len(p) \in Nat /\ Len(g) \in Nat BY <1>1, <1>2, <1>3, HistoryIs
<1>9. ASSUME NEW d \in Nat, d < Len(p), d < Len(g), p[Len(p) - d].valid
      PROVE  p[Len(p) - d].pos \in g[Len(g) - d]
  <2>1. CASE d = 0
    <3>1. Len(p) - d = Len(p) /\ Len(g) - d = Len(g) BY <1>8, <2>1
    <3>2. info.valid BY <1>1, <1>9, <3>1
    <3> QED BY <1>1, <1>4, <3>1, <3>2
  <2>2. CASE d # 0
    <3>1. PICK e \in Nat : d = e + 1
      <4>1. d - 1 \in Nat /\ d = (d - 1) + 1 BY <2>2
      <4> QED BY <4>1
    <3>2. e < l /\ e < m BY <1>1, <1>2, <1>3, <1>9, <3>1, HistoryIs
    <3>3. p[Len(p) - d] = path[l - e] /\ g[Len(g) - d] = f[m - e] BY <1>1, <1>5, <1>9, <3>1
    <3> QED BY <1>6, <1>9, <3>2, <3>3
  <2> QED BY <2>1, <2>2
<1> QED BY <1>9 DEF Measured, p, g

-----------------------------------------------------------------------------
(* Trackers: the targets of GEO                                             *)

\* A GEO target goes on: to its path comes one info, a blob or a prediction.
GoesOn(t, r, blobs) ==
    /\ r.id = t.id /\ (r.living => ~LatestInvalid(r.path, NumFramesLiving))
    /\ \E info \in Infos : r.path = Extend(t.path, info) /\ (info.valid => info.pos \in blobs)

\* Of some blobs one is nearest to a point.
LEMMA OneIsNearest ==
  ASSUME NEW near \in SUBSET Int, near # {}, NEW p \in Int
  PROVE  {b \in near : \A c \in near : Distance(b, p) <= Distance(c, p)} # {}
<1> DEFINE dists == {Distance(b, p) : b \in near}
<1>1. dists \in SUBSET Nat /\ dists # {}
  <2>1. \A b \in near : Distance(b, p) \in Nat BY DEF Distance
  <2> QED BY <2>1
<1>2. PICK d \in dists : \A e \in dists : d <= e
  <2> HIDE DEF dists
  <2> QED BY <1>1, Least
<1>3. PICK b \in near : Distance(b, p) = d BY <1>2
<1>4. \A c \in near : d <= Distance(c, p) BY <1>2
<1> QED BY <1>3, <1>4

\* An unused blob is one of the frame that no target before has.
LEMMA UnusedIs ==
  ASSUME NEW done, NEW t, Predicted(t.path) \in Int, NEW blobs \in SUBSET (0..Width)
  PROVE  Unused(done, t, blobs) \in SUBSET (blobs \ Taken(done))
<1> DEFINE near == Gate(blobs \ Taken(done), t.path)
           p == Predicted(t.path)
           nearest == {b \in near : \A c \in near : Distance(b, p) <= Distance(c, p)}
<1>1. near \in SUBSET (blobs \ Taken(done)) BY DEF Gate, Near
<1>2. 0..Width \in SUBSET Nat /\ 0..Width \in SUBSET Int BY TrackersAssumption
<1>3. Unused(done, t, blobs) = IF near = {} THEN {} ELSE {Min(nearest)} BY DEF Unused
<1>4. ASSUME near # {} PROVE Min(nearest) \in near
  <2>1. near \in SUBSET Int BY <1>1, <1>2
  <2>2. nearest # {} /\ nearest \in SUBSET Nat
    <3> HIDE DEF near, p
    <3> QED BY <1>1, <1>2, <1>4, <2>1, OneIsNearest DEF p
  <2>3. Min(nearest) \in nearest
    <3> HIDE DEF nearest
    <3> QED BY <2>2, MinIs
  <2> HIDE DEF near, p
  <2> QED BY <2>3
<1> HIDE DEF near, nearest
<1> QED BY <1>1, <1>3, <1>4

\* One GEO target goes on, with a blob that no target before it used.
LEMMA GeoMatchIs ==
  ASSUME NEW done, NEW t \in Records, t.living => Len(t.path) >= 3,
         Len(t.path) <= History, NEW blobs \in SUBSET (0..Width)
  PROVE  \E r \in Records :
            /\ GeoMatch(done, t, blobs) = Append(done, r)
            /\ ~t.living => r = t
            /\ Len(t.path) <= Len(r.path) /\ Len(r.path) <= History
            /\ t.living => /\ GoesOn(t, r, blobs)
                           /\ Last(r.path).valid => Last(r.path).pos \notin Taken(done)
<1>1. CASE ~t.living
  <2>1. GeoMatch(done, t, blobs) = Append(done, t) BY <1>1 DEF GeoMatch
  <2>2. Len(t.path) \in Nat BY LenProperties DEF Records, Paths
  <2>3. Len(t.path) <= Len(t.path) BY <2>2
  <2> QED BY <1>1, <2>1, <2>3
<1>2. CASE t.living
  <2> DEFINE used == Unused(done, t, blobs)
             path == Match(used, t.path)
             lives == /\ InBounds(Predicted(path)) /\ ~LatestInvalid(path, NumFramesLiving)
                      /\ ~RepeatsPoint(path)
             r == Target(t.id, path, lives)
  <2>1. t.path \in Paths /\ t.id \in Nat BY DEF Records
  <2>2. Predicted(t.path) \in Int BY <1>2, <2>1, PredictedIs
  <2>3. used \in SUBSET (blobs \ Taken(done)) BY <2>2, UnusedIs
  <2>4. 0..Width \in SUBSET Int BY TrackersAssumption
  <2>5. GeoMatch(done, t, blobs) = Append(done, r) BY <1>2 DEF GeoMatch
  <2> HIDE DEF used
  <2>7. used \in SUBSET Int /\ used \in SUBSET blobs BY <2>3, <2>4
  <2>8. PICK info \in Infos : /\ path = Extend(t.path, info)
                              /\ info.valid <=> used # {}
                              /\ info.valid => info.pos \in used
    BY <1>2, <2>1, <2>7, MatchIs
  <2>9. /\ path \in Paths /\ Last(path) = info
        /\ Len(path) = IF Len(t.path) < History THEN Len(t.path) + 1 ELSE History
    BY <2>1, <2>8, ExtendIs
  <2>10. lives \in BOOLEAN /\ (lives => ~LatestInvalid(path, NumFramesLiving)) OBVIOUS
  <2> HIDE DEF path, lives
  <2>11. r \in Records BY <2>1, <2>9, <2>10 DEF Target, Records
  <2>12. r.id = t.id /\ r.path = path /\ r.living = lives BY DEF Target
  <2> HIDE DEF r
  <2>13. GoesOn(t, r, blobs) BY <2>3, <2>8, <2>10, <2>12 DEF GoesOn
  <2>14. Last(r.path).valid => Last(r.path).pos \notin Taken(done) BY <2>3, <2>8, <2>9, <2>12
  <2>15. Len(t.path) <= Len(r.path) /\ Len(r.path) <= History
    <3>1. Len(t.path) \in Nat BY <2>1, LenProperties DEF Paths
    <3> QED BY <2>9, <2>12, <3>1, HistoryIs
  <2> QED BY <1>2, <2>5, <2>11, <2>13, <2>14, <2>15
<1> QED BY <1>1, <1>2

\* Induction up to a number, over the set of the numbers for which a fact holds.
LEMMA CountedUp ==
  ASSUME NEW n \in Nat, NEW T, 0 \in T, \A k \in 0..(n - 1) : k \in T => k + 1 \in T
  PROVE  n \in T
<1> DEFINE Missing == {k \in 0..n : k \notin T}
<1> SUFFICES ASSUME Missing # {} PROVE FALSE OBVIOUS
<1>1. Missing \in SUBSET Nat OBVIOUS
<1>2. PICK m \in Missing : \A k \in Missing : m <= k
  <2> HIDE DEF Missing
  <2> QED BY <1>1, Least
<1>3. m \in 0..n /\ m \notin T /\ m # 0 OBVIOUS
<1>4. m - 1 \in 0..(n - 1) BY <1>3
<1>5. m - 1 \in T BY <1>2, <1>3, <1>4
<1> QED BY <1>3, <1>4, <1>5

\* The steps of trackTargets() over the list of targets
Follows(f, blobs) ==
    \A n \in 0..Len(targets) :
        f[n] = IF n = 0 THEN <<>> ELSE GeoMatch(f[n - 1], targets[n], blobs)

\* The recursive function in Tracked exists.
LEMMA TrackedExists ==
  ASSUME NEW list \in Seq(Records), list = targets, NEW blobs
  PROVE  \E f : Follows(f, blobs) /\ Tracked(blobs) = f[Len(list)]
<1> DEFINE Shape(f, m) ==
       f = [n \in 0..m |-> IF n = 0 THEN <<>> ELSE GeoMatch(f[n - 1], targets[n], blobs)]
<1> DEFINE T == {m \in 0..Len(list) : \E f : Shape(f, m)}
<1>1. 0 \in T
  <2> DEFINE f == [n \in 0..0 |-> <<>>]
  <2>1. Shape(f, 0) OBVIOUS
  <2> HIDE DEF Shape, f
  <2> QED BY <2>1
<1>2. ASSUME NEW k \in 0..(Len(list) - 1), k \in T PROVE k + 1 \in T
  <2>1. PICK f : Shape(f, k) BY <1>2
  <2> DEFINE last == GeoMatch(f[k], targets[k + 1], blobs)
             g == [n \in 0..(k + 1) |-> IF n = k + 1 THEN last ELSE f[n]]
  <2>2. \A n \in 0..(k + 1) : g[n] = IF n = 0 THEN <<>> ELSE GeoMatch(g[n - 1], targets[n], blobs)
    <3> SUFFICES ASSUME NEW n \in 0..(k + 1)
                 PROVE  g[n] = IF n = 0 THEN <<>> ELSE GeoMatch(g[n - 1], targets[n], blobs)
      OBVIOUS
    <3>1. CASE n = k + 1
      <4>1. g[n] = last /\ n # 0 /\ n - 1 = k /\ k \in 0..(k + 1) /\ k # k + 1 BY <3>1
      <4>2. g[n - 1] = f[k] BY <4>1
      <4> QED BY <3>1, <4>1, <4>2
    <3>2. CASE n \in 0..k
      <4>1. g[n] = f[n] BY <3>2
      <4>2. n # 0 => n - 1 \in 0..(k + 1) /\ n - 1 # k + 1 BY <3>2
      <4>3. n # 0 => g[n - 1] = f[n - 1] BY <4>2
      <4>4. f[n] = IF n = 0 THEN <<>> ELSE GeoMatch(f[n - 1], targets[n], blobs)
        BY <2>1, <3>2
      <4> QED BY <4>1, <4>3, <4>4
    <3> QED BY <3>1, <3>2
  <2>3. Shape(g, k + 1)
    <3>1. g = [n \in 0..(k + 1) |-> g[n]] OBVIOUS
    <3> HIDE DEF g
    <3> QED BY <2>2, <3>1
  <2>4. k + 1 \in 0..Len(list) OBVIOUS
  <2> HIDE DEF Shape, g
  <2> QED BY <2>3, <2>4
<1>3. Len(list) \in T
  <2>1. Len(list) \in Nat BY LenProperties
  <2> HIDE DEF T
  <2> QED BY <1>1, <1>2, <2>1, CountedUp
<1>4. \E f : Shape(f, Len(list)) BY <1>3
<1> DEFINE done == CHOOSE f : Shape(f, Len(list))
<1>5. Shape(done, Len(list))
  <2> HIDE DEF Shape
  <2> QED BY <1>4
<1>6. Tracked(blobs) = done[Len(list)]
  <2>1. Len(targets) = Len(list) OBVIOUS
  <2> QED BY <2>1 DEF Tracked
<1>7. Follows(done, blobs)
  <2>1. Len(targets) = Len(list) OBVIOUS
  <2> HIDE DEF done
  <2> QED BY <1>5, <2>1 DEF Follows
<1> QED BY <1>6, <1>7

\* What a frame makes of the list of GEO: a lost target stays as it was, a living one
\* goes on, and no two take the same blob.
Follow(old, new, blobs) ==
    /\ new \in Seq(Records) /\ Len(new) = Len(old)
    /\ \A i \in 1..Len(old) :
          /\ Len(old[i].path) <= Len(new[i].path) /\ Len(new[i].path) <= History
          /\ ~old[i].living => new[i] = old[i]
          /\ old[i].living => GoesOn(old[i], new[i], blobs)
    /\ \A i, j \in 1..Len(old) :
          (/\ i < j /\ old[i].living /\ old[j].living
           /\ Last(new[i].path).valid /\ Last(new[j].path).valid)
             => Last(new[i].path).pos # Last(new[j].path).pos

LEMMA TrackedIs ==
  ASSUME NEW list \in Seq(Records), list = targets, NEW blobs \in SUBSET (0..Width),
         \A i \in 1..Len(list) : /\ Len(list[i].path) <= History
                                 /\ list[i].living => Len(list[i].path) >= 3
  PROVE  Follow(list, Tracked(blobs), blobs)
<1>1. PICK f : Follows(f, blobs) /\ Tracked(blobs) = f[Len(list)] BY TrackedExists
<1> DEFINE l == Len(list)
           Same(old, new) == /\ Len(old.path) <= Len(new.path) /\ Len(new.path) <= History
                             /\ ~old.living => new = old
                             /\ old.living => GoesOn(old, new, blobs)
           Each(n) == \A i \in 1..n : Same(list[i], f[n][i])
           Apart(n) == \A i, j \in 1..n :
                          (/\ i < j /\ list[i].living /\ list[j].living
                           /\ Last(f[n][i].path).valid /\ Last(f[n][j].path).valid)
                             => Last(f[n][i].path).pos # Last(f[n][j].path).pos
           Right(n) == f[n] \in Seq(Records) /\ Len(f[n]) = n /\ Each(n) /\ Apart(n)
           T == {n \in 0..l : Right(n)}
<1>2. l \in Nat BY LenProperties
<1>3. 0 \in T
  <2>1. f[0] = <<>> BY <1>1, <1>2 DEF Follows
  <2>2. f[0] \in Seq(Records) /\ Len(f[0]) = 0 BY <2>1
  <2>3. Right(0) BY <2>2
  <2> HIDE DEF Right
  <2> QED BY <1>2, <2>3
<1>4. ASSUME NEW n \in 0..(l - 1), n \in T PROVE n + 1 \in T
  <2>1. Right(n) BY <1>4
  <2>2. n + 1 \in 1..l /\ n + 1 \in 0..l /\ n + 1 # 0 /\ (n + 1) - 1 = n /\ n \in Nat BY <1>2
  <2>3. f[n + 1] = GeoMatch(f[n], list[n + 1], blobs) BY <1>1, <2>2 DEF Follows
  <2>4. PICK t : t = list[n + 1] OBVIOUS
  <2>5. t \in Records /\ Len(t.path) <= History /\ (t.living => Len(t.path) >= 3)
    BY <2>2, <2>4, ElementOfSeq
  <2>6. PICK r \in Records :
            /\ GeoMatch(f[n], t, blobs) = Append(f[n], r)
            /\ ~t.living => r = t
            /\ Len(t.path) <= Len(r.path) /\ Len(r.path) <= History
            /\ t.living => /\ GoesOn(t, r, blobs)
                           /\ Last(r.path).valid => Last(r.path).pos \notin Taken(f[n])
    BY <2>5, GeoMatchIs
  <2>7. /\ f[n + 1] \in Seq(Records) /\ Len(f[n + 1]) = n + 1 /\ f[n + 1][n + 1] = r
        /\ \A i \in 1..n : f[n + 1][i] = f[n][i]
    <3>1. f[n + 1] = Append(f[n], r) BY <2>3, <2>4, <2>6
    <3>2. f[n] \in Seq(Records) /\ Len(f[n]) = n BY <2>1
    <3> HIDE DEF Right, Each, Apart
    <3> QED BY <3>1, <3>2
  <2>8. \A i \in 1..(n + 1) : i \in 1..n \/ i = n + 1 BY <2>2
  <2>9. Each(n + 1)
    <3>1. Same(list[n + 1], r) BY <2>4, <2>6
    <3>2. \A i \in 1..n : Same(list[i], f[n][i]) BY <2>1
    <3> HIDE DEF Same
    <3> QED BY <2>7, <2>8, <3>1, <3>2
  <2>10. Apart(n + 1)
    <3> SUFFICES ASSUME NEW i \in 1..(n + 1), NEW j \in 1..(n + 1), i < j,
                        list[i].living, list[j].living,
                        Last(f[n + 1][i].path).valid, Last(f[n + 1][j].path).valid
                 PROVE  Last(f[n + 1][i].path).pos # Last(f[n + 1][j].path).pos
      OBVIOUS
    <3>1. i \in 1..n /\ f[n + 1][i] = f[n][i]
      <4>1. i \in 1..n BY <2>2
      <4> QED BY <2>7, <4>1
    <3>2. CASE j \in 1..n
      <4>1. f[n + 1][j] = f[n][j] BY <2>7, <3>2
      <4>2. Apart(n) BY <2>1
      <4>3. Last(f[n][i].path).valid /\ Last(f[n][j].path).valid BY <3>1, <4>1
      <4>4. Last(f[n][i].path).pos # Last(f[n][j].path).pos BY <3>1, <3>2, <4>2, <4>3
      <4> QED BY <3>1, <4>1, <4>4
    <3>3. CASE j = n + 1
      <4>1. i \in DOMAIN f[n] /\ targets[i].living /\ Last(f[n][i].path).valid
        BY <2>1, <3>1
      <4>2. Last(f[n][i].path).pos \in Taken(f[n]) BY <4>1 DEF Taken
      <4>3. f[n + 1][j] = r /\ t.living BY <2>4, <2>7, <3>3
      <4>4. Last(r.path).pos \notin Taken(f[n]) BY <2>6, <4>3
      <4> QED BY <3>1, <4>2, <4>3, <4>4
    <3> QED BY <2>8, <3>2, <3>3
  <2>11. Right(n + 1) BY <2>7, <2>9, <2>10
  <2> HIDE DEF Right
  <2> QED BY <2>2, <2>11
<1>5. l \in T
  <2> HIDE DEF T, l
  <2> QED BY <1>2, <1>3, <1>4, CountedUp
<1>6. Right(l) BY <1>5
<1> QED BY <1>1, <1>6 DEF Follow

-----------------------------------------------------------------------------
(* Trackers: what LEO selects                                               *)

\* selectFastestAeTarget() selects one of the targets, or none when no one moves.
LEMMA FastestIs ==
  ASSUME NEW n \in Nat, NEW indices \in SUBSET (1..n), NEW ts
  PROVE  Fastest(ts, indices) = NoTarget \/ \E i \in indices : Fastest(ts, indices) = ts[i]
<1> DEFINE best == {i \in indices : /\ Pace(ts[i].path) > 0
                                    /\ \A j \in indices : Pace(ts[i].path) >= Pace(ts[j].path)}
<1>1. Fastest(ts, indices) = IF best = {} THEN NoTarget ELSE ts[Min(best)] BY DEF Fastest
<1>2. best # {} => Min(best) \in indices
  <2>1. best \in SUBSET Nat
    <3>1. indices \in SUBSET Nat /\ best \in SUBSET indices OBVIOUS
    <3> HIDE DEF best
    <3> QED BY <3>1
  <2>2. best # {} => Min(best) \in best
    <3> HIDE DEF best
    <3> QED BY <2>1, MinIs
  <2> QED BY <2>2
<1> HIDE DEF best
<1> QED BY <1>1, <1>2

-----------------------------------------------------------------------------
(* Trackers: the inductive invariant                                        *)

\* The types of the state
Types ==
    /\ mode \in Modes /\ fifo \in Seq(Views) /\ Len(fifo) <= 4 /\ age \in 0..MaxAge
    /\ targets \in Seq(Records) /\ \A i \in 1..Len(targets) : Len(targets[i].path) <= History
    /\ found \in BOOLEAN /\ verified \in BOOLEAN
    /\ nextId \in Nat \ {0} /\ manual \in Clicks \cup {None}

\* A target that an association has made
New(t, n) == t.living /\ Len(t.path) = n /\ \A k \in 1..n : t.path[k].valid

\* The stages of LEO and SC: nothing, candidates, one target
OneStage ==
    mode \in {"leo", "sc"} =>
        /\ ~found => ~verified /\ targets = <<>>
        /\ (found /\ ~verified) =>
              targets # <<>> /\ \A i \in 1..Len(targets) : New(targets[i], 3)
        /\ verified =>
              /\ found /\ Len(targets) = 1
              /\ targets[1].living => Len(targets[1].path) >= 4
              /\ ~targets[1].living => mode = "leo" /\ targets[1] = NoTarget

\* The stages of GEO: it has found something while one target lives.
ManyStage ==
    mode = "geo" =>
        /\ found <=> \E i \in 1..Len(targets) : targets[i].living
        /\ verified <=> found
        /\ Len(fifo) = IF age < 4 THEN age ELSE 4
        /\ found => age >= 4
        /\ \A i \in 1..Len(targets) : Len(targets[i].path) >= 4 /\ targets[i].id < nextId

\* Manual finds nothing, and without a strategy there is no target.
NoStage ==
    /\ mode = "init" => targets = <<>>
    /\ mode \in {"init", "manual"} => ~found /\ ~verified

\* A target that lives was seen lately, and where it says it was.
Window(m) == CASE m = "geo" -> NumFramesLiving [] m = "leo" -> LeoWindow [] OTHER -> 1

SeenAndReal ==
    \A i \in 1..Len(targets) : targets[i].living =>
        /\ ~LatestInvalid(targets[i].path, Window(mode))
        /\ mode \in {"leo", "sc", "geo"} => Measured(targets[i].path, fifo)

TrackersInv == Types /\ NoStage /\ OneStage /\ ManyStage /\ SeenAndReal

\* A frame arrives.
LEMMA ArrivesIs ==
  ASSUME Types, NEW blobs \in Views, NEW n \in {3, 4}, Arrives(blobs, n)
  PROVE  /\ mode' = mode /\ manual' = manual /\ age' = age + 1 /\ age' \in 0..MaxAge
         /\ fifo' = LastN(Append(fifo, blobs), n) /\ fifo' \in Seq(Views)
         /\ Len(fifo') = (IF Len(fifo) < n THEN Len(fifo) + 1 ELSE n) /\ Len(fifo') <= 4
         /\ fifo'[Len(fifo')] = blobs
<1>1. mode' = mode /\ manual' = manual /\ age' = age + 1 /\ age < MaxAge
  BY DEF Arrives
<1>2. fifo \in Seq(Views) /\ n \in Nat \ {0} /\ age \in 0..MaxAge BY DEF Types
<1>3. MaxAge \in Nat BY TrackersAssumption
<1>4. age' \in 0..MaxAge BY <1>1, <1>2, <1>3
<1>5. PICK f \in Seq(Views) : f = fifo BY <1>2
<1> DEFINE g == LastN(Append(f, blobs), n)
<1>6. g \in Seq(Views) /\ Len(g) = (IF Len(f) < n THEN Len(f) + 1 ELSE n) /\ g[Len(g)] = blobs
  <2>1. n \in Nat \ {0} /\ blobs \in Views OBVIOUS
  <2>2. g \in Seq(Views) BY <2>1, ShiftIs
  <2>3. Len(g) = IF Len(f) < n THEN Len(f) + 1 ELSE n BY <2>1, ShiftIs
  <2>4. g[Len(g)] = blobs BY <2>1, ShiftIs
  <2> QED BY <2>2, <2>3, <2>4
<1>8. Len(f) \in Nat BY LenProperties
<1>9. fifo' = g BY <1>5 DEF Arrives
<1>10. PICK h \in Seq(Views) : h = g BY <1>6
<1> HIDE DEF g
<1>11. Len(h) <= 4 BY <1>6, <1>8, <1>10
<1>12. fifo' = h /\ h[Len(h)] = blobs /\ h = LastN(Append(fifo, blobs), n)
  BY <1>5, <1>6, <1>9, <1>10 DEF g
<1>13. Len(h) = IF Len(fifo) < n THEN Len(fifo) + 1 ELSE n BY <1>5, <1>6, <1>10
<1> QED BY <1>1, <1>4, <1>11, <1>12, <1>13

\* A path whose last info is valid was seen lately, whatever the window is.
LEMMA SeenLast ==
  ASSUME NEW path \in Paths, Len(path) >= 1, Last(path).valid, NEW w \in Nat \ {0}
  PROVE  ~LatestInvalid(path, w)
<1> DEFINE n == Len(path)
<1>1. n \in Nat /\ DOMAIN path = 1..n /\ path[n].valid BY LenProperties DEF Paths, Last
<1> HIDE DEF n
<1>2. n \in 1..n /\ n > n - w BY <1>1 DEF n
<1> QED BY <1>1, <1>2 DEF LatestInvalid, n

\* The windows are of one info or more.
LEMMA WindowIs ==
  ASSUME NEW m
  PROVE  Window(m) \in Nat \ {0}
<1>1. NumFramesLiving \in Nat \ {0} /\ LeoWindow \in Nat \ {0} BY TrackersAssumption
<1> QED BY <1>1 DEF Window

\* What an association makes of a set of chains through the last frames
Made(ts, chains, first, n) ==
    /\ ts \in Seq(Records)
    /\ \A i \in 1..Len(ts) :
          /\ New(ts[i], n) /\ ts[i].id = first + i
          /\ \E c \in chains : ts[i].path = ChainPath(c)

LEMMA AssociationIs ==
  ASSUME NEW n \in {3, 4}, NEW chains \in SUBSET [1..n -> Int], IsFiniteSet(chains),
         NEW first \in Nat
  PROVE  /\ Made(Targets(InOrder(chains), first + 1), chains, first, n)
         /\ Len(Targets(InOrder(chains), first + 1)) = Len(InOrder(chains))
         /\ \A c \in chains : \E i \in 1..Len(Targets(InOrder(chains), first + 1)) :
               Targets(InOrder(chains), first + 1)[i].path = ChainPath(c)
<1> DEFINE list == InOrder(chains)
           ts == Targets(list, first + 1)
<1>1. n \in Nat OBVIOUS
<1>2. list \in Seq(chains) /\ \A c \in chains : \E i \in DOMAIN list : list[i] = c
  BY <1>1, InOrderIs
<1> HIDE DEF list
<1>3. /\ ts \in Seq(Records) /\ Len(ts) = Len(list)
      /\ \A i \in 1..Len(list) : ts[i] = Target(first + i, ChainPath(list[i]), TRUE)
  BY <1>1, <1>2, TargetsAre
<1>4. DOMAIN list = 1..Len(list) /\ \A i \in 1..Len(list) : list[i] \in chains
  BY <1>2, LenProperties, ElementOfSeq
<1> HIDE DEF ts
<1>5. ASSUME NEW i \in 1..Len(list)
      PROVE  ts[i].path = ChainPath(list[i]) /\ ts[i].living /\ ts[i].id = first + i
  <2>1. ts[i] = [id |-> first + i, path |-> ChainPath(list[i]), living |-> TRUE] BY <1>3 DEF Target
  <2> QED BY <2>1
<1>6. ASSUME NEW i \in 1..Len(list) PROVE New(ts[i], n)
  <2>1. list[i] \in [1..n -> Int] BY <1>4
  <2>2. Len(ChainPath(list[i])) = n /\ \A k \in 1..n : ChainPath(list[i])[k].valid
    BY <1>1, <2>1, ChainPathIs
  <2> QED BY <1>5, <2>2 DEF New
<1>7. Made(ts, chains, first, n) BY <1>3, <1>4, <1>5, <1>6 DEF Made
<1>8. ASSUME NEW c \in chains PROVE \E i \in 1..Len(ts) : ts[i].path = ChainPath(c)
  <2>1. PICK i \in 1..Len(list) : list[i] = c BY <1>2, <1>4
  <2> QED BY <1>3, <1>5, <2>1
<1> QED BY <1>3, <1>7, <1>8 DEF ts, list

\* A chain through the last n frames measures what was in them.
LEMMA ChainIsReal ==
  ASSUME NEW n \in {3, 4}, NEW c \in [1..n -> Int], NEW f \in Seq(Views), Len(f) >= n,
         \A d \in 0..(n - 1) : c[n - d] \in f[Len(f) - d]
  PROVE  Measured(ChainPath(c), f)
<1>1. Len(ChainPath(c)) = n /\ \A k \in 1..n : ChainPath(c)[k].pos = c[k] BY ChainPathIs
<1>2. ASSUME NEW d \in Nat, d < n PROVE ChainPath(c)[n - d].pos \in f[Len(f) - d]
  <2>1. d \in 0..(n - 1) /\ n - d \in 1..n BY <1>2
  <2> QED BY <1>1, <2>1
<1> QED BY <1>1, <1>2 DEF Measured

\* A target just made was seen in the latest frame.
LEMMA NewIsSeen ==
  ASSUME NEW t \in Records, NEW n \in {3, 4}, New(t, n), NEW m
  PROVE  ~LatestInvalid(t.path, Window(m))
<1>1. t.path \in Paths /\ Len(t.path) = n /\ t.path[n].valid BY DEF New, Records
<1>2. Window(m) \in Nat \ {0} BY WindowIs
<1> QED BY <1>1, <1>2, SeenLast DEF Last

\* What association finds for LEO or SC waits for its verification.
LEMMA FindKeeps ==
  ASSUME TrackersInv, NEW blobs \in Views, NEW m \in {"leo", "sc"}, NEW chains,
         Find(blobs, m, InOrder(chains)), chains \in SUBSET Chains3
  PROVE  TrackersInv'
<1>1. /\ Types /\ NoStage /\ OneStage /\ mode = m /\ ~found /\ Arrives(blobs, 3)
      /\ targets' = Targets(InOrder(chains), 1) /\ found' = (targets' # <<>>)
      /\ verified' = verified /\ nextId' = nextId
  BY DEF TrackersInv, Find
<1>2. /\ mode' = m /\ manual' = manual /\ age' \in 0..MaxAge
      /\ fifo' \in Seq(Views) /\ Len(fifo') <= 4
  BY <1>1, ArrivesIs
<1>3. /\ chains \in SUBSET [1..3 -> Int] /\ IsFiniteSet(chains)
      /\ \A c \in chains : /\ Len(fifo') >= 3
                           /\ \A d \in 0..2 : c[3 - d] \in fifo'[Len(fifo') - d]
  <2>1. /\ Chains3 \in SUBSET [1..3 -> Int] /\ IsFiniteSet(Chains3)
        /\ \A c \in Chains3 : /\ Len(fifo') >= 3
                              /\ \A d \in 0..2 : c[3 - d] \in fifo'[Len(fifo') - d]
    BY <1>2, Chains3Are
  <2>2. IsFiniteSet(chains) BY <2>1, FS_Subset
  <2> QED BY <2>1, <2>2
<1>4. Made(targets', chains, 0, 3)
  <2>1. 0 + 1 = 1 OBVIOUS
  <2> QED BY <1>1, <1>3, <2>1, AssociationIs
<1>5. PICK ts, f : ts = targets' /\ f = fifo' OBVIOUS
<1>6. /\ ts \in Seq(Records) /\ f \in Seq(Views)
      /\ \A i \in 1..Len(ts) : ts[i] \in Records /\ New(ts[i], 3) /\ \E c \in chains : ts[i].path = ChainPath(c)
  BY <1>2, <1>4, <1>5, ElementOfSeq DEF Made
<1>7. Types'
  <2>1. ASSUME NEW i \in 1..Len(ts) PROVE Len(ts[i].path) <= History
    <3>1. Len(ts[i].path) = 3 BY <1>6 DEF New
    <3> QED BY <3>1, HistoryIs
  <2> QED BY <1>1, <1>2, <1>5, <1>6, <2>1 DEF Types
<1>8. NoStage' BY <1>2 DEF NoStage
<1>9. OneStage'
  <2>1. ~verified BY <1>1 DEF OneStage
  <2> QED BY <1>1, <1>2, <1>5, <1>6, <2>1 DEF OneStage
<1>10. ManyStage' BY <1>2 DEF ManyStage
<1>11. SeenAndReal'
  <2>1. ASSUME NEW i \in 1..Len(ts) PROVE Measured(ts[i].path, f)
    <3>1. PICK c \in chains : ts[i].path = ChainPath(c) BY <1>6
    <3>2. Len(f) >= 3 /\ \A d \in 0..(3 - 1) : c[3 - d] \in f[Len(f) - d] BY <1>3, <1>5
    <3>3. c \in [1..3 -> Int] BY <1>3
    <3> QED BY <1>6, <3>1, <3>2, <3>3, ChainIsReal
  <2>2. \A i \in 1..Len(ts) : ~LatestInvalid(ts[i].path, Window(mode')) BY <1>6, NewIsSeen
  <2> QED BY <1>5, <2>1, <2>2 DEF SeenAndReal
<1> QED BY <1>7, <1>8, <1>9, <1>10, <1>11 DEF TrackersInv

LEMMA LeoFindKeeps ==
  ASSUME TrackersInv, NEW blobs \in Views, LeoFind(blobs)
  PROVE  TrackersInv'
<1> DEFINE all == {c \in Chains3 : PassesLeo(c)}
           chains == IF Cardinality(blobs) < MaxLeoBlobs THEN all ELSE {}
<1>1. all \in SUBSET Chains3 OBVIOUS
<1>2. InOrder({}) = <<>>
  <2>1. {} \in SUBSET [1..3 -> Int] /\ IsFiniteSet({}) BY FS_EmptySet
  <2>2. InOrder({}) \in Seq({}) BY <2>1, InOrderIs
  <2> QED BY <2>2
<1>3. Find(blobs, "leo", InOrder(chains)) BY <1>2 DEF LeoFind
<1> HIDE DEF all
<1>4. chains \in SUBSET Chains3 BY <1>1
<1> HIDE DEF chains
<1> QED BY <1>3, <1>4, FindKeeps

LEMMA ScFindKeeps ==
  ASSUME TrackersInv, NEW blobs \in Views, ScFind(blobs)
  PROVE  TrackersInv'
<1> DEFINE chains == Deduplicated({c \in Chains3 : PassesSc(c)}, 3)
<1>1. chains \in SUBSET Chains3 BY DEF Deduplicated
<1>2. Find(blobs, "sc", InOrder(chains)) BY DEF ScFind
<1> HIDE DEF chains
<1> QED BY <1>1, <1>2, FindKeeps

\* LEO or SC gives up.
LEMMA ForgetKeeps ==
  ASSUME TrackersInv, NEW blobs \in Views, mode \in {"leo", "sc"}, Arrives(blobs, 3), Forget,
         nextId' = nextId
  PROVE  TrackersInv'
<1>1. /\ mode' = mode /\ manual' = manual /\ age' \in 0..MaxAge
      /\ fifo' \in Seq(Views) /\ Len(fifo') <= 4
  BY ArrivesIs DEF TrackersInv
<1>2. targets' = <<>> /\ ~found' /\ ~verified' /\ found' \in BOOLEAN /\ verified' \in BOOLEAN
  BY DEF Forget
<1>3. PICK ts : ts = targets' OBVIOUS
<1>4. ts \in Seq(Records) /\ Len(ts) = 0 BY <1>2, <1>3
<1>5. Types' BY <1>1, <1>2, <1>3, <1>4 DEF TrackersInv, Types
<1>6. NoStage' /\ ManyStage' BY <1>1 DEF NoStage, ManyStage
<1>7. OneStage' BY <1>1, <1>2 DEF OneStage
<1>8. SeenAndReal' BY <1>3, <1>4 DEF SeenAndReal
<1> QED BY <1>5, <1>6, <1>7, <1>8 DEF TrackersInv

\* LEO or SC goes on with one target.
LEMMA SelectedKeeps ==
  ASSUME TrackersInv, NEW blobs \in Views, mode \in {"leo", "sc"}, found, Arrives(blobs, 3),
         nextId' = nextId, NEW t \in Records, Selected(t), Len(t.path) <= History,
         t.living => /\ Len(t.path) >= 4 /\ ~LatestInvalid(t.path, Window(mode))
                     /\ Measured(t.path, fifo'),
         ~t.living => mode = "leo" /\ t = NoTarget
  PROVE  TrackersInv'
<1>1. /\ mode' = mode /\ manual' = manual /\ age' \in 0..MaxAge
      /\ fifo' \in Seq(Views) /\ Len(fifo') <= 4
  BY ArrivesIs DEF TrackersInv
<1>2. targets' = <<t>> /\ found' /\ verified' /\ found' \in BOOLEAN /\ verified' \in BOOLEAN
  BY DEF Selected, TrackersInv, Types
<1>3. PICK ts : ts = targets' OBVIOUS
<1>4. ts \in Seq(Records) /\ Len(ts) = 1 /\ ts[1] = t /\ \A i \in 1..Len(ts) : ts[i] = t
  BY <1>2, <1>3
<1>5. Types' BY <1>1, <1>2, <1>3, <1>4 DEF TrackersInv, Types
<1>6. NoStage' /\ ManyStage' BY <1>1 DEF NoStage, ManyStage
<1>7. OneStage' BY <1>1, <1>2, <1>3, <1>4 DEF OneStage
<1>8. SeenAndReal' BY <1>1, <1>3, <1>4 DEF SeenAndReal
<1> QED BY <1>5, <1>6, <1>7, <1>8 DEF TrackersInv

\* The path of a target of LEO or SC after a frame
LEMMA MatchGoesOn ==
  ASSUME NEW path \in Paths, Len(path) >= 3, Len(path) <= History, NEW f \in Seq(Views),
         Measured(path, f), NEW blobs \in Views, NEW used \in SUBSET blobs, NEW n \in {3, 4}
  PROVE  /\ Match(used, path) \in Paths
         /\ Len(Match(used, path)) = IF Len(path) < History THEN Len(path) + 1 ELSE History
         /\ Len(Match(used, path)) >= 4 /\ Len(Match(used, path)) <= History
         /\ Last(Match(used, path)).valid <=> used # {}
         /\ Measured(Match(used, path), LastN(Append(f, blobs), n))
<1>1. blobs \in SUBSET Int BY ViewsAreFinite
<1>2. PICK info \in Infos : /\ Match(used, path) = Extend(path, info)
                            /\ info.valid <=> used # {}
                            /\ info.valid => info.pos \in used
  BY <1>1, MatchIs
<1>3. /\ Match(used, path) \in Paths /\ Last(Match(used, path)) = info
      /\ Len(Match(used, path)) = IF Len(path) < History THEN Len(path) + 1 ELSE History
  BY <1>2, ExtendIs
<1>4. Len(path) \in Nat BY LenProperties DEF Paths
<1>5. Len(Match(used, path)) >= 4 /\ Len(Match(used, path)) <= History BY <1>3, <1>4, HistoryIs
<1>6. Measured(Match(used, path), LastN(Append(f, blobs), n)) BY <1>2, MeasuredGoesOn
<1> QED BY <1>2, <1>3, <1>5, <1>6

\* A target with another path
LEMMA NextPathIs ==
  ASSUME NEW t \in Records, NEW path \in Paths
  PROVE  /\ [t EXCEPT !.path = path] \in Records /\ [t EXCEPT !.path = path].path = path
         /\ [t EXCEPT !.path = path].living = t.living /\ [t EXCEPT !.path = path].id = t.id
BY DEF Records

LEMMA LeoVerifyKeeps ==
  ASSUME TrackersInv, NEW blobs \in Views, LeoVerify(blobs)
  PROVE  TrackersInv'
<1> DEFINE Path(t) == Match(Near(blobs, t.path, ThresholdAe), t.path)
           Seen(t) == [t EXCEPT !.path = Path(t)]
           seen == [i \in DOMAIN targets |-> Seen(targets[i])]
           living == {i \in DOMAIN targets : Consistent(seen[i].path)}
<1>1. mode = "leo" /\ found /\ ~verified /\ Arrives(blobs, 3) /\ nextId' = nextId
  BY DEF LeoVerify
<1>2. IF living = {} THEN Forget ELSE Selected(Fastest(seen, living)) BY DEF LeoVerify
<1>3. PICK ts \in Seq(Records) : ts = targets BY DEF TrackersInv, Types
<1>4. PICK f \in Seq(Views) : f = fifo BY DEF TrackersInv, Types
<1>5. fifo' = LastN(Append(f, blobs), 3) BY <1>1, <1>4, ArrivesIs DEF TrackersInv
<1>6. /\ DOMAIN ts = 1..Len(ts) /\ Len(ts) \in Nat
      /\ \A i \in 1..Len(ts) : ts[i] \in Records /\ ts[i].path \in Paths
  <2>1. DOMAIN ts = 1..Len(ts) /\ Len(ts) \in Nat BY LenProperties
  <2>2. \A i \in 1..Len(ts) : ts[i] \in Records BY ElementOfSeq
  <2> QED BY <2>1, <2>2 DEF Records
<1>7. ASSUME NEW i \in 1..Len(ts)
      PROVE  New(ts[i], 3) /\ Measured(ts[i].path, f)
  <2>1. New(ts[i], 3) BY <1>1, <1>3 DEF TrackersInv, OneStage
  <2>2. ts[i].living BY <2>1 DEF New
  <2> QED BY <1>1, <1>3, <1>4, <2>1, <2>2 DEF TrackersInv, SeenAndReal
<1>8. ASSUME NEW i \in 1..Len(ts)
      PROVE  /\ seen[i] \in Records /\ seen[i].living /\ Len(seen[i].path) = 4
             /\ Measured(seen[i].path, fifo')
  <2> DEFINE old == ts[i].path
             new == Path(ts[i])
  <2>1. Len(old) = 3 /\ ts[i].living /\ old \in Paths BY <1>6, <1>7 DEF New
  <2>2. Near(blobs, old, ThresholdAe) \in SUBSET blobs BY DEF Near
  <2>3. Len(old) >= 3 /\ Len(old) <= History /\ Len(old) < History BY <2>1, HistoryIs
  <2>4. new \in Paths /\ Len(new) = 4 /\ Measured(new, fifo')
    <3> HIDE DEF old
    <3>1. /\ Match(Near(blobs, old, ThresholdAe), old) \in Paths
          /\ Len(Match(Near(blobs, old, ThresholdAe), old)) =
                IF Len(old) < History THEN Len(old) + 1 ELSE History
          /\ Measured(Match(Near(blobs, old, ThresholdAe), old), LastN(Append(f, blobs), 3))
      BY <1>7, <2>1, <2>2, <2>3, MatchGoesOn DEF old
    <3> QED BY <1>5, <2>1, <2>3, <3>1 DEF old
  <2>5. seen[i] = Seen(ts[i]) BY <1>3, <1>6
  <2>6. seen[i] \in Records /\ seen[i].living /\ seen[i].path = new
    <3> HIDE DEF seen, new
    <3> QED BY <1>6, <2>1, <2>4, <2>5, NextPathIs DEF new
  <2> QED BY <2>4, <2>6
<1> HIDE DEF seen
<1>9. CASE living = {} BY <1>1, <1>2, <1>9, ForgetKeeps
<1>10. CASE living # {}
  <2> DEFINE t == Fastest(seen, living)
  <2>1. Selected(t) BY <1>2, <1>10
  <2>2. /\ living \in SUBSET (1..Len(ts))
        /\ \A i \in living : i \in 1..Len(ts) /\ Consistent(seen[i].path)
    BY <1>3, <1>6
  <2> HIDE DEF living
  <2>4. t = NoTarget \/ \E i \in living : t = seen[i] BY <1>6, <2>2, FastestIs
  <2> HIDE DEF t
  <2>5. ASSUME NEW i \in living
        PROVE  /\ seen[i] \in Records /\ Len(seen[i].path) = 4 /\ seen[i].living
               /\ Measured(seen[i].path, fifo')
               /\ ~LatestInvalid(seen[i].path, Window(mode))
    <3>1. i \in 1..Len(ts) /\ Consistent(seen[i].path) BY <2>2
    <3>2. /\ seen[i] \in Records /\ Len(seen[i].path) = 4 /\ seen[i].living
          /\ Measured(seen[i].path, fifo')
      BY <1>8, <3>1
    <3>3. Last(seen[i].path).valid BY <3>1, <3>2 DEF Consistent, Last
    <3>4. seen[i].path \in Paths BY <3>2 DEF Records
    <3>5. Window(mode) \in Nat \ {0} BY WindowIs
    <3>6. ~LatestInvalid(seen[i].path, Window(mode)) BY <3>2, <3>3, <3>4, <3>5, SeenLast
    <3> QED BY <3>2, <3>6
  <2>6. NoTarget \in Records /\ ~NoTarget.living /\ Len(NoTarget.path) = 0
    BY DEF NoTarget, Target, Records, Paths
  <2>7. /\ t \in Records /\ Len(t.path) <= History
        /\ t.living => /\ Len(t.path) >= 4 /\ ~LatestInvalid(t.path, Window(mode))
                       /\ Measured(t.path, fifo')
    <3>1. CASE t = NoTarget BY <2>6, <3>1, HistoryIs
    <3>2. ASSUME NEW i \in living, t = seen[i]
          PROVE  /\ t \in Records /\ Len(t.path) <= History
                 /\ t.living => /\ Len(t.path) >= 4 /\ ~LatestInvalid(t.path, Window(mode))
                                /\ Measured(t.path, fifo')
      <4>1. /\ t \in Records /\ Len(t.path) = 4 /\ ~LatestInvalid(t.path, Window(mode))
            /\ Measured(t.path, fifo')
        BY <2>5, <3>2
      <4> QED BY <4>1, HistoryIs
    <3> QED BY <2>4, <3>1, <3>2
  <2>8. ~t.living => t = NoTarget BY <2>4, <2>5
  <2> QED BY <1>1, <2>1, <2>7, <2>8, SelectedKeeps
<1> QED BY <1>9, <1>10

LEMMA ScVerifyKeeps ==
  ASSUME TrackersInv, NEW blobs \in Views, ScVerify(blobs)
  PROVE  TrackersInv'
<1> DEFINE Used(t) == Near(blobs, t.path, ThresholdMeo)
           seen == {t \in Range(targets) : Used(t) # {}}
<1>1. mode = "sc" /\ found /\ ~verified /\ Arrives(blobs, 3) /\ nextId' = nextId
  BY DEF ScVerify
<1>2. \/ Forget
      \/ \E t \in seen : Selected([t EXCEPT !.path = Match(Used(t), t.path)])
  BY DEF ScVerify
<1>3. CASE Forget BY <1>1, <1>3, ForgetKeeps
<1>4. ASSUME NEW t \in seen, Selected([t EXCEPT !.path = Match(Used(t), t.path)])
      PROVE  TrackersInv'
  <2>1. PICK ts \in Seq(Records) : ts = targets BY DEF TrackersInv, Types
  <2>2. PICK f \in Seq(Views) : f = fifo BY DEF TrackersInv, Types
  <2>3. fifo' = LastN(Append(f, blobs), 3) BY <1>1, <2>2, ArrivesIs DEF TrackersInv
  <2>4. PICK i \in 1..Len(ts) : t = ts[i]
    <3>1. DOMAIN ts = 1..Len(ts) BY LenProperties
    <3> QED BY <2>1, <3>1 DEF Range
  <2>5. t \in Records /\ t.path \in Paths
    <3>1. t \in Records BY <2>4, ElementOfSeq
    <3> QED BY <3>1 DEF Records
  <2>6. New(t, 3) BY <1>1, <2>1, <2>4 DEF TrackersInv, OneStage
  <2>7. Measured(t.path, f) /\ t.living BY <1>1, <2>1, <2>2, <2>4, <2>6 DEF TrackersInv, SeenAndReal, New
  <2> DEFINE p == Match(Used(t), t.path)
             r == [t EXCEPT !.path = p]
  <2>8. Used(t) \in SUBSET blobs /\ Used(t) # {} BY DEF Near
  <2>9. Len(t.path) >= 3 /\ Len(t.path) <= History
    <3>1. Len(t.path) = 3 BY <2>6 DEF New
    <3> QED BY <3>1, HistoryIs
  <2> HIDE DEF Used
  <2>10. p \in Paths /\ Len(p) >= 4 /\ Len(p) <= History /\ Last(p).valid /\ Measured(p, fifo')
    <3>1. PICK used \in SUBSET blobs : used = Used(t) BY <2>8
    <3>2. /\ Match(used, t.path) \in Paths
          /\ Len(Match(used, t.path)) >= 4 /\ Len(Match(used, t.path)) <= History
          /\ Last(Match(used, t.path)).valid <=> used # {}
          /\ Measured(Match(used, t.path), LastN(Append(f, blobs), 3))
      BY <2>5, <2>7, <2>9, MatchGoesOn
    <3> QED BY <2>3, <2>8, <3>1, <3>2
  <2> HIDE DEF p
  <2>11. r \in Records /\ r.path = p /\ r.living BY <2>5, <2>7, <2>10, NextPathIs
  <2>12. ~LatestInvalid(p, Window(mode))
    <3>1. Len(p) >= 1 /\ Window(mode) \in Nat \ {0} BY <2>10, WindowIs
    <3> QED BY <2>10, <3>1, SeenLast
  <2>13. Selected(r) BY <1>4 DEF p
  <2> HIDE DEF r
  <2> QED BY <1>1, <2>10, <2>11, <2>12, <2>13, SelectedKeeps
<1> QED BY <1>2, <1>3, <1>4

\* The selected target goes on, or LEO or SC gives up.
LEMMA TrackOneKeeps ==
  ASSUME TrackersInv, NEW blobs \in Views, NEW used \in SUBSET blobs, NEW m \in {"leo", "sc"},
         NEW radius, TrackOne(blobs, used, m, radius)
  PROVE  TrackersInv'
<1> DEFINE t == targets[1]
           near == Near(used, t.path, radius)
           p == Match(near, t.path)
           kept == IF m = "leo" THEN KeepLeo(p) ELSE KeepSc(p)
           r == [t EXCEPT !.path = p]
<1>1. mode = m /\ found /\ verified /\ Arrives(blobs, 3) /\ nextId' = nextId BY DEF TrackOne
<1>2. IF t.living /\ kept THEN Selected(r) ELSE Forget BY DEF TrackOne
<1>3. CASE ~(t.living /\ kept)
  <2>1. Forget BY <1>2, <1>3
  <2> QED BY <1>1, <2>1, ForgetKeeps
<1>4. CASE t.living /\ kept
  <2>1. PICK ts \in Seq(Records) : ts = targets BY DEF TrackersInv, Types
  <2>2. PICK f \in Seq(Views) : f = fifo BY DEF TrackersInv, Types
  <2>3. fifo' = LastN(Append(f, blobs), 3) BY <1>1, <2>2, ArrivesIs DEF TrackersInv
  <2>4. Len(ts) = 1 /\ 1 \in 1..Len(ts) BY <1>1, <2>1 DEF TrackersInv, OneStage
  <2>5. t \in Records /\ t.path \in Paths
    <3>1. t \in Records BY <2>1, <2>4, ElementOfSeq
    <3> QED BY <3>1 DEF Records
  <2>6. Len(t.path) >= 4 /\ Len(t.path) <= History /\ Measured(t.path, f)
    BY <1>1, <1>4, <2>1, <2>2, <2>4 DEF TrackersInv, OneStage, Types, SeenAndReal
  <2>7. near \in SUBSET blobs BY DEF Near
  <2>8. Selected(r) BY <1>2, <1>4
  <2>9. t.living /\ kept BY <1>4
  <2>10. PICK old \in Paths : old = t.path BY <2>5
  <2> HIDE DEF near, t
  <2>11. Len(old) >= 3
    <3>1. Len(old) \in Nat BY LenProperties DEF Paths
    <3> QED BY <2>6, <2>10, <3>1
  <2>12. p \in Paths /\ Len(p) >= 4 /\ Len(p) <= History /\ Measured(p, fifo')
    <3>1. PICK u \in SUBSET blobs : u = near BY <2>7
    <3>2. /\ Match(u, old) \in Paths
          /\ Len(Match(u, old)) >= 4 /\ Len(Match(u, old)) <= History
          /\ Measured(Match(u, old), LastN(Append(f, blobs), 3))
      BY <2>6, <2>10, <2>11, MatchGoesOn
    <3> QED BY <2>3, <2>10, <3>1, <3>2
  <2> HIDE DEF p
  <2>13. r \in Records /\ r.path = p /\ r.living BY <2>5, <2>9, <2>12, NextPathIs
  <2>14. ~LatestInvalid(p, Window(mode))
    <3>1. CASE m = "leo" BY <1>1, <2>9, <3>1 DEF KeepLeo, Window
    <3>2. CASE m = "sc"
      <4>1. Last(p).valid BY <2>9, <3>2 DEF KeepSc
      <4>2. Len(p) >= 1 /\ Window(mode) \in Nat \ {0} BY <2>12, WindowIs
      <4> QED BY <2>12, <4>1, <4>2, SeenLast
    <3> QED BY <3>1, <3>2
  <2> HIDE DEF r
  <2> QED BY <1>1, <2>8, <2>12, <2>13, <2>14, SelectedKeeps
<1> QED BY <1>3, <1>4

LEMMA LeoTrackKeeps ==
  ASSUME TrackersInv, NEW blobs \in Views, LeoTrack(blobs)
  PROVE  TrackersInv'
BY TrackOneKeeps DEF LeoTrack

LEMMA ScTrackKeeps ==
  ASSUME TrackersInv, NEW blobs \in Views, ScTrack(blobs)
  PROVE  TrackersInv'
BY TrackOneKeeps DEF ScTrack

\* No chain, no candidate
LEMMA NoChains == InOrder({}) = <<>>
<1>1. {} \in SUBSET [1..4 -> Int] /\ IsFiniteSet({}) BY FS_EmptySet
<1>2. InOrder({}) \in Seq({}) BY <1>1, InOrderIs
<1> QED BY <1>2

\* New targets of GEO were measured in the four frames of the fifo.
LEMMA GeoAssociationIs ==
  ASSUME fifo' \in Seq(Views), Len(fifo') <= 4, NEW chains \in SUBSET Chains4, nextId \in Nat \ {0}
  PROVE  /\ Targets(InOrder(chains), nextId) \in Seq(Records)
         /\ Len(Targets(InOrder(chains), nextId)) = Len(InOrder(chains))
         /\ \A i \in 1..Len(Targets(InOrder(chains), nextId)) :
               LET t == Targets(InOrder(chains), nextId)[i]
               IN  /\ New(t, 4) /\ t.id = nextId + i - 1 /\ Measured(t.path, fifo')
                   /\ Len(fifo') = 4
         /\ \A c \in chains : \E i \in 1..Len(Targets(InOrder(chains), nextId)) :
               Targets(InOrder(chains), nextId)[i].path = ChainPath(c)
<1>1. /\ chains \in SUBSET [1..4 -> Int] /\ IsFiniteSet(chains)
      /\ \A c \in chains : Len(fifo') = 4 /\ \A k \in 1..4 : c[k] \in fifo'[k]
  <2>1. /\ Chains4 \in SUBSET [1..4 -> Int] /\ IsFiniteSet(Chains4)
        /\ \A c \in Chains4 : Len(fifo') = 4 /\ \A k \in 1..4 : c[k] \in fifo'[k]
    BY Chains4Are
  <2>2. IsFiniteSet(chains) BY <2>1, FS_Subset
  <2> QED BY <2>1, <2>2
<1>2. PICK first \in Nat : nextId = first + 1
  <2>1. nextId - 1 \in Nat /\ nextId = (nextId - 1) + 1 OBVIOUS
  <2> QED BY <2>1
<1>3. PICK ts : ts = Targets(InOrder(chains), nextId) OBVIOUS
<1>4. /\ Made(ts, chains, first, 4) /\ Len(ts) = Len(InOrder(chains))
      /\ \A c \in chains : \E i \in 1..Len(ts) : ts[i].path = ChainPath(c)
  BY <1>1, <1>2, <1>3, AssociationIs
<1>5. ASSUME NEW i \in 1..Len(ts)
      PROVE  /\ New(ts[i], 4) /\ ts[i].id = nextId + i - 1 /\ Measured(ts[i].path, fifo')
             /\ Len(fifo') = 4
  <2>1. New(ts[i], 4) /\ ts[i].id = first + i /\ \E c \in chains : ts[i].path = ChainPath(c)
    BY <1>4 DEF Made
  <2>2. PICK c \in chains : ts[i].path = ChainPath(c) BY <2>1
  <2>3. PICK f \in Seq(Views) : f = fifo' OBVIOUS
  <2>4. c \in [1..4 -> Int] /\ Len(f) = 4 /\ \A k \in 1..4 : c[k] \in f[k] BY <1>1, <2>3
  <2>5. Len(f) >= 4 /\ \A d \in 0..(4 - 1) : c[4 - d] \in f[Len(f) - d]
    <3>1. \A d \in 0..(4 - 1) : 4 - d \in 1..4 OBVIOUS
    <3> QED BY <2>4, <3>1
  <2>6. Measured(ChainPath(c), f) BY <2>4, <2>5, ChainIsReal
  <2>7. first + i = nextId + i - 1
    <3>1. i \in Nat OBVIOUS
    <3> QED BY <1>2, <3>1
  <2> QED BY <2>1, <2>2, <2>3, <2>4, <2>6, <2>7
<1>6. ts \in Seq(Records) BY <1>4 DEF Made
<1> QED BY <1>3, <1>4, <1>5, <1>6

LEMMA GeoFindKeeps ==
  ASSUME TrackersInv, NEW blobs \in Views, GeoFind(blobs)
  PROVE  TrackersInv'
<1> DEFINE chains == Deduplicated({c \in Chains4 : PassesGeo(c)}, 3)
<1>1. /\ Types /\ ManyStage /\ mode = "geo" /\ ~found /\ Arrives(blobs, 4)
      /\ targets' = Targets(InOrder(chains), nextId) /\ nextId' = nextId + Len(targets')
      /\ found' = (targets' # <<>>) /\ verified' = found'
  BY DEF TrackersInv, GeoFind
<1>2. chains \in SUBSET Chains4 BY DEF Deduplicated
<1> HIDE DEF chains
<1>3. /\ mode' = "geo" /\ manual' = manual /\ age' = age + 1 /\ age' \in 0..MaxAge
      /\ fifo' \in Seq(Views) /\ Len(fifo') <= 4
      /\ Len(fifo') = IF Len(fifo) < 4 THEN Len(fifo) + 1 ELSE 4
  BY <1>1, ArrivesIs
<1>4. nextId \in Nat \ {0} /\ age \in Nat BY <1>1 DEF Types
<1>5. PICK ts, f : ts = targets' /\ f = fifo' OBVIOUS
<1>6. /\ ts \in Seq(Records)
      /\ \A i \in 1..Len(ts) : /\ New(ts[i], 4) /\ ts[i].id = nextId + i - 1
                               /\ Measured(ts[i].path, f) /\ Len(f) = 4
  BY <1>1, <1>2, <1>3, <1>4, <1>5, GeoAssociationIs
<1>7. /\ Len(ts) \in Nat /\ (ts # <<>> => 1 \in 1..Len(ts))
      /\ \A i \in 1..Len(ts) : ts[i] \in Records
  BY <1>6, LenProperties, ElementOfSeq
<1>8. Len(f) = IF age' < 4 THEN age' ELSE 4
  <2>1. Len(fifo) = IF age < 4 THEN age ELSE 4 BY <1>1 DEF ManyStage
  <2>2. PICK l, m, a : l = Len(fifo) /\ m = Len(f) /\ a = age' OBVIOUS
  <2>3. l = (IF age < 4 THEN age ELSE 4) /\ a = age + 1 /\ m = (IF l < 4 THEN l + 1 ELSE 4)
    BY <1>3, <1>5, <2>1, <2>2
  <2>4. m = IF a < 4 THEN a ELSE 4 BY <1>4, <2>3
  <2> QED BY <2>2, <2>4
<1>9. ts # <<>> => age' >= 4
  <2>1. ASSUME ts # <<>> PROVE Len(f) = 4 BY <1>6, <1>7, <2>1
  <2> QED BY <1>3, <1>8, <2>1
<1>10. \A i \in 1..Len(ts) : ts[i].living /\ Len(ts[i].path) = 4 BY <1>6 DEF New
<1>11. nextId' \in Nat \ {0} /\ \A i \in 1..Len(ts) : ts[i].id < nextId'
  <2>1. nextId' = nextId + Len(ts) BY <1>1, <1>5
  <2>2. \A i \in 1..Len(ts) : nextId + i - 1 < nextId + Len(ts) BY <1>4, <1>7
  <2> QED BY <1>4, <1>6, <1>7, <2>1, <2>2
<1>12. found' = (ts # <<>>) /\ verified' = (ts # <<>>) BY <1>1, <1>5
<1>13. Types'
  <2>1. \A i \in 1..Len(ts) : Len(ts[i].path) <= History BY <1>10, HistoryIs
  <2> QED BY <1>1, <1>3, <1>5, <1>6, <1>11, <1>12, <2>1 DEF Types
<1>14. NoStage' /\ OneStage' BY <1>3 DEF NoStage, OneStage
<1>15. ManyStage'
  <2>1. ts # <<>> <=> \E i \in 1..Len(ts) : ts[i].living
    <3>1. CASE ts = <<>>
      <4>1. Len(ts) = 0 BY <3>1
      <4>2. \A i \in 1..Len(ts) : FALSE BY <4>1
      <4> QED BY <3>1, <4>2
    <3>2. CASE ts # <<>>
      <4>1. 1 \in 1..Len(ts) /\ ts[1].living BY <1>7, <1>10, <3>2
      <4> QED BY <3>2, <4>1
    <3> QED BY <3>1, <3>2
  <2>2. ASSUME NEW i \in 1..Len(ts) PROVE Len(ts[i].path) >= 4
    <3>1. Len(ts[i].path) = 4 BY <1>10
    <3> QED BY <3>1
  <2> QED BY <1>5, <1>8, <1>9, <1>11, <1>12, <2>1, <2>2 DEF ManyStage
<1>16. SeenAndReal'
  <2>1. \A i \in 1..Len(ts) : ~LatestInvalid(ts[i].path, Window(mode')) BY <1>6, <1>7, NewIsSeen
  <2> QED BY <1>5, <1>6, <2>1 DEF SeenAndReal
<1> QED BY <1>13, <1>14, <1>15, <1>16 DEF TrackersInv

\* The elements of two sequences, one after the other
LEMMA Joined ==
  ASSUME NEW S, NEW a \in Seq(S), NEW b \in Seq(S), NEW c, c = a \o b
  PROVE  /\ c \in Seq(S) /\ Len(c) = Len(a) + Len(b)
         /\ \A i \in 1..Len(a) : i \in 1..Len(c) /\ c[i] = a[i]
         /\ \A j \in 1..Len(b) : Len(a) + j \in 1..Len(c) /\ c[Len(a) + j] = b[j]
         /\ \A i \in 1..Len(c) : i \in 1..Len(a) \/ \E j \in 1..Len(b) : i = Len(a) + j
<1>1. c \in Seq(S) /\ Len(c) = Len(a) + Len(b) OBVIOUS
<1>2. Len(a) \in Nat /\ Len(b) \in Nat BY LenProperties
<1>3. \A i \in 1..Len(a) : i \in 1..Len(c) /\ c[i] = a[i] OBVIOUS
<1>4. \A j \in 1..Len(b) : Len(a) + j \in 1..Len(c) /\ c[Len(a) + j] = b[j] OBVIOUS
<1>5. ASSUME NEW i \in 1..Len(c), i \notin 1..Len(a) PROVE \E j \in 1..Len(b) : i = Len(a) + j
  <2> DEFINE l == Len(a)
             m == Len(b)
  <2>1. i \in 1..(l + m) /\ l \in Nat /\ m \in Nat /\ i \notin 1..l BY <1>1, <1>2, <1>5
  <2> HIDE DEF l, m
  <2>2. i - l \in 1..m /\ i = l + (i - l) BY <2>1
  <2> QED BY <2>2 DEF l, m
<1> QED BY <1>1, <1>3, <1>4, <1>5

\* refindTargets() finds chains of the last four frames, or none.
LEMMA RediscoveredIs ==
  ASSUME NEW blobs, NEW tracked
  PROVE  \E chains \in SUBSET Chains4 :
            /\ Rediscovered(blobs, tracked) = InOrder(chains)
            /\ ~(age' < 5 \/ Cardinality(blobs) >= MaxRediscoveryBlobs) =>
                  chains = {c \in Deduplicated({d \in Chains4 : PassesGeo(d)}, 3) :
                               ~Overlaps(c, tracked) /\ InBounds(Predicted(ChainPath(c)))}
<1> DEFINE all == {c \in Deduplicated({d \in Chains4 : PassesGeo(d)}, 3) :
                      ~Overlaps(c, tracked) /\ InBounds(Predicted(ChainPath(c)))}
<1>1. all \in SUBSET Chains4 BY DEF Deduplicated
<1>2. Rediscovered(blobs, tracked) =
         IF age' < 5 \/ Cardinality(blobs) >= MaxRediscoveryBlobs THEN <<>> ELSE InOrder(all)
  BY DEF Rediscovered
<1> HIDE DEF all
<1>3. CASE age' < 5 \/ Cardinality(blobs) >= MaxRediscoveryBlobs
  <2>1. {} \in SUBSET Chains4 /\ Rediscovered(blobs, tracked) = InOrder({}) BY <1>2, <1>3, NoChains
  <2> QED BY <1>3, <2>1
<1>4. CASE ~(age' < 5 \/ Cardinality(blobs) >= MaxRediscoveryBlobs)
  <2>1. Rediscovered(blobs, tracked) = InOrder(all) BY <1>2, <1>4
  <2> QED BY <1>1, <2>1 DEF all
<1> QED BY <1>3, <1>4

\* What GEO has after a frame: the targets before and, behind them, new ones.
Grown(old, new, made, blobs) ==
    /\ new \in Seq(Records) /\ made \in Seq(Records) /\ Len(new) = Len(old) + Len(made)
    /\ \A i \in 1..Len(new) : i \in 1..Len(old) \/ \E j \in 1..Len(made) : i = Len(old) + j
    /\ \A j \in 1..Len(made) : Len(old) + j \in 1..Len(new) /\ new[Len(old) + j] = made[j]
    /\ \A i \in 1..Len(old) : i \in 1..Len(new)
    /\ \E tracked : Follow(old, tracked, blobs) /\ tracked = Tracked(blobs)
                    /\ \A i \in 1..Len(old) : new[i] = tracked[i]

LEMMA GeoTrackIs ==
  ASSUME TrackersInv, NEW blobs \in Views, GeoTrack(blobs)
  PROVE  \E chains \in SUBSET Chains4, made \in Seq(Records) :
            /\ made = Targets(InOrder(chains), nextId) /\ nextId' = nextId + Len(made)
            /\ Grown(targets, targets', made, blobs)
            /\ ~(age' < 5 \/ Cardinality(blobs) >= MaxRediscoveryBlobs) =>
                  chains = {c \in Deduplicated({d \in Chains4 : PassesGeo(d)}, 3) :
                               ~Overlaps(c, Tracked(blobs)) /\ InBounds(Predicted(ChainPath(c)))}
<1>1. mode = "geo" /\ Arrives(blobs, 4) BY DEF GeoTrack
<1>2. PICK old \in Seq(Records) : old = targets BY DEF TrackersInv, Types
<1>3. blobs \in SUBSET (0..Width) BY ViewsAreFinite
<1>4. ASSUME NEW i \in 1..Len(old)
      PROVE  Len(old[i].path) <= History /\ (old[i].living => Len(old[i].path) >= 3)
  <2>1. Len(old[i].path) <= History /\ Len(old[i].path) >= 4
    BY <1>1, <1>2 DEF TrackersInv, Types, ManyStage
  <2>2. old[i].path \in Paths
    <3>1. old[i] \in Records BY ElementOfSeq
    <3> QED BY <3>1 DEF Records
  <2>3. Len(old[i].path) \in Nat BY <2>2, LenProperties DEF Paths
  <2> QED BY <2>1, <2>3
<1>5. PICK tracked : tracked = Tracked(blobs) OBVIOUS
<1>6. Follow(old, tracked, blobs) BY <1>2, <1>3, <1>4, <1>5, TrackedIs
<1>7. PICK chains \in SUBSET Chains4 :
            /\ Rediscovered(blobs, tracked) = InOrder(chains)
            /\ ~(age' < 5 \/ Cardinality(blobs) >= MaxRediscoveryBlobs) =>
                  chains = {c \in Deduplicated({d \in Chains4 : PassesGeo(d)}, 3) :
                               ~Overlaps(c, tracked) /\ InBounds(Predicted(ChainPath(c)))}
  BY RediscoveredIs
<1>8. PICK made : made = Targets(InOrder(chains), nextId) OBVIOUS
<1>9. fifo' \in Seq(Views) /\ Len(fifo') <= 4 BY <1>1, ArrivesIs DEF TrackersInv
<1>10. nextId \in Nat \ {0} BY DEF TrackersInv, Types
<1>11. made \in Seq(Records) /\ Len(made) = Len(InOrder(chains))
  BY <1>8, <1>9, <1>10, GeoAssociationIs
<1>12. targets' = tracked \o made /\ nextId' = nextId + Len(made)
  BY <1>5, <1>7, <1>8, <1>11 DEF GeoTrack
<1>13. PICK new : new = targets' OBVIOUS
<1>14. tracked \in Seq(Records) /\ Len(tracked) = Len(old) BY <1>6 DEF Follow
<1>15. new = tracked \o made BY <1>12, <1>13
<1>16. /\ new \in Seq(Records) /\ Len(new) = Len(tracked) + Len(made)
       /\ \A i \in 1..Len(tracked) : i \in 1..Len(new) /\ new[i] = tracked[i]
       /\ \A j \in 1..Len(made) : Len(tracked) + j \in 1..Len(new) /\ new[Len(tracked) + j] = made[j]
       /\ \A i \in 1..Len(new) : i \in 1..Len(tracked) \/ \E j \in 1..Len(made) : i = Len(tracked) + j
  <2>1. tracked \in Seq(Records) /\ made \in Seq(Records) BY <1>11, <1>14
  <2>2. new \in Seq(Records) /\ Len(new) = Len(tracked) + Len(made) BY <1>15, <2>1, Joined
  <2>3. \A i \in 1..Len(tracked) : i \in 1..Len(new) /\ new[i] = tracked[i]
    BY <1>15, <2>1, Joined
  <2>4. \A j \in 1..Len(made) : Len(tracked) + j \in 1..Len(new) /\ new[Len(tracked) + j] = made[j]
    BY <1>15, <2>1, Joined
  <2>5. \A i \in 1..Len(new) : i \in 1..Len(tracked) \/ \E j \in 1..Len(made) : i = Len(tracked) + j
    BY <1>15, <2>1, Joined
  <2> QED BY <2>2, <2>3, <2>4, <2>5
<1>17. Grown(old, new, made, blobs) BY <1>5, <1>6, <1>11, <1>14, <1>16 DEF Grown
<1> QED BY <1>2, <1>5, <1>7, <1>8, <1>11, <1>12, <1>13, <1>17

LEMMA GeoTrackKeeps ==
  ASSUME TrackersInv, NEW blobs \in Views, GeoTrack(blobs)
  PROVE  TrackersInv'
<1>1. /\ Types /\ ManyStage /\ SeenAndReal /\ mode = "geo" /\ found /\ Arrives(blobs, 4)
      /\ found' = (\E t \in Range(targets') : t.living) /\ verified' = found'
  BY DEF TrackersInv, GeoTrack
<1>2. /\ mode' = "geo" /\ manual' = manual /\ age' = age + 1 /\ age' \in 0..MaxAge
      /\ fifo' = LastN(Append(fifo, blobs), 4) /\ fifo' \in Seq(Views) /\ Len(fifo') <= 4
      /\ Len(fifo') = IF Len(fifo) < 4 THEN Len(fifo) + 1 ELSE 4
  BY <1>1, ArrivesIs
<1>3. PICK f \in Seq(Views), g \in Seq(Views) : f = fifo /\ g = fifo' BY <1>1, <1>2 DEF Types
<1>4. PICK old \in Seq(Records) : old = targets BY <1>1 DEF Types
<1>5. PICK new : new = targets' OBVIOUS
<1>6. PICK chains \in SUBSET Chains4, made \in Seq(Records) :
            /\ made = Targets(InOrder(chains), nextId) /\ nextId' = nextId + Len(made)
            /\ Grown(old, new, made, blobs)
  <2>1. PICK chains \in SUBSET Chains4, made \in Seq(Records) :
            /\ made = Targets(InOrder(chains), nextId) /\ nextId' = nextId + Len(made)
            /\ Grown(targets, targets', made, blobs)
    BY GeoTrackIs
  <2> QED BY <1>4, <1>5, <2>1
<1>7. PICK tracked : Follow(old, tracked, blobs) /\ \A i \in 1..Len(old) : new[i] = tracked[i]
  BY <1>6 DEF Grown
<1>8. /\ new \in Seq(Records) /\ Len(new) = Len(old) + Len(made)
      /\ \A i \in 1..Len(new) : i \in 1..Len(old) \/ \E j \in 1..Len(made) : i = Len(old) + j
      /\ \A j \in 1..Len(made) : new[Len(old) + j] = made[j]
  BY <1>6 DEF Grown
<1>9. nextId \in Nat \ {0} /\ age \in Nat BY <1>1 DEF Types
<1>10. /\ made \in Seq(Records)
       /\ \A j \in 1..Len(made) : /\ New(made[j], 4) /\ made[j].id = nextId + j - 1
                                  /\ Measured(made[j].path, g)
  BY <1>2, <1>3, <1>6, <1>9, GeoAssociationIs
<1>11. /\ Len(old) \in Nat /\ Len(new) \in Nat /\ Len(made) \in Nat
       /\ DOMAIN new = 1..Len(new) /\ \A j \in 1..Len(made) : made[j] \in Records
       /\ \A i \in 1..Len(old) : old[i] \in Records /\ old[i].path \in Paths /\ old[i].id \in Nat
  <2>1. \A i \in 1..Len(old) : old[i] \in Records BY ElementOfSeq
  <2>2. \A j \in 1..Len(made) : made[j] \in Records BY <1>10, ElementOfSeq
  <2>3. Len(old) \in Nat /\ Len(new) \in Nat /\ Len(made) \in Nat /\ DOMAIN new = 1..Len(new)
    BY <1>8, <1>10, LenProperties
  <2> QED BY <2>1, <2>2, <2>3 DEF Records
<1>12. nextId' \in Nat \ {0} /\ nextId <= nextId' BY <1>6, <1>9, <1>11
<1>13. ASSUME NEW i \in 1..Len(old)
       PROVE  /\ Len(new[i].path) >= 4 /\ Len(new[i].path) <= History /\ new[i].id < nextId'
              /\ new[i].living => ~LatestInvalid(new[i].path, Window("geo")) /\ Measured(new[i].path, g)
  <2>1. /\ Len(old[i].path) <= Len(new[i].path) /\ Len(new[i].path) <= History
        /\ ~old[i].living => new[i] = old[i]
        /\ old[i].living => GoesOn(old[i], new[i], blobs)
        /\ new[i] \in Records
    <3>1. \A k \in 1..Len(tracked) : tracked[k] \in Records BY <1>7, ElementOfSeq DEF Follow
    <3> QED BY <1>7, <3>1 DEF Follow
  <2>2. Len(old[i].path) >= 4 /\ old[i].id < nextId BY <1>1, <1>4 DEF ManyStage
  <2>3. Len(old[i].path) \in Nat /\ Len(new[i].path) \in Nat
    BY <1>11, <2>1, LenProperties DEF Records, Paths
  <2>4. Len(new[i].path) >= 4 BY <2>1, <2>2, <2>3
  <2>5. new[i].id = old[i].id BY <2>1 DEF GoesOn
  <2>6. new[i].id < nextId'
    <3>1. old[i].id \in Nat BY <1>11
    <3> QED BY <1>9, <1>12, <2>2, <2>5, <3>1
  <2>7. ASSUME new[i].living
        PROVE  ~LatestInvalid(new[i].path, Window("geo")) /\ Measured(new[i].path, g)
    <3>1. old[i].living /\ GoesOn(old[i], new[i], blobs) BY <2>1, <2>7
    <3>2. ~LatestInvalid(new[i].path, Window("geo")) BY <2>7, <3>1 DEF GoesOn, Window
    <3>3. PICK info \in Infos : new[i].path = Extend(old[i].path, info) /\ (info.valid => info.pos \in blobs)
      BY <3>1 DEF GoesOn
    <3>4. Measured(old[i].path, f) BY <1>1, <1>3, <1>4, <3>1 DEF SeenAndReal
    <3>5. PICK p \in Paths : p = old[i].path BY <1>11
    <3>6. Measured(Extend(p, info), LastN(Append(f, blobs), 4)) BY <3>3, <3>4, <3>5, MeasuredGoesOn
    <3> QED BY <1>2, <1>3, <3>2, <3>3, <3>5, <3>6
  <2> QED BY <2>1, <2>4, <2>6, <2>7
<1>14. ASSUME NEW j \in 1..Len(made)
       PROVE  /\ Len(made[j].path) >= 4 /\ Len(made[j].path) <= History /\ made[j].id < nextId'
              /\ made[j].living => ~LatestInvalid(made[j].path, Window("geo")) /\ Measured(made[j].path, g)
  <2>1. Len(made[j].path) = 4 BY <1>10 DEF New
  <2>2. Len(made[j].path) >= 4 /\ Len(made[j].path) <= History BY <2>1, HistoryIs
  <2>3. made[j].id < nextId'
    <3>1. nextId + j - 1 < nextId + Len(made) BY <1>9, <1>11
    <3> QED BY <1>6, <1>10, <3>1
  <2>4. ~LatestInvalid(made[j].path, Window("geo")) BY <1>10, <1>11, NewIsSeen
  <2> QED BY <1>10, <2>2, <2>3, <2>4
<1>15. \A i \in 1..Len(new) :
          /\ Len(new[i].path) >= 4 /\ Len(new[i].path) <= History /\ new[i].id < nextId'
          /\ new[i].living => ~LatestInvalid(new[i].path, Window("geo")) /\ Measured(new[i].path, g)
  <2> SUFFICES ASSUME NEW i \in 1..Len(new)
               PROVE  /\ Len(new[i].path) >= 4 /\ Len(new[i].path) <= History /\ new[i].id < nextId'
                      /\ new[i].living => ~LatestInvalid(new[i].path, Window("geo")) /\ Measured(new[i].path, g)
    OBVIOUS
  <2>1. CASE i \in 1..Len(old) BY <1>13, <2>1
  <2>2. CASE i \notin 1..Len(old)
    <3>1. PICK j \in 1..Len(made) : i = Len(old) + j BY <1>8, <2>2
    <3>2. new[i] = made[j] BY <1>8, <3>1
    <3> QED BY <1>14, <3>2
  <2> QED BY <2>1, <2>2
<1>16. found' = (\E i \in 1..Len(new) : new[i].living) /\ verified' = found'
  <2>1. Range(new) = {new[i] : i \in 1..Len(new)} BY <1>11 DEF Range
  <2>2. (\E t \in Range(new) : t.living) = (\E i \in 1..Len(new) : new[i].living) BY <2>1
  <2> QED BY <1>1, <1>5, <2>2
<1>17. Types'
  <2>1. found' \in BOOLEAN /\ verified' \in BOOLEAN BY <1>16
  <2> QED BY <1>1, <1>2, <1>5, <1>8, <1>12, <1>15, <2>1 DEF Types
<1>18. NoStage' /\ OneStage' BY <1>2 DEF NoStage, OneStage
<1>19. ManyStage'
  <2>1. Len(fifo') = IF age' < 4 THEN age' ELSE 4
    <3>1. Len(fifo) = IF age < 4 THEN age ELSE 4 BY <1>1 DEF ManyStage
    <3>2. PICK l, m, a : l = Len(fifo) /\ m = Len(fifo') /\ a = age' OBVIOUS
    <3>3. l = (IF age < 4 THEN age ELSE 4) /\ a = age + 1 /\ m = (IF l < 4 THEN l + 1 ELSE 4)
      BY <1>2, <3>1, <3>2
    <3>4. m = IF a < 4 THEN a ELSE 4 BY <1>9, <3>3
    <3> QED BY <3>2, <3>4
  <2>2. age' >= 4
    <3>1. age >= 4 BY <1>1 DEF ManyStage
    <3> QED BY <1>2, <1>9, <3>1
  <2> QED BY <1>5, <1>15, <1>16, <2>1, <2>2 DEF ManyStage
<1>20. SeenAndReal' BY <1>2, <1>3, <1>5, <1>15 DEF SeenAndReal
<1> QED BY <1>17, <1>18, <1>19, <1>20 DEF TrackersInv

LEMMA ManualTrackKeeps ==
  ASSUME TrackersInv, ManualTrack
  PROVE  TrackersInv'
<1>1. /\ Types /\ mode = "manual" /\ mode' = mode /\ fifo' = fifo /\ age' = age /\ found' = found
      /\ verified' = verified /\ nextId' = nextId /\ manual' = manual /\ ~found /\ ~verified
  BY DEF TrackersInv, NoStage, ManualTrack
<1>2. PICK ts \in Seq(Records) : ts = targets BY <1>1 DEF Types
<1> DEFINE path == IF targets = <<>> THEN <<>> ELSE targets[1].path
           t == Target(0, Extend(path, Info(manual, TRUE)), TRUE)
<1>3. targets' = IF manual = None THEN <<>> ELSE <<t>> BY DEF ManualTrack
<1>4. PICK new : new = targets' OBVIOUS
<1>5. \/ new = <<>>
      \/ /\ new = <<t>> /\ t \in Records /\ Len(t.path) <= History
         /\ ~LatestInvalid(t.path, Window(mode))
  <2>1. CASE manual = None BY <1>3, <1>4, <2>1
  <2>2. CASE manual # None
    <3>1. path \in Paths /\ Len(path) \in Nat /\ Len(path) <= History
      <4>1. CASE ts = <<>>
        <5>1. path = <<>> BY <1>2, <4>1
        <5> HIDE DEF path
        <5>2. path \in Seq(Infos) /\ Len(path) = 0 BY <5>1
        <5> QED BY <5>2, HistoryIs DEF Paths
      <4>2. CASE ts # <<>>
        <5>1. 1 \in 1..Len(ts) BY <4>2
        <5>2. ts[1] \in Records /\ path = ts[1].path BY <1>2, <4>2, <5>1, ElementOfSeq
        <5>3. path \in Paths BY <5>2 DEF Records
        <5>4. Len(path) \in Nat BY <5>3, LenProperties DEF Paths
        <5>5. Len(path) <= History BY <1>1, <1>2, <5>1, <5>2 DEF Types
        <5> QED BY <5>3, <5>4, <5>5
      <4> QED BY <4>1, <4>2
    <3>2. manual \in Int BY <1>1, <2>2, TrackersAssumption DEF Types, Positions
    <3> DEFINE info == Info(manual, TRUE)
    <3>3. info \in Infos /\ info.valid BY <3>2 DEF Info, Infos
    <3> HIDE DEF path, info
    <3>4. PICK p : p = Extend(path, info) OBVIOUS
    <3>5. p \in Paths /\ Last(p) = info /\ Len(p) = IF Len(path) < History THEN Len(path) + 1 ELSE History
      BY <3>1, <3>3, <3>4, ExtendIs
    <3>6. Len(p) <= History /\ Len(p) >= 1 BY <3>1, <3>5, HistoryIs
    <3>7. Window(mode) \in Nat \ {0} BY WindowIs
    <3>8. ~LatestInvalid(p, Window(mode)) BY <3>3, <3>5, <3>6, <3>7, SeenLast
    <3>9. t = Target(0, p, TRUE) BY <3>4 DEF info
    <3>10. t \in Records /\ t.path = p BY <3>5, <3>9 DEF Target, Records
    <3> QED BY <1>3, <1>4, <2>2, <3>6, <3>8, <3>10
  <2> QED BY <2>1, <2>2
<1> HIDE DEF t
<1>6. /\ new \in Seq(Records)
      /\ \A i \in 1..Len(new) : /\ Len(new[i].path) <= History
                                /\ ~LatestInvalid(new[i].path, Window(mode))
  <2>1. CASE new = <<>>
    <3>1. new \in Seq(Records) /\ Len(new) = 0 BY <2>1
    <3> QED BY <3>1
  <2>2. CASE new # <<>>
    <3>1. new = <<t>> /\ t \in Records BY <1>5, <2>2
    <3>2. new \in Seq(Records) /\ \A i \in 1..Len(new) : new[i] = t BY <3>1
    <3> QED BY <1>5, <2>2, <3>2
  <2> QED BY <2>1, <2>2
<1>7. Types' BY <1>1, <1>4, <1>6 DEF Types
<1>8. NoStage' /\ OneStage' /\ ManyStage' BY <1>1 DEF NoStage, OneStage, ManyStage
<1>9. SeenAndReal' BY <1>1, <1>4, <1>6 DEF SeenAndReal
<1> QED BY <1>7, <1>8, <1>9 DEF TrackersInv

\* A new strategy, or a strategy reset, has nothing.
LEMMA FreshKeeps ==
  ASSUME NEW m \in Modes, Fresh(m), manual' = None
  PROVE  TrackersInv'
<1>1. /\ mode' = m /\ fifo' = <<>> /\ age' = 0 /\ targets' = <<>> /\ found' = FALSE
      /\ verified' = FALSE /\ nextId' = 1
  BY DEF Fresh
<1>2. MaxAge \in Nat BY TrackersAssumption
<1>3. PICK ts, f : ts = targets' /\ f = fifo' OBVIOUS
<1>4. ts \in Seq(Records) /\ Len(ts) = 0 /\ f \in Seq(Views) /\ Len(f) = 0 BY <1>1, <1>3
<1>5. Types'
  <2>1. \A i \in 1..Len(ts) : FALSE BY <1>4
  <2>2. age' \in 0..MaxAge /\ Len(f) <= 4 BY <1>1, <1>2, <1>4
  <2>3. mode' \in Modes /\ nextId' \in Nat \ {0} /\ manual' \in Clicks \cup {None} BY <1>1
  <2>4. found' \in BOOLEAN /\ verified' \in BOOLEAN BY <1>1
  <2> QED BY <1>3, <1>4, <2>1, <2>2, <2>3, <2>4 DEF Types
<1>6. NoStage' /\ OneStage' BY <1>1 DEF NoStage, OneStage
<1>7. ManyStage' BY <1>1, <1>3, <1>4 DEF ManyStage
<1>8. SeenAndReal' BY <1>3, <1>4 DEF SeenAndReal
<1> QED BY <1>5, <1>6, <1>7, <1>8 DEF TrackersInv

LEMMA SetManualTargetKeeps ==
  ASSUME TrackersInv, NEW p \in Clicks, SetManualTarget(p)
  PROVE  TrackersInv'
<1>1. /\ mode' = mode /\ fifo' = fifo /\ age' = age /\ targets' = targets /\ found' = found
      /\ verified' = verified /\ nextId' = nextId /\ manual' = p
  BY DEF SetManualTarget
<1>2. Types' BY <1>1 DEF TrackersInv, Types
<1>3. NoStage' /\ OneStage' /\ ManyStage' /\ SeenAndReal'
  BY <1>1 DEF TrackersInv, NoStage, OneStage, ManyStage, SeenAndReal
<1> QED BY <1>2, <1>3 DEF TrackersInv

LEMMA TrackersStays ==
  ASSUME TrackersInv, UNCHANGED trackersVars
  PROVE  TrackersInv'
BY DEF TrackersInv, trackersVars, Types, NoStage, OneStage, ManyStage, SeenAndReal

LEMMA TrackersStarts ==
  ASSUME TrackersInit
  PROVE  TrackersInv
<1>1. /\ mode = "init" /\ fifo = <<>> /\ age = 0 /\ targets = <<>> /\ found = FALSE
      /\ verified = FALSE /\ nextId = 1 /\ manual = None
  BY DEF TrackersInit
<1>2. MaxAge \in Nat BY TrackersAssumption
<1>3. /\ targets \in Seq(Records) /\ Len(targets) = 0 /\ fifo \in Seq(Views) /\ Len(fifo) = 0
  BY <1>1
<1>4. Types
  <2>1. \A i \in 1..Len(targets) : FALSE BY <1>3
  <2>2. age \in 0..MaxAge /\ Len(fifo) <= 4 BY <1>1, <1>2, <1>3
  <2>3. mode \in Modes /\ nextId \in Nat \ {0} /\ manual \in Clicks \cup {None} BY <1>1 DEF Modes
  <2>4. found \in BOOLEAN /\ verified \in BOOLEAN BY <1>1
  <2> QED BY <1>3, <2>1, <2>2, <2>3, <2>4 DEF Types
<1>5. NoStage /\ OneStage /\ ManyStage BY <1>1 DEF NoStage, OneStage, ManyStage
<1>6. SeenAndReal BY <1>3 DEF SeenAndReal
<1> QED BY <1>4, <1>5, <1>6 DEF TrackersInv

\* Every step keeps the inductive invariant.
LEMMA TrackersKeep ==
  ASSUME TrackersInv, [TrackersNext]_trackersVars
  PROVE  TrackersInv'
<1>1. ASSUME NEW blobs \in Views, Track(blobs) PROVE TrackersInv'
  BY <1>1, LeoFindKeeps, LeoVerifyKeeps, LeoTrackKeeps, ScFindKeeps, ScVerifyKeeps, ScTrackKeeps,
     GeoFindKeeps, GeoTrackKeeps, ManualTrackKeeps DEF Track
<1>2. ASSUME NEW m \in Modes, SetMode(m) PROVE TrackersInv' BY <1>2, FreshKeeps DEF SetMode
<1>3. CASE Reset BY <1>3, FreshKeeps DEF Reset, TrackersInv, Types
<1>4. ASSUME NEW p \in Clicks, SetManualTarget(p) PROVE TrackersInv' BY <1>4, SetManualTargetKeeps
<1>5. CASE UNCHANGED trackersVars BY <1>5, TrackersStays
<1> QED BY <1>1, <1>2, <1>3, <1>4, <1>5 DEF TrackersNext

LEMMA TrackersInvariant == TrackersSpec => []TrackersInv
<1>1. TrackersInit => TrackersInv BY TrackersStarts
<1>2. TrackersInv /\ [TrackersNext]_trackersVars => TrackersInv' BY TrackersKeep
<1> QED BY <1>1, <1>2, PTL DEF TrackersSpec

-----------------------------------------------------------------------------
(* Trackers: theorems                                                       *)

\* The range of a list of targets
LEMMA RangeIs ==
  ASSUME NEW S, NEW ts \in Seq(S)
  PROVE  Range(ts) = {ts[i] : i \in 1..Len(ts)} /\ \A t \in Range(ts) : t \in S
<1>1. DOMAIN ts = 1..Len(ts) /\ \A i \in 1..Len(ts) : ts[i] \in S BY LenProperties, ElementOfSeq
<1> QED BY <1>1 DEF Range

LEMMA TypesFollow ==
  ASSUME Types
  PROVE  TrackersTypeOK
<1>1. PICK ts \in Seq(Records) : ts = targets BY DEF Types
<1>2. ASSUME NEW t \in Range(ts)
      PROVE  /\ t.id \in Nat /\ t.living \in BOOLEAN
             /\ t.path \in Seq([pos : Int, valid : BOOLEAN]) /\ Len(t.path) <= History
  <2>1. PICK i \in 1..Len(ts) : t = ts[i] BY <1>2, RangeIs
  <2>2. t \in Records BY <1>2, RangeIs
  <2>3. Len(t.path) <= History BY <1>1, <2>1 DEF Types
  <2> QED BY <2>2, <2>3 DEF Records, Paths, Infos
<1> QED BY <1>1, <1>2 DEF Types, TrackersTypeOK

LEMMA SeenFollows ==
  ASSUME Types, SeenAndReal
  PROVE  LivingWasSeen
<1>1. PICK ts \in Seq(Records) : ts = targets BY DEF Types
<1>2. ASSUME NEW t \in Range(ts), t.living PROVE ~LatestInvalid(t.path, Window(mode))
  <2>1. PICK i \in 1..Len(ts) : t = ts[i] BY RangeIs
  <2> QED BY <1>1, <1>2, <2>1 DEF SeenAndReal
<1> QED BY <1>1, <1>2 DEF LivingWasSeen, Window

LEMMA StageFollows ==
  ASSUME TrackersInv
  PROVE  StageBindsTargets
<1>1. PICK ts \in Seq(Records) : ts = targets BY DEF TrackersInv, Types
<1>2. (\E t \in Range(ts) : t.living) <=> \E i \in 1..Len(ts) : ts[i].living BY RangeIs
<1>3. found \in BOOLEAN /\ verified \in BOOLEAN /\ mode \in Modes BY DEF TrackersInv, Types
<1>4. CASE mode \in {"init", "manual"} BY <1>4 DEF TrackersInv, NoStage, StageBindsTargets
<1>5. CASE mode = "geo" BY <1>1, <1>2, <1>5 DEF TrackersInv, ManyStage, StageBindsTargets
<1>6. CASE mode \in {"leo", "sc"}
  <2>1. /\ ~found => ~verified /\ ts = <<>>
        /\ (found /\ ~verified) => ts # <<>> /\ \A i \in 1..Len(ts) : New(ts[i], 3)
        /\ verified => /\ found /\ Len(ts) = 1
                       /\ ~ts[1].living => mode = "leo" /\ ts[1] = NoTarget
    BY <1>1, <1>3, <1>6 DEF TrackersInv, OneStage
  <2>2. CASE ~found
    <3>1. ~verified /\ Len(ts) = 0 BY <2>1, <2>2
    <3>2. \A i \in 1..Len(ts) : FALSE BY <3>1
    <3> QED BY <1>1, <1>2, <2>2, <3>1, <3>2 DEF StageBindsTargets
  <2>3. CASE found /\ ~verified
    <3>1. 1 \in 1..Len(ts) BY <2>1, <2>3
    <3>2. ts[1].living BY <2>1, <2>3, <3>1 DEF New
    <3> QED BY <1>1, <1>2, <2>3, <3>1, <3>2 DEF StageBindsTargets
  <2>4. CASE verified
    <3>1. found /\ Len(ts) = 1 /\ (~ts[1].living => mode = "leo" /\ ts[1] = NoTarget)
      BY <2>1, <2>4
    <3>2. 1 \in 1..Len(ts) BY <3>1
    <3>3. ts[1] = NoTarget => ts = <<NoTarget>> BY <3>1
    <3> QED BY <1>1, <1>2, <2>4, <3>1, <3>2, <3>3 DEF StageBindsTargets
  <2> QED BY <2>2, <2>3, <2>4
<1> QED BY <1>3, <1>4, <1>5, <1>6 DEF Modes

\* Whatever the limits are, a target that lives was measured within the misses that its
\* strategy allows, and is followed by a strategy that counts it as found; the only thing
\* without life that is followed is the empty target which LEO selects.
THEOREM LivingWereSeen == TrackersSpec => []TargetsInv
<1>1. TrackersInv => TargetsInv BY TypesFollow, SeenFollows, StageFollows DEF TrackersInv, TargetsInv
<1> QED BY <1>1, TrackersInvariant, PTL

LEMMA RealFollows ==
  ASSUME Types, SeenAndReal
  PROVE  MeasurementsAreReal
<1>1. PICK ts \in Seq(Records), f \in Seq(Views) : ts = targets /\ f = fifo BY DEF Types
<1>2. ASSUME mode \in {"leo", "sc", "geo"}, NEW t \in Range(ts), t.living, NEW k \in DOMAIN f,
             Len(t.path) - Len(f) + k \in DOMAIN t.path, t.path[Len(t.path) - Len(f) + k].valid
      PROVE  t.path[Len(t.path) - Len(f) + k].pos \in f[k]
  <2>1. PICK j \in 1..Len(ts) : t = ts[j] BY RangeIs
  <2>2. Measured(t.path, f) BY <1>1, <1>2, <2>1 DEF SeenAndReal
  <2>3. t.path \in Paths
    <3>1. t \in Records BY RangeIs
    <3> QED BY <3>1 DEF Records
  <2> DEFINE l == Len(t.path)
             m == Len(f)
             d == m - k
  <2>4. l \in Nat /\ m \in Nat /\ DOMAIN t.path = 1..l /\ DOMAIN f = 1..m
    BY <2>3, LenProperties DEF Paths
  <2>5. k \in 1..m /\ l - m + k \in 1..l BY <1>2, <2>4
  <2>6. \A e \in Nat : (e < l /\ e < m /\ t.path[l - e].valid) => t.path[l - e].pos \in f[m - e]
    BY <2>2 DEF Measured
  <2>7. t.path[l - m + k].valid BY <1>2
  <2> HIDE DEF l, m
  <2>8. d \in Nat /\ d < l /\ d < m /\ l - d = l - m + k /\ m - d = k BY <2>4, <2>5
  <2>9. t.path[l - m + k].pos \in f[k] BY <2>6, <2>7, <2>8
  <2> QED BY <2>9 DEF l, m
<1> QED BY <1>1, <1>2 DEF MeasurementsAreReal

\* What a living target of GEO, LEO or SC says it measured was in the frame it names:
\* no prediction passes for a measurement and none is of the time before a reset.
THEOREM TargetsAreReal == TrackersSpec => []MeasurementsAreReal
<1>1. TrackersInv => MeasurementsAreReal BY RealFollows DEF TrackersInv
<1> QED BY <1>1, TrackersInvariant, PTL

\* A target of the list lives that has a point of the chain.
Has(ts, c) == \E t \in Range(ts) : t.living /\ \E k \in 1..4 : LastN(t.path, 4)[k].pos = c[k]

\* A target made of a chain has its points.
LEMMA MadeHas ==
  ASSUME NEW ts \in Seq(Records), NEW i \in 1..Len(ts), ts[i].living, NEW c \in [1..4 -> Int],
         ts[i].path = ChainPath(c)
  PROVE  Has(ts, c)
<1>1. PICK p \in Paths : p = ChainPath(c) /\ Len(p) = 4 /\ p[1].pos = c[1]
  <2>1. 4 \in Nat /\ 1 \in 1..4 OBVIOUS
  <2> QED BY <2>1, ChainPathIs
<1>2. LastN(p, 4)[1] = p[1]
  <2>1. p \in Seq(Infos) /\ 4 \in Nat \ {0} BY DEF Paths
  <2>2. Len(LastN(p, 4)) = IF Len(p) <= 4 THEN Len(p) ELSE 4 BY <2>1, LastNIs
  <2>3. \A d \in Nat : d < Len(LastN(p, 4)) => LastN(p, 4)[Len(LastN(p, 4)) - d] = p[Len(p) - d]
    BY <2>1, LastNIs
  <2>4. PICK s, l : s = LastN(p, 4) /\ l = Len(s) OBVIOUS
  <2>5. \A d \in Nat : d < l => s[l - d] = p[Len(p) - d] BY <2>3, <2>4
  <2>6. l = 4 /\ Len(p) = 4 BY <1>1, <2>2, <2>4
  <2>7. s[4 - 3] = p[4 - 3]
    <3>1. 3 \in Nat /\ 3 < 4 OBVIOUS
    <3>2. \A d \in Nat : d < 4 => s[4 - d] = p[4 - d] BY <2>5, <2>6
    <3> QED BY <3>1, <3>2
  <2>8. 4 - 3 = 1 OBVIOUS
  <2>9. s[1] = p[1] BY <2>7, <2>8
  <2> QED BY <2>4, <2>9
<1>3. ts[i] \in Range(ts) BY RangeIs
<1> QED BY <1>1, <1>2, <1>3 DEF Has

\* A chain that crosses no other is kept.
LEMMA IsolatedIsKept ==
  ASSUME NEW chains \in SUBSET [1..4 -> Int], NEW c \in chains,
         \A d \in chains \ {c} : ~Shares(c, d, 3)
  PROVE  c \in Deduplicated(chains, 3)
<1>1. ASSUME NEW d \in chains, Before(d, c) PROVE ~Shares(d, c, 3)
  <2>1. d # c
    <3>1. 4 \in Nat /\ c \in [1..4 -> Int] OBVIOUS
    <3>2. ~Before(c, c) BY <3>1, BeforeIsOrder
    <3> QED BY <1>1, <3>2
  <2>2. ~Shares(c, d, 3) BY <2>1
  <2> QED BY <2>2 DEF Shares
<1> QED BY <1>1 DEF Deduplicated

\* What IsolatedObjectFound says of a frame
Isolated(ts, f) ==
    Cardinality(f[4]) < MaxRediscoveryBlobs =>
        LET chains == {c \in Quadruples(f) : PassesGeo(c)}
        IN \A c \in chains :
               (InBounds(Predicted(ChainPath(c))) /\ \A d \in chains \ {c} : ~Shares(c, d, 3))
                   => Has(ts, c)

LEMMA GeoFindIsolated ==
  ASSUME TrackersInv, NEW blobs \in Views, GeoFind(blobs), Len(fifo') = 4
  PROVE  Isolated(targets', fifo')
<1> DEFINE all == {c \in Chains4 : PassesGeo(c)}
           chains == Deduplicated(all, 3)
<1>1. mode = "geo" /\ Arrives(blobs, 4) /\ targets' = Targets(InOrder(chains), nextId)
  BY DEF GeoFind
<1>2. fifo' \in Seq(Views) /\ Len(fifo') <= 4 BY <1>1, ArrivesIs DEF TrackersInv
<1>3. all \in SUBSET Chains4 /\ chains \in SUBSET all BY DEF Deduplicated
<1>4. Chains4 = Quadruples(fifo')
  <2>1. ~(Len(fifo') < 4) OBVIOUS
  <2> QED BY <2>1 DEF Chains4
<1>5. Chains4 \in SUBSET [1..4 -> Int] BY <1>2, Chains4Are
<1>6. PICK new : new = targets' OBVIOUS
<1>7. nextId \in Nat \ {0} BY DEF TrackersInv, Types
<1>8. ASSUME NEW c \in all, \A d \in all \ {c} : ~Shares(c, d, 3) PROVE Has(new, c)
  <2>1. all \in SUBSET [1..4 -> Int] BY <1>3, <1>5
  <2> HIDE DEF all
  <2>2. c \in chains BY <1>8, <2>1, IsolatedIsKept
  <2>3. chains \in SUBSET Chains4 BY <1>3
  <2> HIDE DEF chains
  <2>4. /\ new \in Seq(Records)
        /\ \A i \in 1..Len(new) : New(new[i], 4)
        /\ \E i \in 1..Len(new) : new[i].path = ChainPath(c)
    BY <1>1, <1>2, <1>6, <1>7, <2>2, <2>3, GeoAssociationIs
  <2>5. PICK i \in 1..Len(new) : new[i].path = ChainPath(c) BY <2>4
  <2>6. new[i].living BY <2>4 DEF New
  <2> QED BY <2>1, <2>4, <2>5, <2>6, MadeHas
<1>9. all = {c \in Quadruples(fifo') : PassesGeo(c)} BY <1>4
<1> HIDE DEF all
<1> QED BY <1>6, <1>8, <1>9 DEF Isolated

LEMMA GeoTrackIsolated ==
  ASSUME TrackersInv, NEW blobs \in Views, GeoTrack(blobs), Len(fifo') = 4
  PROVE  Isolated(targets', fifo')
<1> DEFINE all == {c \in Chains4 : PassesGeo(c)}
<1>1. mode = "geo" /\ Arrives(blobs, 4) /\ found BY DEF GeoTrack
<1>2. /\ fifo' \in Seq(Views) /\ Len(fifo') <= 4 /\ fifo'[4] = blobs /\ age' = age + 1
  BY <1>1, ArrivesIs DEF TrackersInv
<1>3. all \in SUBSET Chains4 OBVIOUS
<1>4. Chains4 = Quadruples(fifo')
  <2>1. ~(Len(fifo') < 4) OBVIOUS
  <2> QED BY <2>1 DEF Chains4
<1>5. Chains4 \in SUBSET [1..4 -> Int] BY <1>2, Chains4Are
<1>6. PICK new, old : new = targets' /\ old = targets OBVIOUS
<1>7. nextId \in Nat \ {0} /\ age \in Nat /\ age >= 4 BY <1>1 DEF TrackersInv, Types, ManyStage
<1>8. ~(age' < 5) BY <1>2, <1>7
<1>9. ASSUME Cardinality(blobs) < MaxRediscoveryBlobs, NEW c \in all,
             InBounds(Predicted(ChainPath(c))), \A d \in all \ {c} : ~Shares(c, d, 3)
      PROVE  Has(new, c)
  <2>1. ~(Cardinality(blobs) >= MaxRediscoveryBlobs)
    <3>1. IsFiniteSet(blobs) BY ViewsAreFinite
    <3>2. Cardinality(blobs) \in Nat /\ MaxRediscoveryBlobs \in Nat
      BY <3>1, FS_CardinalityType, TrackersAssumption
    <3> QED BY <1>9, <3>2
  <2>2. PICK chains \in SUBSET Chains4, made \in Seq(Records) :
            /\ made = Targets(InOrder(chains), nextId)
            /\ Grown(old, new, made, blobs)
            /\ chains = {d \in Deduplicated(all, 3) :
                             ~Overlaps(d, Tracked(blobs)) /\ InBounds(Predicted(ChainPath(d)))}
    <3>1. PICK chains \in SUBSET Chains4, made \in Seq(Records) :
            /\ made = Targets(InOrder(chains), nextId)
            /\ Grown(targets, targets', made, blobs)
            /\ ~(age' < 5 \/ Cardinality(blobs) >= MaxRediscoveryBlobs) =>
                  chains = {d \in Deduplicated(all, 3) :
                               ~Overlaps(d, Tracked(blobs)) /\ InBounds(Predicted(ChainPath(d)))}
      BY GeoTrackIs
    <3> QED BY <1>6, <1>8, <2>1, <3>1
  <2>3. c \in Deduplicated(all, 3) /\ c \in [1..4 -> Int]
    <3>1. all \in SUBSET [1..4 -> Int] BY <1>3, <1>5
    <3> HIDE DEF all
    <3> QED BY <1>9, <3>1, IsolatedIsKept
  <2>4. /\ new \in Seq(Records)
        /\ \A i \in 1..Len(old) : i \in 1..Len(new)
        /\ \A j \in 1..Len(made) : Len(old) + j \in 1..Len(new) /\ new[Len(old) + j] = made[j]
    BY <2>2 DEF Grown
  <2>5. CASE Overlaps(c, Tracked(blobs))
    <3>1. PICK tracked : /\ Follow(old, tracked, blobs) /\ tracked = Tracked(blobs)
                         /\ \A i \in 1..Len(old) : new[i] = tracked[i]
      BY <2>2 DEF Grown
    <3>2. tracked \in Seq(Records) /\ Len(tracked) = Len(old) BY <3>1 DEF Follow
    <3>3. PICK t \in Range(tracked) : t.living /\ \E k \in 1..4 : LastN(t.path, 4)[k].pos = c[k]
      BY <2>5, <3>1 DEF Overlaps
    <3>4. PICK i \in 1..Len(old) : t = tracked[i] BY <3>2, RangeIs
    <3>5. t = new[i] /\ i \in 1..Len(new) BY <2>4, <3>1, <3>4
    <3>6. t \in Range(new) BY <2>4, <3>5, RangeIs
    <3> QED BY <3>3, <3>6 DEF Has
  <2>6. CASE ~Overlaps(c, Tracked(blobs))
    <3>1. c \in chains BY <1>9, <2>2, <2>3, <2>6
    <3>2. /\ \A j \in 1..Len(made) : New(made[j], 4)
          /\ \E j \in 1..Len(made) : made[j].path = ChainPath(c)
      BY <1>2, <1>7, <2>2, <3>1, GeoAssociationIs
    <3>3. PICK j \in 1..Len(made) : made[j].path = ChainPath(c) BY <3>2
    <3>4. made[j].living BY <3>2 DEF New
    <3>5. PICK i \in 1..Len(new) : new[i] = made[j] BY <2>4
    <3> QED BY <2>3, <2>4, <3>3, <3>4, <3>5, MadeHas
  <2> QED BY <2>5, <2>6
<1>10. all = {c \in Quadruples(fifo') : PassesGeo(c)} BY <1>4
<1> HIDE DEF all
<1> QED BY <1>2, <1>6, <1>9, <1>10 DEF Isolated

\* The steps of GEO, and what all others do to it
LEMMA GeoSteps ==
  ASSUME TrackersInv, [TrackersNext]_trackersVars
  PROVE  \/ \E blobs \in Views : GeoFind(blobs) \/ GeoTrack(blobs)
         \/ mode' # "geo"
         \/ fifo' = <<>> /\ targets' = <<>> /\ age' = 0
         \/ UNCHANGED trackersVars
<1>1. ASSUME NEW blobs \in Views, Track(blobs), mode' = "geo"
      PROVE  GeoFind(blobs) \/ GeoTrack(blobs)
  <2>1. CASE LeoFind(blobs) BY <1>1, <2>1 DEF LeoFind, Find, Arrives
  <2>2. CASE LeoVerify(blobs) BY <1>1, <2>2 DEF LeoVerify, Arrives
  <2>3. CASE LeoTrack(blobs) BY <1>1, <2>3 DEF LeoTrack, TrackOne, Arrives
  <2>4. CASE ScFind(blobs) BY <1>1, <2>4 DEF ScFind, Find, Arrives
  <2>5. CASE ScVerify(blobs) BY <1>1, <2>5 DEF ScVerify, Arrives
  <2>6. CASE ScTrack(blobs) BY <1>1, <2>6 DEF ScTrack, TrackOne, Arrives
  <2>7. CASE ManualTrack BY <1>1, <2>7 DEF ManualTrack
  <2> QED BY <1>1, <2>1, <2>2, <2>3, <2>4, <2>5, <2>6, <2>7 DEF Track
<1>2. ASSUME NEW m \in Modes, SetMode(m) PROVE fifo' = <<>> /\ targets' = <<>> /\ age' = 0
  BY <1>2 DEF SetMode, Fresh
<1>3. CASE Reset BY <1>3 DEF Reset, Fresh
<1>4. ASSUME NEW p \in Clicks, SetManualTarget(p) PROVE mode' # "geo"
  BY <1>4 DEF SetManualTarget
<1> QED BY <1>1, <1>2, <1>3, <1>4 DEF TrackersNext

\* The new targets of a first association have new ids.
LEMMA FoundAreNew ==
  ASSUME TrackersInv, NEW blobs \in Views, GeoFind(blobs)
  PROVE  /\ targets' \in Seq(Records)
         /\ \A i \in 1..Len(targets') : targets'[i].living /\ targets'[i].id >= nextId
<1> DEFINE chains == Deduplicated({c \in Chains4 : PassesGeo(c)}, 3)
<1>1. Arrives(blobs, 4) /\ targets' = Targets(InOrder(chains), nextId) BY DEF GeoFind
<1>2. fifo' \in Seq(Views) /\ Len(fifo') <= 4 BY <1>1, ArrivesIs DEF TrackersInv
<1>3. chains \in SUBSET Chains4 BY DEF Deduplicated
<1>4. nextId \in Nat \ {0} BY DEF TrackersInv, Types
<1>5. PICK new : new = targets' OBVIOUS
<1> HIDE DEF chains
<1>6. /\ new \in Seq(Records)
      /\ \A i \in 1..Len(new) : New(new[i], 4) /\ new[i].id = nextId + i - 1
  BY <1>1, <1>2, <1>3, <1>4, <1>5, GeoAssociationIs
<1>7. ASSUME NEW i \in 1..Len(new) PROVE new[i].living /\ new[i].id >= nextId
  <2>1. New(new[i], 4) /\ new[i].id = nextId + i - 1 BY <1>6
  <2> QED BY <1>4, <2>1 DEF New
<1> QED BY <1>5, <1>6, <1>7

\* A target of the list of before goes on, or stays as it was lost.
LEMMA TrackedGoOn ==
  ASSUME TrackersInv, NEW blobs \in Views, GeoTrack(blobs)
  PROVE  /\ targets \in Seq(Records) /\ targets' \in Seq(Records)
         /\ \A i \in 1..Len(targets) : i \in 1..Len(targets')
         /\ \A i \in 1..Len(targets') :
               IF i \in 1..Len(targets)
               THEN IF targets[i].living THEN GoesOn(targets[i], targets'[i], blobs)
                    ELSE targets'[i] = targets[i]
               ELSE targets'[i].living /\ targets'[i].id >= nextId
         /\ \A i, j \in 1..Len(targets) :
               (/\ i < j /\ targets[i].living /\ targets[j].living
                /\ Last(targets'[i].path).valid /\ Last(targets'[j].path).valid)
                  => Last(targets'[i].path).pos # Last(targets'[j].path).pos
<1>1. Arrives(blobs, 4) BY DEF GeoTrack
<1>2. fifo' \in Seq(Views) /\ Len(fifo') <= 4 BY <1>1, ArrivesIs DEF TrackersInv
<1>3. nextId \in Nat \ {0} BY DEF TrackersInv, Types
<1>4. PICK new, old : new = targets' /\ old = targets OBVIOUS
<1>5. PICK chains \in SUBSET Chains4, made \in Seq(Records) :
         made = Targets(InOrder(chains), nextId) /\ Grown(old, new, made, blobs)
  <2>1. PICK chains \in SUBSET Chains4, made \in Seq(Records) :
           made = Targets(InOrder(chains), nextId) /\ Grown(targets, targets', made, blobs)
    BY GeoTrackIs
  <2> QED BY <1>4, <2>1
<1>6. PICK tracked : Follow(old, tracked, blobs) /\ \A i \in 1..Len(old) : new[i] = tracked[i]
  BY <1>5 DEF Grown
<1>7. \A j \in 1..Len(made) : New(made[j], 4) /\ made[j].id = nextId + j - 1
  BY <1>2, <1>3, <1>5, GeoAssociationIs
<1>8. old \in Seq(Records) BY <1>4 DEF TrackersInv, Types
<1>9. new \in Seq(Records) /\ \A i \in 1..Len(old) : i \in 1..Len(new) BY <1>5 DEF Grown
<1>10. ASSUME NEW i \in 1..Len(new)
       PROVE  IF i \in 1..Len(old)
              THEN IF old[i].living THEN GoesOn(old[i], new[i], blobs) ELSE new[i] = old[i]
              ELSE new[i].living /\ new[i].id >= nextId
  <2>1. CASE i \in 1..Len(old) BY <1>6, <2>1 DEF Follow
  <2>2. CASE i \notin 1..Len(old)
    <3>1. PICK j \in 1..Len(made) : i = Len(old) + j BY <1>5, <2>2 DEF Grown
    <3>2. new[i] = made[j] BY <1>5, <3>1 DEF Grown
    <3>3. New(made[j], 4) /\ made[j].id = nextId + j - 1 BY <1>7
    <3>4. made[j].living /\ made[j].id >= nextId BY <1>3, <3>3 DEF New
    <3> QED BY <2>2, <3>2, <3>4
  <2> QED BY <2>1, <2>2
<1>11. ASSUME NEW i \in 1..Len(old), NEW j \in 1..Len(old), i < j, old[i].living, old[j].living,
              Last(new[i].path).valid, Last(new[j].path).valid
       PROVE  Last(new[i].path).pos # Last(new[j].path).pos
  <2>1. new[i] = tracked[i] /\ new[j] = tracked[j] BY <1>6
  <2> QED BY <1>6, <1>11, <2>1 DEF Follow
<1> QED BY <1>4, <1>8, <1>9, <1>10, <1>11

\* An object that crosses nobody's path is found by GEO in four frames, whatever GEO
\* tracks, had lost or had found before.
THEOREM IsolatedIsFound == TrackersSpec => []IsolatedObjectFound
<1>1. TrackersInit => IsolatedObjectFound BY DEF TrackersInit, IsolatedObjectFound
<1>2. ASSUME TrackersInv, IsolatedObjectFound, [TrackersNext]_trackersVars
      PROVE  IsolatedObjectFound'
  <2>1. ASSUME NEW blobs \in Views, GeoFind(blobs) \/ GeoTrack(blobs), Len(fifo') = 4
        PROVE  Isolated(targets', fifo')
    BY <1>2, <2>1, GeoFindIsolated, GeoTrackIsolated
  <2>2. ASSUME Len(fifo') = 4 => Isolated(targets', fifo') PROVE IsolatedObjectFound'
    BY <2>2 DEF Isolated, Has, IsolatedObjectFound
  <2>3. CASE mode' # "geo" BY <2>3 DEF IsolatedObjectFound
  <2>4. CASE fifo' = <<>>
    <3>1. Len(fifo') # 4 BY <2>4
    <3> QED BY <2>2, <3>1
  <2>5. CASE UNCHANGED trackersVars BY <1>2, <2>5 DEF IsolatedObjectFound, trackersVars
  <2> QED BY <1>2, <2>1, <2>2, <2>3, <2>4, <2>5, GeoSteps
<1> QED BY <1>1, <1>2, TrackersInvariant, PTL DEF TrackersSpec

LEMMA IdsGoOnKept ==
  ASSUME TrackersInv, [TrackersNext]_trackersVars
  PROVE  [IdsGoOn]_trackersVars
<1>1. ASSUME NEW blobs \in Views, GeoFind(blobs) PROVE IdsGoOn
  <2>1. PICK new : new = targets' OBVIOUS
  <2>2. /\ new \in Seq(Records)
        /\ \A i \in 1..Len(new) : new[i].living /\ new[i].id >= nextId
    BY <1>1, <2>1, FoundAreNew
  <2>3. \A t \in Range(new) : t.living /\ t.id >= nextId BY <2>2, RangeIs
  <2> QED BY <2>1, <2>3 DEF IdsGoOn
<1>2. ASSUME NEW blobs \in Views, GeoTrack(blobs) PROVE IdsGoOn
  <2>1. PICK new, old : new = targets' /\ old = targets OBVIOUS
  <2>2. /\ old \in Seq(Records) /\ new \in Seq(Records)
        /\ \A i \in 1..Len(new) :
              IF i \in 1..Len(old)
              THEN IF old[i].living THEN GoesOn(old[i], new[i], blobs) ELSE new[i] = old[i]
              ELSE new[i].living /\ new[i].id >= nextId
    BY <1>2, <2>1, TrackedGoOn
  <2>3. ASSUME NEW t \in Range(new)
        PROVE  \/ t.id >= nextId /\ t.living
               \/ t \in Range(old) /\ ~t.living
               \/ \E s \in Range(old) : /\ s.id = t.id /\ s.living
                                        /\ t.path = Extend(s.path, Last(t.path))
    <3>1. PICK i \in 1..Len(new) : t = new[i] BY <2>2, RangeIs
    <3>2. CASE i \notin 1..Len(old) BY <2>2, <3>1, <3>2
    <3>3. CASE i \in 1..Len(old) /\ ~old[i].living
      <4>1. t = old[i] BY <2>2, <3>1, <3>3
      <4> QED BY <2>2, <3>3, <4>1, RangeIs
    <3>4. CASE i \in 1..Len(old) /\ old[i].living
      <4>1. GoesOn(old[i], t, blobs) BY <2>2, <3>1, <3>4
      <4>2. old[i] \in Range(old) /\ old[i] \in Records BY <2>2, <3>4, RangeIs
      <4>3. old[i].path \in Paths BY <4>2 DEF Records
      <4>4. PICK info \in Infos : t.path = Extend(old[i].path, info) BY <4>1 DEF GoesOn
      <4>5. Last(t.path) = info BY <4>3, <4>4, ExtendIs
      <4>6. old[i].id = t.id BY <4>1 DEF GoesOn
      <4> QED BY <3>4, <4>2, <4>4, <4>5, <4>6
    <3> QED BY <3>2, <3>3, <3>4
  <2> QED BY <2>1, <2>3 DEF IdsGoOn
<1>3. CASE mode' # "geo" BY <1>3 DEF IdsGoOn
<1>4. CASE age' = 0 BY <1>4 DEF IdsGoOn
<1> QED BY <1>1, <1>2, <1>3, <1>4, GeoSteps

\* An id of GEO names one object, for as long as the strategy is not replaced or reset.
THEOREM IdsAreStable == TrackersSpec => IdNamesOneTarget
<1>1. TrackersInv /\ [TrackersNext]_trackersVars => [IdsGoOn]_trackersVars BY IdsGoOnKept
<1> QED BY <1>1, TrackersInvariant, PTL DEF TrackersSpec, IdNamesOneTarget

LEMMA NoSharedBlobKept ==
  ASSUME TrackersInv, [TrackersNext]_trackersVars
  PROVE  [NoSharedBlob]_trackersVars
<1>1. PICK new, old : new = targets' /\ old = targets OBVIOUS
<1>2. old \in Seq(Records) BY <1>1 DEF TrackersInv, Types
<1>3. DOMAIN old = 1..Len(old) BY <1>2
<1>4. ASSUME NEW blobs \in Views, GeoFind(blobs) PROVE NoSharedBlob
  <2>1. \A i \in 1..Len(old) : old[i].id < nextId BY <1>1, <1>4 DEF GeoFind, TrackersInv, ManyStage
  <2>2. new \in Seq(Records) /\ \A i \in 1..Len(new) : new[i].living /\ new[i].id >= nextId
    BY <1>1, <1>4, FoundAreNew
  <2>3. ASSUME NEW i \in 1..Len(old), NEW j \in 1..Len(old), i < j, j <= Len(new)
        PROVE  new[i].id # old[i].id
    <3>1. Len(new) \in Nat /\ Len(old) \in Nat BY <1>2, <2>2
    <3>2. i \in 1..Len(new) BY <2>3, <3>1
    <3>3. new[i].id >= nextId /\ old[i].id < nextId BY <2>1, <2>2, <3>2
    <3>4. nextId \in Nat BY DEF TrackersInv, Types
    <3>5. old[i] \in Records BY <1>2, ElementOfSeq
    <3>6. old[i].id \in Nat BY <3>5 DEF Records
    <3> QED BY <3>3, <3>4, <3>6
  <2> QED BY <1>1, <1>3, <2>3 DEF NoSharedBlob
<1>5. ASSUME NEW blobs \in Views, GeoTrack(blobs) PROVE NoSharedBlob
  <2>1. /\ \A i \in 1..Len(old) : i \in 1..Len(new)
        /\ \A i \in 1..Len(new) :
              (i \in 1..Len(old) /\ ~old[i].living) => new[i] = old[i]
        /\ \A i, j \in 1..Len(old) :
              (/\ i < j /\ old[i].living /\ old[j].living
               /\ Last(new[i].path).valid /\ Last(new[j].path).valid)
                 => Last(new[i].path).pos # Last(new[j].path).pos
    BY <1>1, <1>5, TrackedGoOn
  <2>2. ASSUME NEW i \in 1..Len(old), NEW j \in 1..Len(old), i < j,
               new[i].living, new[j].living, Last(new[i].path) = Last(new[j].path),
               Last(new[i].path).valid
        PROVE  FALSE
    <3>1. old[i].living /\ old[j].living BY <2>1, <2>2
    <3> QED BY <2>1, <2>2, <3>1
  <2> QED BY <1>1, <1>3, <2>2 DEF NoSharedBlob
<1>6. CASE mode' # "geo" BY <1>6 DEF NoSharedBlob
<1>7. CASE targets' = <<>>
  <2>1. Len(new) = 0 BY <1>1, <1>7
  <2>2. \A j \in 1..Len(old) : ~(j <= Len(new)) BY <2>1
  <2> QED BY <1>1, <1>3, <2>2 DEF NoSharedBlob
<1> QED BY <1>4, <1>5, <1>6, <1>7, GeoSteps

\* Two targets of GEO do not follow one object.
THEOREM OneBlobEach == TrackersSpec => OneMeasurementEach
<1>1. TrackersInv /\ [TrackersNext]_trackersVars => [NoSharedBlob]_trackersVars
  BY NoSharedBlobKept
<1> QED BY <1>1, TrackersInvariant, PTL DEF TrackersSpec, OneMeasurementEach

=============================================================================
