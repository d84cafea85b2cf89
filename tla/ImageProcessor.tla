--------------------------- MODULE ImageProcessor ---------------------------
(***************************************************************************)
(* src/processing/image_processor.cpp: a worker thread takes frames from a *)
(* BoundedChannel, runs the processing pipeline and the tracker on each of *)
(* them and publishes the results on the message bus.                      *)
(*                                                                         *)
(* Threads: the producers that call submitFrame, one control thread that   *)
(* calls start and stop, the threads that replace the strategies, and the  *)
(* worker.  The channel is used through its specification, BoundedFifo.    *)
(***************************************************************************)
EXTENDS Naturals, Sequences

CONSTANTS Capacity,     \* capacity of the frame channel (4 in the code)
          MaxFrames,    \* bound: calls of submitFrame
          MaxSessions   \* bound: calls of start that start a worker

ASSUME ProcessorAssumption == /\ Capacity \in Nat \ {0}
                              /\ MaxFrames \in Nat
                              /\ MaxSessions \in Nat

Frames == [id : 1..MaxFrames, session : 0..MaxSessions]

VARIABLES
    queue, closed,   \* m_frameChannel
    running,         \* m_running
    dropped,         \* m_droppedFrames
    backend,         \* whether m_pipeline has a backend
    tracker,         \* whether m_trackStrategy is set
    fed,             \* the frames the present tracker object was given
    control,         \* where the control thread is inside start() or stop()
    worker,          \* where the worker thread is; "none" when not joinable
    stopRequested,   \* the stop token of the worker thread
    current,         \* the frame in workerLoop, as a sequence of length 0 or 1
    success,         \* procResult.success of that frame
    results,         \* whether its trackResults are not empty
    session,         \* history: calls of start that started a worker
    submitted,       \* history: calls of submitFrame
    accepted,        \* history: the frames for which submitFrame returned true
    finished         \* history: the frames whose last event was published

channel == <<queue, closed>>
strategies == <<backend, tracker, fed>>
step == <<current, success, results, finished>>
history == <<session, submitted, accepted>>
vars == <<channel, running, dropped, strategies, control, worker,
          stopRequested, step, history>>

Channel == INSTANCE BoundedFifo WITH Values <- Frames

Init == /\ Channel!FifoInit
        /\ running = FALSE /\ dropped = 0
        /\ backend = FALSE /\ tracker = FALSE /\ fed = <<>>
        /\ control = "idle" /\ worker = "none" /\ stopRequested = FALSE
        /\ current = <<>> /\ success = FALSE /\ results = FALSE
        /\ session = 0 /\ submitted = 0
        /\ accepted = <<>> /\ finished = <<>>

-----------------------------------------------------------------------------
(* start() and stop() of the control thread                                 *)

Start == /\ control = "idle"
         /\ ~running /\ session < MaxSessions
         /\ running' = TRUE
         /\ session' = session + 1
         /\ control' = "open"
         /\ UNCHANGED <<channel, dropped, strategies, worker, stopRequested,
                        step, submitted, accepted>>

StartOpens == /\ control = "open"
              /\ Channel!Open
              /\ control' = "spawn"
              /\ UNCHANGED <<running, dropped, strategies, worker,
                             stopRequested, step, history>>

StartSpawns == /\ control = "spawn"
               /\ worker' = "top"
               /\ stopRequested' = FALSE
               /\ control' = "idle"
               /\ UNCHANGED <<channel, running, dropped, strategies, step, history>>

Stop == /\ control = "idle"
        /\ worker # "none"
        /\ stopRequested' = TRUE
        /\ control' = "close"
        /\ UNCHANGED <<channel, running, dropped, strategies, worker, step, history>>

StopCloses == /\ control = "close"
              /\ Channel!Close
              /\ control' = "join"
              /\ UNCHANGED <<running, dropped, strategies, worker,
                             stopRequested, step, history>>

\* Mutant: stop() does not wait for the worker.
StopDetaches == /\ control = "join"
                /\ running' = FALSE
                /\ control' = "idle"
                /\ UNCHANGED <<channel, dropped, strategies, worker,
                               stopRequested, step, history>>

StopJoins == /\ control = "join"
             /\ worker = "finished"
             /\ worker' = "none"
             /\ running' = FALSE
             /\ control' = "idle"
             /\ UNCHANGED <<channel, dropped, strategies, stopRequested, step, history>>

-----------------------------------------------------------------------------
(* submitFrame() of a producer, whether or not the processor runs           *)

NewFrame == [id |-> submitted + 1, session |-> session]

Submit == /\ submitted < MaxFrames
          /\ submitted' = submitted + 1
          /\ \/ /\ Channel!Enqueue(NewFrame)
                /\ accepted' = Append(accepted, NewFrame)
                /\ UNCHANGED dropped
             \/ /\ ~Channel!HasRoom
                /\ dropped' = dropped + 1
                /\ UNCHANGED <<channel, accepted>>
          /\ UNCHANGED <<running, strategies, control, worker, stopRequested,
                         step, session>>

-----------------------------------------------------------------------------
(* Replacing a strategy, under m_strategyMutex.  The old object, with the   *)
(* history it kept, is destroyed.                                           *)

SetProcessingStrategy(present) ==
    /\ backend' = present
    /\ UNCHANGED <<channel, running, dropped, tracker, fed, control, worker,
                   stopRequested, step, history>>

SetTrackingStrategy(present) ==
    /\ tracker' = present
    /\ fed' = <<>>
    /\ UNCHANGED <<channel, running, dropped, backend, control, worker,
                   stopRequested, step, history>>

-----------------------------------------------------------------------------
(* workerLoop()                                                             *)

WorkerUnchanged == UNCHANGED <<dropped, control, stopRequested, history>>

\* The loop condition is the only place where the worker looks at its token
\* on its own.
WorkerChecks == /\ worker = "top"
                /\ worker' = IF stopRequested THEN "leave" ELSE "pop"
                /\ UNCHANGED <<channel, running, strategies, step>>
                /\ WorkerUnchanged

\* Mutant: the frame is copied out and left in the channel.
WorkerPeeks == /\ worker = "pop"
               /\ queue # <<>>
               /\ current' = <<Head(queue)>>
               /\ worker' = "process"
               /\ UNCHANGED <<channel, running, strategies, success, results, finished>>
               /\ WorkerUnchanged

WorkerTakes == /\ worker = "pop"
               /\ Channel!Dequeue
               /\ current' = <<Head(queue)>>
               /\ worker' = "process"
               /\ UNCHANGED <<running, strategies, success, results, finished>>
               /\ WorkerUnchanged

\* Mutant: the wait in pop() does not look at the stop token or at m_closed.
WorkerWaitsForFrame == FALSE /\ UNCHANGED vars

\* pop() returns nullopt: nothing queued and stop requested or channel closed.
WorkerFindsNothing == /\ worker = "pop"
                      /\ queue = <<>>
                      /\ stopRequested \/ closed
                      /\ worker' = "leave"
                      /\ UNCHANGED <<channel, running, strategies, step>>
                      /\ WorkerUnchanged

\* The pipeline without a backend returns a failure; a backend may fail.
WorkerProcesses == /\ worker = "process"
                   /\ success' \in {FALSE, backend}
                   /\ worker' = "track"
                   /\ UNCHANGED <<channel, running, strategies, current, results, finished>>
                   /\ WorkerUnchanged

\* A second critical section: the strategies may have been replaced meanwhile.
CanTrack == tracker /\ (success \/ ~backend)

WorkerTracks == /\ worker = "track"
                /\ IF CanTrack
                     THEN /\ fed' = fed \o current
                          /\ results' \in BOOLEAN
                     ELSE results' = FALSE /\ UNCHANGED fed
                /\ worker' = "display"
                /\ UNCHANGED <<channel, running, backend, tracker, current, success, finished>>
                /\ WorkerUnchanged

\* Publishing: DisplayRefreshEvent, ProcessingCompleteEvent, TrackResultEvent
\* when there are results, RotatedFrameReadyEvent, ImageSendEvent.
NextEvent == [display |-> "complete",
              complete |-> IF results THEN "trackResult" ELSE "rotated",
              trackResult |-> "rotated",
              rotated |-> "imageSend"]

PublishStages == {"display", "complete", "trackResult", "rotated"}

WorkerPublishes == /\ worker \in PublishStages
                   /\ worker' = NextEvent[worker]
                   /\ UNCHANGED <<channel, running, strategies, step>>
                   /\ WorkerUnchanged

\* Mutant: the worker leaves the loop after a frame.
WorkerStopsAfterFrame == /\ worker = "imageSend"
                         /\ finished' = finished \o current
                         /\ current' = <<>>
                         /\ worker' = "leave"
                         /\ UNCHANGED <<channel, running, strategies, success, results>>
                         /\ WorkerUnchanged

WorkerFinishesFrame == /\ worker = "imageSend"
                       /\ finished' = finished \o current
                       /\ current' = <<>>
                       /\ worker' = "top"
                       /\ UNCHANGED <<channel, running, strategies, success, results>>
                       /\ WorkerUnchanged

WorkerLeaves == /\ worker = "leave"
                /\ running' = FALSE
                /\ worker' = "finished"
                /\ UNCHANGED <<channel, strategies, step>>
                /\ WorkerUnchanged

WorkerStep == \/ WorkerChecks \/ WorkerTakes \/ WorkerFindsNothing
              \/ WorkerProcesses \/ WorkerTracks \/ WorkerPublishes
              \/ WorkerFinishesFrame \/ WorkerLeaves

ControlStep == StartOpens \/ StartSpawns \/ StopCloses \/ StopJoins

Next == \/ Start \/ Stop \/ ControlStep
        \/ Submit
        \/ \E present \in BOOLEAN : \/ SetProcessingStrategy(present)
                                    \/ SetTrackingStrategy(present)
        \/ WorkerStep

Spec == Init /\ [][Next]_vars

\* The worker is scheduled and every strategy and event handler returns; a call of
\* start or stop that has begun goes on.
Fairness == WF_vars(WorkerStep) /\ WF_vars(ControlStep)
-----------------------------------------------------------------------------
(* Properties                                                               *)

ControlStates == {"idle", "open", "spawn", "close", "join"}
HoldingStates == {"process", "track", "imageSend"} \cup PublishStages
WorkerStates == {"none", "top", "pop", "leave", "finished"} \cup HoldingStates

\* Type invariant; the channel never exceeds its capacity.
TypeOK == /\ queue \in Seq(Frames) /\ Len(queue) <= Capacity
          /\ closed \in BOOLEAN /\ running \in BOOLEAN
          /\ dropped \in Nat
          /\ backend \in BOOLEAN /\ tracker \in BOOLEAN /\ fed \in Seq(Frames)
          /\ control \in ControlStates /\ worker \in WorkerStates
          /\ stopRequested \in BOOLEAN
          /\ current \in Seq(Frames) /\ finished \in Seq(Frames)
          /\ Len(current) <= 1
          /\ success \in BOOLEAN /\ results \in BOOLEAN
          /\ session \in 0..MaxSessions /\ submitted \in 0..MaxFrames
          /\ accepted \in Seq(Frames)

\* No frame is lost, duplicated or overtaken between submitFrame and its last
\* event, across any number of stops and restarts, and droppedFrames counts
\* exactly the frames that were refused.
FramesConserved == /\ accepted = finished \o current \o queue
                   /\ dropped + Len(accepted) = submitted

\* The worker holds a frame exactly while it works on one.
HoldsFrame == Len(current) = IF worker \in HoldingStates THEN 1 ELSE 0

\* Between two calls of the control thread isRunning() tells whether there is
\* a worker: after stop() none is left that could still publish an event.
RunningMeansWorker == control = "idle" => (running <=> worker # "none")

\* start(), stop() and the worker keep the processor's state together: what
\* isRunning() and droppedFrames() say is true, and each frame has one place.
ProcessorInv == TypeOK /\ FramesConserved /\ RunningMeansWorker

\* A tracker object sees frames in the order in which they were accepted and
\* none twice, however often the strategies are replaced.
TrackerHistoryInOrder ==
    \A i, j \in DOMAIN fed : i < j => fed[i].id < fed[j].id

\* stop() returns: close() and the token get the worker out of every state.
StopReturns == control \in {"close", "join"} ~> control = "idle"

InQueue(i) == \E k \in DOMAIN queue : queue[k].id = i
IsFinished(i) == \E k \in DOMAIN finished : finished[k].id = i

\* While nobody asks the worker to stop, every queued frame is published.
QueuedFrameIsPublished ==
    \A i \in 1..MaxFrames :
        (InQueue(i) /\ worker # "none" /\ ~stopRequested)
            ~> (IsFinished(i) \/ stopRequested)
=============================================================================
