----------------------- MODULE TrackDataStorageBackend -----------------------
(***************************************************************************)
(* include/dss/storage/track_data_storage_backend.h: the records of each   *)
(* TrackResultEvent are queued as a batch and appended by a worker thread  *)
(* to the GAE file of the session.  Unlike the image backend, a batch does *)
(* not carry its path: the worker asks outputPath() when it writes.        *)
(*                                                                         *)
(* Threads: one control thread, the threads that emit TrackResultEvent and *)
(* so run the subscriber of src/app/communication_services.cpp, and the    *)
(* worker.  An output path is the number of the configureSession call that *)
(* chose it, or DefaultFile.                                               *)
(***************************************************************************)
EXTENDS Naturals, Sequences

CONSTANTS Producers,    \* threads that emit track results
          MaxPending,   \* m_maxPendingRequests (1024 in the code)
          MaxEvents,    \* bound: events delivered while the backend runs
          MaxSessions   \* bound: calls of configureSession

ASSUME StorageAssumption == /\ MaxPending \in Nat \ {0}
                            /\ MaxEvents \in Nat
                            /\ MaxSessions \in Nat

DefaultFile == 0        \* track_data.txt

\* session: the output path when the batch was queued; unattended: whether no
\* worker was alive then; file: the file it was appended to.
Batches == [id : Nat, session : 0..MaxSessions, unattended : BOOLEAN]
Writes == [batch : Batches, file : 0..MaxSessions]

VARIABLES
    ready, running,  \* m_ready, m_running
    outputPath,      \* outputPath(), which is m_sessionOutputPath or the default
    queue,           \* m_queue
    dropped,         \* m_droppedRequests
    successful, failed,   \* m_successfulWrites, m_failedWrites
    control,         \* where the control thread is inside stop() or start()
    worker,          \* where the worker is; "none" when not joinable
    stopRequested,   \* the stop token of the worker
    writing,         \* the batch in workerLoop, a sequence of length 0 or 1
    stage,           \* where each producer is in enqueueTrackResult
    sessions,        \* history: calls of configureSession
    events,          \* history: events given to the backend
    accepted,        \* history: batches put into the queue
    done             \* history: writes that ended, well or not

session == <<ready, outputPath, sessions>>
counters == <<successful, failed, done>>
producers == <<stage, events>>
vars == <<session, running, queue, dropped, counters, control, worker,
          stopRequested, writing, producers, accepted>>

Init == /\ ready = FALSE /\ running = FALSE /\ outputPath = DefaultFile
        /\ queue = <<>> /\ dropped = 0 /\ successful = 0 /\ failed = 0
        /\ control = "idle" /\ worker = "none" /\ stopRequested = FALSE
        /\ writing = <<>>
        /\ stage = [p \in Producers |-> "idle"]
        /\ sessions = 0 /\ events = 0 /\ accepted = <<>> /\ done = <<>>

-----------------------------------------------------------------------------
(* init(), configureSession(), start() and stop() of the control thread     *)

\* init(); StorageViewModel calls it while the backend is not ready.
InitDirectory == /\ control = "idle" /\ ~ready
                 /\ ready' = TRUE
                 /\ UNCHANGED <<outputPath, sessions, running, queue, dropped, counters,
                                control, worker, stopRequested, writing, producers, accepted>>

\* Mutant: the test of m_running is missing.
ConfigureAnyTime == /\ control = "idle"
                    /\ sessions < MaxSessions
                    /\ sessions' = sessions + 1
                    /\ outputPath' \in {sessions + 1, DefaultFile}
                    /\ UNCHANGED <<ready, running, queue, dropped, counters, control,
                                   worker, stopRequested, writing, producers, accepted>>

\* When the directory cannot be created the path is cleared, which makes
\* outputPath() the default file.
ConfigureSession == /\ control = "idle"
                    /\ ~running /\ sessions < MaxSessions
                    /\ sessions' = sessions + 1
                    /\ outputPath' \in {sessions + 1, DefaultFile}
                    /\ UNCHANGED <<ready, running, queue, dropped, counters, control,
                                   worker, stopRequested, writing, producers, accepted>>

Start == /\ control = "idle"
         /\ ready /\ worker = "none"
         /\ running' = TRUE
         /\ control' = "spawn"
         /\ UNCHANGED <<session, queue, dropped, counters, worker, stopRequested,
                        writing, producers, accepted>>

StartSpawns == /\ control = "spawn"
               /\ worker' = "wait"
               /\ stopRequested' = FALSE
               /\ control' = "idle"
               /\ UNCHANGED <<session, running, queue, dropped, counters, writing,
                              producers, accepted>>

Stop == /\ control = "idle"
        /\ worker # "none"
        /\ stopRequested' = TRUE
        /\ control' = "join"
        /\ UNCHANGED <<session, running, queue, dropped, counters, worker, writing,
                       producers, accepted>>

StopJoins == /\ control = "join"
             /\ worker = "finished"
             /\ worker' = "none"
             /\ control' = "clear"
             /\ UNCHANGED <<session, running, queue, dropped, counters, stopRequested,
                            writing, producers, accepted>>

StopClears == /\ control = "clear"
              /\ running' = FALSE
              /\ control' = "idle"
              /\ UNCHANGED <<session, queue, dropped, counters, worker, stopRequested,
                             writing, producers, accepted>>

-----------------------------------------------------------------------------
(* A producer: the subscriber of TrackResultEvent, then enqueueTrackResult  *)

Attended == worker \in {"wait", "write"}

ProducerStep(p, from, to) == /\ stage[p] = from
                             /\ stage' = [stage EXCEPT ![p] = to]
                             /\ UNCHANGED <<session, running, counters, control, worker,
                                            stopRequested, writing>>

EventArrives(p) == /\ ProducerStep(p, "idle", "check")
                   /\ running /\ events < MaxEvents
                   /\ events' = events + 1
                   /\ UNCHANGED <<queue, dropped, accepted>>

CheckRunning(p) == /\ ProducerStep(p, "check", "build")
                   /\ ready /\ running
                   /\ UNCHANGED <<events, queue, dropped, accepted>>

Refuse(p) == /\ ProducerStep(p, "check", "idle")
             /\ ~(ready /\ running)
             /\ UNCHANGED <<events, queue, dropped, accepted>>

\* No target of the event is valid: success is returned and nothing queued.
NothingToStore(p) == /\ ProducerStep(p, "build", "idle")
                     /\ UNCHANGED <<events, queue, dropped, accepted>>

NewBatch == [id |-> Len(accepted) + 1, session |-> outputPath, unattended |-> ~Attended]

Push(p) == /\ ProducerStep(p, "build", "idle")
           /\ IF Len(queue) >= MaxPending
                THEN /\ dropped' = dropped + 1
                     /\ UNCHANGED <<queue, accepted>>
                ELSE /\ queue' = Append(queue, NewBatch)
                     /\ accepted' = Append(accepted, NewBatch)
                     /\ UNCHANGED dropped
           /\ UNCHANGED events

-----------------------------------------------------------------------------
(* workerLoop()                                                             *)

WorkerUnchanged == UNCHANGED <<session, running, dropped, control, stopRequested,
                               producers, accepted>>

WorkerTakes == /\ worker = "wait"
               /\ queue # <<>>
               /\ writing' = <<Head(queue)>>
               /\ queue' = Tail(queue)
               /\ worker' = "write"
               /\ UNCHANGED counters
               /\ WorkerUnchanged

\* Mutant: a failed write leaves the batch with the worker, which tries again.
WorkerRetries == /\ worker = "write"
                 /\ \/ /\ successful' = successful + 1 /\ UNCHANGED failed
                       /\ writing' = <<>> /\ worker' = "wait"
                    \/ /\ failed' = failed + 1
                       /\ UNCHANGED <<successful, writing, worker>>
                 /\ done' = Append(done, [batch |-> writing[1], file |-> outputPath])
                 /\ UNCHANGED queue
                 /\ WorkerUnchanged

WorkerWrites == /\ worker = "write"
                /\ \/ successful' = successful + 1 /\ UNCHANGED failed
                   \/ failed' = failed + 1 /\ UNCHANGED successful
                /\ done' = Append(done, [batch |-> writing[1], file |-> outputPath])
                /\ writing' = <<>>
                /\ worker' = "wait"
                /\ UNCHANGED queue
                /\ WorkerUnchanged

\* Mutant: a stop request ends the loop although batches are queued.
WorkerAbandons == /\ worker = "wait"
                  /\ stopRequested
                  /\ worker' = "finished"
                  /\ UNCHANGED <<queue, writing, counters>>
                  /\ WorkerUnchanged

WorkerExits == /\ worker = "wait"
               /\ queue = <<>> /\ stopRequested
               /\ worker' = "finished"
               /\ UNCHANGED <<queue, writing, counters>>
               /\ WorkerUnchanged

ControlStep == StartSpawns \/ StopJoins \/ StopClears

EnqueueStep(p) == CheckRunning(p) \/ Refuse(p) \/ NothingToStore(p) \/ Push(p)

WorkerStep == WorkerTakes \/ WorkerWrites \/ WorkerExits

Next == \/ InitDirectory \/ ConfigureSession \/ Start \/ Stop \/ ControlStep
        \/ \E p \in Producers : EventArrives(p) \/ EnqueueStep(p)
        \/ WorkerStep

Spec == Init /\ [][Next]_vars
-----------------------------------------------------------------------------
(* Properties                                                               *)

ControlStates == {"idle", "spawn", "join", "clear"}
WorkerStates == {"none", "wait", "write", "finished"}

\* Type invariant; m_queue never holds more than m_maxPendingRequests.
TypeOK == /\ ready \in BOOLEAN /\ running \in BOOLEAN
          /\ outputPath \in 0..MaxSessions /\ sessions \in 0..MaxSessions
          /\ queue \in Seq(Batches) /\ Len(queue) <= MaxPending
          /\ dropped \in Nat /\ successful \in Nat /\ failed \in Nat
          /\ control \in ControlStates /\ worker \in WorkerStates
          /\ stopRequested \in BOOLEAN
          /\ writing \in Seq(Batches)
          /\ Len(writing) = IF worker = "write" THEN 1 ELSE 0
          /\ stage \in [Producers -> {"idle", "check", "build"}]
          /\ events \in 0..MaxEvents
          /\ accepted \in Seq(Batches) /\ done \in Seq(Writes)

DoneBatches == [i \in DOMAIN done |-> done[i].batch]

\* No batch is lost, written twice or overtaken across stops and restarts, so
\* each GAE file receives its records in the order of the frames.
BatchesConserved == accepted = DoneBatches \o writing \o queue

\* The backend's state and its worker's fit together, and each batch has one place.
QueueInv == TypeOK /\ BatchesConserved

\* A batch that was queued while a worker was alive goes to the file of its own
\* session, although the path is looked up only when it is written: stop()
\* writes all of them before configureSession can choose another file.
AttendedBatchKeepsItsFile ==
    \A i \in DOMAIN done : done[i].file # done[i].batch.session => done[i].batch.unattended

\* The path is chosen only while no worker could be reading it.
PathChangesAlone == [][outputPath' # outputPath => worker = "none" /\ ~running]_vars

\* docs/module-storage.md:246 says that stop() is a synchronous drain point.
\* No batch of one session would then reach the file of the next one.
SessionsDoNotMix == \A i \in DOMAIN done : done[i].file = done[i].batch.session
=============================================================================
