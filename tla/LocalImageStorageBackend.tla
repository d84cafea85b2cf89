---------------------- MODULE LocalImageStorageBackend ----------------------
(***************************************************************************)
(* include/dss/storage/local_image_storage_backend.h: frames are queued    *)
(* with the path they belong to and written to disk by a worker thread.    *)
(*                                                                         *)
(* Threads: one control thread that calls init, configureSession, start    *)
(* and stop, the producers that run the frame callback of                  *)
(* src/app/communication_services.cpp, and the worker.  A session is the   *)
(* number of the successful configureSession that named it.                *)
(***************************************************************************)
EXTENDS Integers, Sequences

CONSTANTS Producers,    \* threads that deliver frames
          MaxPending,   \* m_maxPendingRequests (1024 in the code)
          MaxFrames,    \* bound: frames delivered
          MaxSessions   \* bound: calls of configureSession

ASSUME StorageAssumption == /\ MaxPending \in Nat \ {0}
                            /\ MaxFrames \in Nat
                            /\ MaxSessions \in Nat

NoSession == 0
Torn == -1      \* a mixture of two session names

Requests == [id : 1..MaxFrames, session : Torn..MaxSessions]

VARIABLES
    ready,           \* m_ready
    running,         \* m_running
    naming,          \* m_sessionNaming
    queue,           \* m_queue
    dropped,         \* m_droppedRequests
    successful, failed,   \* m_successfulWrites, m_failedWrites
    control,         \* where the control thread is inside a call
    worker,          \* where the worker is; "none" when not joinable
    stopRequested,   \* the stop token of the worker
    writing,         \* the request in workerLoop, a sequence of length 0 or 1
    stage,           \* where each producer is in the frame callback
    held,            \* the request each producer has built
    frames,          \* history: frames that were given to the backend
    accepted,        \* history: requests put into the queue
    done,            \* history: requests whose write ended, well or not
    mark             \* history: Len(accepted) when stop() was last called

producers == <<stage, held, frames>>
counters == <<successful, failed, done>>
session == <<ready, naming>>
vars == <<session, running, queue, dropped, counters, control, worker,
          stopRequested, writing, producers, accepted, mark>>

Init == /\ ready = FALSE /\ running = FALSE /\ naming = NoSession
        /\ queue = <<>> /\ dropped = 0 /\ successful = 0 /\ failed = 0
        /\ control = "idle" /\ worker = "none" /\ stopRequested = FALSE
        /\ writing = <<>>
        /\ stage = [p \in Producers |-> "idle"]
        /\ held = [p \in Producers |-> <<>>]
        /\ frames = 0 /\ accepted = <<>> /\ done = <<>> /\ mark = 0

-----------------------------------------------------------------------------
(* init(), configureSession(), start() and stop() of the control thread     *)

\* init(); StorageViewModel calls it while the backend is not ready.
InitDirectory == /\ control = "idle" /\ ~ready
                 /\ ready' = TRUE
                 /\ UNCHANGED <<naming, running, queue, dropped, counters, control,
                                worker, stopRequested, writing, producers, accepted, mark>>

\* The directories and the index are created first; when that fails nothing
\* changes.  The assignment of m_sessionNaming takes no lock.
ConfigureSession == /\ control = "idle"
                    /\ ~running /\ naming < MaxSessions
                    /\ control' = "assign"
                    /\ UNCHANGED <<session, running, queue, dropped, counters, worker,
                                   stopRequested, writing, producers, accepted, mark>>

ConfigureAssigns == /\ control = "assign"
                    /\ naming' = naming + 1
                    /\ control' = "idle"
                    /\ UNCHANGED <<ready, running, queue, dropped, counters, worker,
                                   stopRequested, writing, producers, accepted, mark>>

Start == /\ control = "idle"
         /\ ready /\ worker = "none"
         /\ running' = TRUE
         /\ control' = "spawn"
         /\ UNCHANGED <<session, queue, dropped, counters, worker, stopRequested,
                        writing, producers, accepted, mark>>

StartSpawns == /\ control = "spawn"
               /\ worker' = "wait"
               /\ stopRequested' = FALSE
               /\ control' = "idle"
               /\ UNCHANGED <<session, running, queue, dropped, counters, writing,
                              producers, accepted, mark>>

\* Mutant: the flag that configureSession tests is cleared before the join.
StopClearsFirst == /\ control = "idle"
                   /\ worker # "none"
                   /\ stopRequested' = TRUE
                   /\ running' = FALSE
                   /\ control' = "join"
                   /\ mark' = Len(accepted)
                   /\ UNCHANGED <<session, queue, dropped, counters, worker, writing,
                                  producers, accepted>>

Stop == /\ control = "idle"
        /\ worker # "none"
        /\ stopRequested' = TRUE
        /\ control' = "join"
        /\ mark' = Len(accepted)
        /\ UNCHANGED <<session, running, queue, dropped, counters, worker, writing,
                       producers, accepted>>

StopJoins == /\ control = "join"
             /\ worker = "finished"
             /\ worker' = "none"
             /\ control' = "clear"
             /\ UNCHANGED <<session, running, queue, dropped, counters, stopRequested,
                            writing, producers, accepted, mark>>

StopClears == /\ control = "clear"
              /\ running' = FALSE
              /\ control' = "idle"
              /\ UNCHANGED <<session, queue, dropped, counters, worker, stopRequested,
                             writing, producers, accepted, mark>>

-----------------------------------------------------------------------------
(* A producer: the frame callback, then enqueueSessionFrame and             *)
(* enqueueRawFrame.                                                         *)

ProducerStep(p, from, to) == /\ stage[p] = from
                             /\ stage' = [stage EXCEPT ![p] = to]
                             /\ UNCHANGED <<session, running, counters, control, worker,
                                            stopRequested, writing, mark>>

\* The callback hands the frame over only while the backend runs.
FrameArrives(p) == /\ ProducerStep(p, "idle", "name")
                   /\ running /\ frames < MaxFrames
                   /\ frames' = frames + 1
                   /\ held' = [held EXCEPT ![p] = <<[id |-> frames + 1, session |-> NoSession]>>]
                   /\ UNCHANGED <<queue, dropped, accepted>>

\* m_sessionNaming is read without a lock: during its assignment the read is a
\* data race, which gives the old value, the new one or a mixture of both.
ReadNaming == IF control = "assign" THEN {naming, naming + 1, Torn} ELSE {naming}

BuildPath(p) ==
    /\ ProducerStep(p, "name", "check")
    /\ \E s \in ReadNaming \ {NoSession} : held' = [held EXCEPT ![p][1].session = s]
    /\ UNCHANGED <<frames, queue, dropped, accepted>>

CheckRunning(p) == /\ ProducerStep(p, "check", "push")
                   /\ ready /\ running
                   /\ UNCHANGED <<held, frames, queue, dropped, accepted>>

\* No session was configured, or the worker does not run.
Refuse(p) == /\ \/ stage[p] = "name" /\ NoSession \in ReadNaming
                \/ stage[p] = "check" /\ ~(ready /\ running)
             /\ ProducerStep(p, stage[p], "idle")
             /\ held' = [held EXCEPT ![p] = <<>>]
             /\ UNCHANGED <<frames, queue, dropped, accepted>>

Push(p) == /\ ProducerStep(p, "push", "idle")
           /\ held' = [held EXCEPT ![p] = <<>>]
           /\ IF Len(queue) >= MaxPending
                THEN /\ dropped' = dropped + 1
                     /\ UNCHANGED <<queue, accepted>>
                ELSE /\ queue' = queue \o held[p]
                     /\ accepted' = accepted \o held[p]
                     /\ UNCHANGED dropped
           /\ UNCHANGED frames

-----------------------------------------------------------------------------
(* workerLoop()                                                             *)

WorkerUnchanged == UNCHANGED <<session, running, dropped, control, stopRequested,
                               producers, accepted, mark>>

WorkerTakes == /\ worker = "wait"
               /\ queue # <<>>
               /\ writing' = <<Head(queue)>>
               /\ queue' = Tail(queue)
               /\ worker' = "write"
               /\ UNCHANGED counters
               /\ WorkerUnchanged

WorkerWrites == /\ worker = "write"
                /\ \/ successful' = successful + 1 /\ UNCHANGED failed
                   \/ failed' = failed + 1 /\ UNCHANGED successful
                /\ done' = done \o writing
                /\ writing' = <<>>
                /\ worker' = "wait"
                /\ UNCHANGED queue
                /\ WorkerUnchanged

\* Mutant: a stop request ends the loop although requests are queued.
WorkerAbandons == /\ worker = "wait"
                  /\ stopRequested
                  /\ worker' = "finished"
                  /\ UNCHANGED <<queue, writing, counters>>
                  /\ WorkerUnchanged

WorkerExits == /\ worker = "wait"
               /\ queue = <<>> /\ stopRequested
               /\ worker' = "finished"
               /\ UNCHANGED <<queue, writing, counters>>
               /\ WorkerUnchanged

ControlStep == ConfigureAssigns \/ StartSpawns \/ StopJoins \/ StopClears

EnqueueStep(p) == BuildPath(p) \/ CheckRunning(p) \/ Refuse(p) \/ Push(p)

WorkerStep == WorkerTakes \/ WorkerWrites \/ WorkerExits

Next == \/ InitDirectory \/ ConfigureSession \/ Start \/ Stop \/ ControlStep
        \/ \E p \in Producers : FrameArrives(p) \/ EnqueueStep(p)
        \/ WorkerStep

Spec == Init /\ [][Next]_vars

\* Fairness: writes end, and the worker and a call that has begun are scheduled.
FairSpec == /\ Spec
            /\ WF_vars(WorkerStep) /\ WF_vars(ControlStep)
-----------------------------------------------------------------------------
(* Properties                                                               *)

ControlStates == {"idle", "assign", "spawn", "join", "clear"}
WorkerStates == {"none", "wait", "write", "finished"}

\* Type invariant; m_queue never holds more than m_maxPendingRequests.
TypeOK == /\ ready \in BOOLEAN /\ running \in BOOLEAN
          /\ naming \in NoSession..MaxSessions
          /\ control = "assign" => naming < MaxSessions
          /\ queue \in Seq(Requests) /\ Len(queue) <= MaxPending
          /\ dropped \in Nat /\ successful \in Nat /\ failed \in Nat
          /\ control \in ControlStates /\ worker \in WorkerStates
          /\ stopRequested \in BOOLEAN
          /\ writing \in Seq(Requests)
          /\ Len(writing) <= 1
          /\ stage \in [Producers -> {"idle", "name", "check", "push"}]
          /\ held \in [Producers -> Seq(Requests)]
          /\ \A p \in Producers : Len(held[p]) = IF stage[p] = "idle" THEN 0 ELSE 1
          /\ frames \in 0..MaxFrames
          /\ accepted \in Seq(Requests) /\ done \in Seq(Requests)
          /\ mark \in Nat

\* No accepted frame is lost, written twice or overtaken, across stops and
\* restarts, and the two counters account for every write that was tried.
RequestsConserved == /\ accepted = done \o writing \o queue
                     /\ successful + failed = Len(done)

\* configureSession() trusts m_running: while it is false no worker is left
\* that could be writing, in particular not between stop() and its join.
NotRunningMeansJoined == ~running => worker = "none" /\ writing = <<>>

\* configureSession(), start() and stop() keep the backend's state together with
\* its worker's: each request has one place, and m_running covers the worker.
StorageInv == TypeOK /\ RequestsConserved /\ NotRunningMeansJoined

\* stop() waits until every frame that was accepted before it was called has
\* been written, however many frames arrive during the wait.
StopDrainsEarlierFrames == control = "clear" => Len(done) >= mark

\* A frame in the queue of a live worker is written even though stop() was
\* called: the worker leaves only after an empty queue.
QueuedFrameIsWritten ==
    \A i \in 1..MaxFrames :
        (worker \in {"wait", "write"} /\ \E k \in DOMAIN queue : queue[k].id = i)
            ~> (\E k \in DOMAIN done : done[k].id = i)
=============================================================================
