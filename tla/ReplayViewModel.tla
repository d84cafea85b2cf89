-------------------------- MODULE ReplayViewModel --------------------------
(***************************************************************************)
(* src/ui/replay_view_model.cpp over ImageSequenceFrameSource: the view    *)
(* model starts and stops the replay and the image processor, and runs the *)
(* selection of files and single steps on a task thread whose completion   *)
(* is queued to the UI thread.                                             *)
(*                                                                         *)
(* Control threads are the UI thread "ui", which also handles the queued   *)
(* events, and possibly "serial", on which MainViewModel::onMasterControl  *)
(* starts and stops the replay.  The service "frame_source" is a           *)
(* FrameSourceCoordinator with the replay source as its only source, as    *)
(* in a build without Sapera.  The processor is reduced to its queue and   *)
(* to whether it runs; ImageProcessor.tla has the details.                 *)
(***************************************************************************)
EXTENDS ImageSequenceFrameSource

CONSTANTS Capacity,     \* capacity of the processor's channel (4 in the code)
          MaxEvents     \* bound: progress updates queued to the UI thread

ASSUME ReplayAssumption == /\ {"ui", "task"} \subseteq Callers
                           /\ Callers \subseteq {"ui", "serial", "task"}
                           /\ Capacity \in Nat \ {0} /\ MaxEvents \in Nat

Controllers == Callers \ {"task"}

VARIABLES
    control,        \* for each control thread, where it is in a slot of the view model
    task,           \* the task of m_replayTaskWorker
    grabbing,       \* m_grabbing
    busy,           \* m_replayBusy
    currentFrame,   \* m_replayCurrentFrame
    frameCount,     \* m_replayFrameCount
    events,         \* the calls queued to the UI thread
    mutex,          \* the holder of the coordinator's m_mutex
    processing,     \* the processor's worker thread exists
    closed, queue   \* the processor's frame channel

progress == <<currentFrame, frameCount>>
processor == <<processing, closed, queue>>
viewVars == <<control, task, grabbing, busy, progress, events, mutex, processor>>
vars == <<sourceVars, viewVars>>

NoTask == [kind |-> "none", files |-> <<>>]

Tasks == [kind : {"forward", "backward"}, files : {<<>>}]
            \cup [kind : {"select"}, files : Lists \ {<<>>}]

NoTaskRuns == [kind |-> "none", at |-> "ended", files |-> <<>>]

Init == /\ SourceInit
        /\ control = [t \in Controllers |-> [at |-> "idle", then |-> NoTask]]
        /\ task = NoTaskRuns
        /\ grabbing = FALSE /\ busy = FALSE
        /\ currentFrame = 0 /\ frameCount = 0
        /\ events = <<>> /\ mutex = "free"
        /\ processing = FALSE /\ closed = FALSE /\ queue = <<>>

Goes(t, step) == control' = [control EXCEPT ![t].at = step]
At(t, step) == control[t].at = step

Lock(t) == mutex = "free" /\ mutex' = t
Unlock(t) == mutex = t /\ mutex' = "free"

\* Mutant: neither the buttons nor the slots look at m_replayBusy
UseWhileBusy(t) == At(t, "idle")

\* The buttons are disabled while a task is under way
\* (main_window_control_page.cpp); the serial thread has no such guard.
MayUse(t) == At(t, "idle") /\ (t = "ui" => ~busy)

-----------------------------------------------------------------------------
(* startGrab()                                                              *)

StartGrab(t) == /\ MayUse(t)
                /\ ~busy /\ ~grabbing
                /\ Goes(t, "size")
                /\ UNCHANGED <<sourceVars, task, grabbing, busy, progress, events,
                               mutex, processor>>

\* frameWidth() and, if it is 0, init(), both through the coordinator
StartChecksSize(t) ==
    /\ At(t, "size") /\ mutex = "free"
    /\ \/ /\ initialized
          /\ Goes(t, "rewind")
          /\ UNCHANGED <<sourceVars, mutex>>
       \/ /\ ~initialized
          /\ LoadFirst(t)
          /\ Goes(t, "init")
          /\ mutex' = t
    /\ UNCHANGED <<task, grabbing, busy, progress, events, processor>>

StartInitialized(t) ==
    /\ At(t, "init") /\ IsIdle(t)
    /\ Unlock(t)
    /\ Goes(t, IF call[t].ok THEN "rewind" ELSE "idle")
    /\ currentFrame' = IF call[t].ok THEN 0 ELSE currentFrame
    /\ UNCHANGED <<sourceVars, task, grabbing, busy, frameCount, events, processor>>

StartChecksEnd(t) ==
    /\ At(t, "rewind")
    /\ \/ /\ nextFrameIndex >= Len(files)
          /\ Seek(t, 0)
          /\ Goes(t, "rewinding")
       \/ /\ nextFrameIndex < Len(files)
          /\ Goes(t, "processor")
          /\ UNCHANGED sourceVars
    /\ UNCHANGED <<task, grabbing, busy, progress, events, mutex, processor>>

StartRewound(t) ==
    /\ At(t, "rewinding") /\ IsIdle(t)
    /\ currentFrame' = 0
    /\ Goes(t, "processor")
    /\ UNCHANGED <<sourceVars, task, grabbing, busy, frameCount, events, mutex,
                   processor>>

StartsProcessor(t) ==
    /\ At(t, "processor")
    /\ processing' = TRUE
    /\ closed' = (closed /\ processing)
    /\ Goes(t, "source")
    /\ UNCHANGED <<sourceVars, queue, task, grabbing, busy, progress, events, mutex>>

StartsSource(t) ==
    /\ At(t, "source")
    /\ Lock(t)
    /\ Start(t)
    /\ Goes(t, "starting")
    /\ UNCHANGED <<task, grabbing, busy, progress, events, processor>>

StartDone(t) ==
    /\ At(t, "starting") /\ IsIdle(t)
    /\ Unlock(t)
    /\ grabbing' = TRUE
    /\ Goes(t, "idle")
    /\ UNCHANGED <<sourceVars, task, busy, progress, events, processor>>

-----------------------------------------------------------------------------
(* stopGrab(), by itself or at the beginning of another slot                *)

StopGrab(t) == /\ MayUse(t)
               /\ t = "ui" \/ grabbing
               /\ control' = [control EXCEPT ![t] = [at |-> "stop", then |-> NoTask]]
               /\ UNCHANGED <<sourceVars, task, grabbing, busy, progress, events,
                              mutex, processor>>

StopsSource(t) ==
    /\ At(t, "stop")
    /\ \/ /\ mutex = "free" /\ ~running
          /\ Goes(t, "halt")
          /\ UNCHANGED <<sourceVars, mutex>>
       \/ /\ running
          /\ Lock(t)
          /\ Stop(t)
          /\ Goes(t, "stopping")
    /\ UNCHANGED <<task, grabbing, busy, progress, events, processor>>

SourceStopped(t) == /\ At(t, "stopping") /\ IsIdle(t)
                    /\ Unlock(t)
                    /\ Goes(t, "halt")
                    /\ UNCHANGED <<sourceVars, task, grabbing, busy, progress, events,
                                   processor>>

StopDone(t) ==
    /\ At(t, "halt")
    /\ processing' = FALSE
    /\ closed' = (closed \/ processing)
    /\ grabbing' = FALSE
    /\ Goes(t, IF control[t].then = NoTask THEN "idle" ELSE "task")
    /\ UNCHANGED <<sourceVars, queue, task, busy, progress, events, mutex>>

-----------------------------------------------------------------------------
(* selectReplayFiles(), stepReplayForward(), stepReplayBackward() and       *)
(* seekReplayFrame() on the UI thread                                       *)

RequestTask(request) ==
    /\ MayUse("ui")
    /\ control' = [control EXCEPT !["ui"] = [at |-> IF grabbing THEN "stop" ELSE "task",
                                             then |-> request]]
    /\ UNCHANGED <<sourceVars, task, grabbing, busy, progress, events, mutex, processor>>

\* startReplayTask(); the thread of the last task has nothing left to do
StartTask ==
    /\ At("ui", "task")
    /\ busy' = TRUE
    /\ task' = IF busy THEN task
               ELSE [kind |-> control["ui"].then.kind, at |-> "begin",
                     files |-> control["ui"].then.files]
    /\ control' = [control EXCEPT !["ui"] = [at |-> "idle", then |-> NoTask]]
    /\ UNCHANGED <<sourceVars, grabbing, progress, events, mutex, processor>>

\* The slider has the positions of the frames, and position 0 without any.
SliderRange == {0} \cup 0..(frameCount - 1)

SeekReplayFrame(index) ==
    /\ MayUse("ui")
    /\ Seek("ui", index)
    /\ Goes("ui", "seek")
    /\ UNCHANGED <<task, grabbing, busy, progress, events, mutex, processor>>

SeekDone == /\ At("ui", "seek") /\ IsIdle("ui")
            /\ Goes("ui", "idle")
            /\ UNCHANGED <<sourceVars, task, grabbing, busy, progress, events, mutex,
                           processor>>

\* The event loop runs finishReplayTask() or setReplayCurrentFrame().
HandleEvent ==
    /\ At("ui", "idle")
    /\ events # <<>>
    /\ LET event == Head(events) IN
         /\ currentFrame' = IF "frame" \in event.sets THEN event.frame ELSE currentFrame
         /\ frameCount' = IF "count" \in event.sets THEN event.count ELSE frameCount
         /\ busy' = (busy /\ ~event.finish)
    /\ events' = Tail(events)
    /\ UNCHANGED <<sourceVars, control, task, grabbing, mutex, processor>>

-----------------------------------------------------------------------------
(* The task thread                                                          *)

TaskAt(step) == task.at = step /\ IsIdle("task")

TaskMovesTo(step) == task' = [task EXCEPT !.at = step]

Posts(event) == events' = Append(events, event)

Progress(frame) == [finish |-> FALSE, sets |-> {"frame"}, frame |-> frame, count |-> 0]

\* ReplayTaskResult: a selection sets both numbers, even when it fails.
Result(count) == [finish |-> TRUE, frame |-> 0, count |-> count,
                  sets |-> IF task.kind = "select" THEN {"frame", "count"} ELSE {}]

TaskEnds(count) == Posts(Result(count)) /\ task' = NoTaskRuns

TaskBegins ==
    /\ TaskAt("begin")
    /\ \/ /\ task.kind = "select"
          /\ SetFiles("task", task.files)
          /\ TaskMovesTo("files")
       \/ /\ task.kind = "forward"
          /\ StepForward("task")
          /\ TaskMovesTo("step")
       \/ /\ task.kind = "backward"
          /\ Seek("task", IF nextFrameIndex >= 2 THEN nextFrameIndex - 2 ELSE 0)
          /\ TaskMovesTo("seek")
    /\ UNCHANGED <<control, grabbing, busy, progress, events, mutex, processor>>

\* Mutant: a failed task is tried again
TaskRetries ==
    /\ \/ /\ TaskAt("files") /\ call["task"].ok
          /\ LoadFirst("task")
          /\ TaskMovesTo("init")
       \/ /\ TaskAt("init") /\ call["task"].ok
          /\ TaskMovesTo("select")
          /\ UNCHANGED sourceVars
       \/ /\ TaskAt("seek") /\ call["task"].ok
          /\ StepForward("task")
          /\ TaskMovesTo("step")
       \/ /\ task.at \in {"files", "init", "seek"} /\ IsIdle("task") /\ ~call["task"].ok
          /\ TaskMovesTo("begin")
          /\ UNCHANGED sourceVars
    /\ UNCHANGED <<control, grabbing, busy, progress, events, mutex, processor>>

\* The result of one call decides about the next one.
TaskContinues ==
    /\ \/ /\ TaskAt("files") /\ call["task"].ok
          /\ LoadFirst("task")
          /\ TaskMovesTo("init")
          /\ UNCHANGED events
       \/ /\ TaskAt("init") /\ call["task"].ok
          /\ TaskMovesTo("select")
          /\ UNCHANGED <<sourceVars, events>>
       \/ /\ TaskAt("seek") /\ call["task"].ok
          /\ StepForward("task")
          /\ TaskMovesTo("step")
          /\ UNCHANGED events
       \/ /\ task.at \in {"files", "init", "seek"} /\ IsIdle("task") /\ ~call["task"].ok
          /\ TaskEnds(0)
          /\ UNCHANGED sourceVars
    /\ UNCHANGED <<control, grabbing, busy, progress, mutex, processor>>

\* The coordinator's selectSource(Replay) finds the mode active already.
TaskSelects ==
    /\ TaskAt("select") /\ mutex = "free"
    /\ TaskEnds(Len(files))
    /\ UNCHANGED <<sourceVars, control, grabbing, busy, progress, mutex, processor>>

TaskStepped ==
    /\ TaskAt("step")
    /\ TaskEnds(0)
    /\ UNCHANGED <<sourceVars, control, grabbing, busy, progress, mutex, processor>>

-----------------------------------------------------------------------------
(* The frame callback and the processor                                     *)

SubmitFrame(index) == queue' = IF closed \/ Len(queue) = Capacity
                               THEN queue ELSE Append(queue, index)

ReplayDelivers == /\ WorkerDelivers
                  /\ SubmitFrame(worker.index)
                  /\ UNCHANGED <<control, task, grabbing, busy, progress, events, mutex,
                                 processing, closed>>

TaskDelivers == /\ StepDelivers("task")
                /\ SubmitFrame(call["task"].index)
                /\ UNCHANGED <<control, task, grabbing, busy, progress, events, mutex,
                               processing, closed>>

\* A processed frame is published and onDisplayRefresh() queues the progress.
ProcessFrame == /\ processing /\ queue # <<>>
                /\ Len(events) < MaxEvents
                /\ queue' = Tail(queue)
                /\ Posts(Progress(Head(queue) + 1))
                /\ UNCHANGED <<sourceVars, control, task, grabbing, busy, progress,
                               mutex, processing, closed>>

ReplayEndsList == /\ WorkerLeaves
                  /\ UNCHANGED <<control, task, grabbing, busy, progress, events, mutex,
                                 processor>>

ReplayContinues == /\ WorkerLoads \/ WorkerAdvances \/ WorkerEnds
                   /\ UNCHANGED viewVars

SourceContinues(c) ==
    /\ SetsPosition(c) \/ ControlsThread(c)
    /\ UNCHANGED <<control, task, grabbing, busy, progress, events, mutex, processor>>

-----------------------------------------------------------------------------

StartSteps(t) == \/ StartChecksSize(t) \/ StartInitialized(t) \/ StartChecksEnd(t)
                 \/ StartRewound(t) \/ StartsProcessor(t) \/ StartsSource(t)
                 \/ StartDone(t)

StopSteps(t) == StopsSource(t) \/ SourceStopped(t) \/ StopDone(t)

ControlSteps == (\E t \in Controllers : StartSteps(t) \/ StopSteps(t))
                   \/ StartTask \/ SeekDone

TaskSteps == TaskBegins \/ TaskContinues \/ TaskSelects \/ TaskStepped \/ TaskDelivers

ReplayThread == ReplayDelivers \/ ReplayEndsList \/ ReplayContinues

User == \/ \E t \in Controllers : StartGrab(t) \/ StopGrab(t)
        \/ \E request \in Tasks : RequestTask(request)
        \/ \E index \in SliderRange : SeekReplayFrame(index)

Next == \/ User
        \/ ControlSteps
        \/ HandleEvent
        \/ TaskSteps
        \/ \E c \in Callers : SourceContinues(c)
        \/ ProcessFrame
        \/ ReplayThread

Spec == Init /\ [][Next]_vars

FairSpec == /\ Spec
            /\ WF_vars(ControlSteps) /\ WF_vars(HandleEvent) /\ WF_vars(TaskSteps)
            /\ WF_vars(ProcessFrame) /\ WF_vars(ReplayThread)
            /\ \A c \in Callers : WF_vars(SourceContinues(c))

-----------------------------------------------------------------------------
(* Properties                                                               *)

TypeOK ==
    /\ SourceTypeOK
    /\ control \in [Controllers -> [at : {"idle", "size", "init", "rewind", "rewinding",
                                         "processor", "source", "starting", "stop",
                                         "stopping", "halt", "task", "seek"},
                                   then : Tasks \cup {NoTask}]]
    /\ task \in [kind : {"none", "select", "forward", "backward"}, files : FileLists,
                 at : {"begin", "files", "init", "select", "seek", "step", "ended"}]
    /\ grabbing \in BOOLEAN /\ busy \in BOOLEAN
    /\ currentFrame \in Nat /\ frameCount \in Nat
    /\ events \in Seq([finish : BOOLEAN, sets : SUBSET {"frame", "count"},
                       frame : Nat, count : Nat])
    /\ mutex \in Callers \cup {"free"}
    /\ processing \in BOOLEAN /\ closed \in BOOLEAN
    /\ queue \in Seq(Nat) /\ Len(queue) <= Capacity

\* The view model keeps the contract of the replay source although it calls it
\* from the UI thread and from the task thread, and bypasses the coordinator's
\* mutex: m_replayBusy and the disabled buttons are what keeps the calls apart.
KeepsContract == SourceSpec

\* When no slot is in progress and the view model says it is not grabbing,
\* neither the replay thread nor the processor works.
StoppedIsQuiet == ~grabbing /\ (\A t \in Controllers : At(t, "idle"))
                     => ~Active /\ ~processing

\* The slider's range is that of the selected list whenever it can be used, so
\* that it never asks for a frame out of range.
SliderMatchesList == ~busy => frameCount \in {0, Len(files)}

\* Across the three threads the view model, the source and the processor agree:
\* on who may deliver a frame, on when all is quiet, and on the list's length.
ReplayInv == TypeOK /\ NoTwoProducers /\ StoppedIsQuiet /\ SliderMatchesList

\* A task is always reported as finished: the buttons are enabled again.
BusyEnds == busy ~> ~busy

\* No slot hangs: the joins of stopGrab and seekReplayFrame return.
SlotsReturn == \A t \in Controllers : ~At(t, "idle") ~> At(t, "idle")

\* Whatever the user starts comes to its end: neither a join nor the queued
\* progress keeps the window from being used again.
CallsEnd == BusyEnds /\ SlotsReturn

=============================================================================
