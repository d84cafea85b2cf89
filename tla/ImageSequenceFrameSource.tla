---------------------- MODULE ImageSequenceFrameSource ----------------------
(***************************************************************************)
(* src/acquisition/image_sequence_frame_source.cpp: replays a list of      *)
(* image files.  A replay thread hands one frame after the other to the    *)
(* frame callback; other threads replace the list, position it, deliver a  *)
(* single frame, and start and stop the replay thread.                     *)
(*                                                                         *)
(* The mutex of the class protects its data but not m_worker, so that the  *)
(* class relies on its callers for what Contract says.  The operators      *)
(* SetFiles, Seek, StepForward, LoadFirst, Start and Stop are the first    *)
(* steps of calls; a module that composes this class with its callers      *)
(* uses them without the contract and is checked to respect it.            *)
(*                                                                         *)
(* A frame callback is installed before anything else happens              *)
(* (communication_services.cpp), and the frame interval is only a delay.   *)
(***************************************************************************)
EXTENDS Naturals, Sequences

CONSTANTS Callers,    \* the threads that call the source
          Files,      \* the image files
          Readable,   \* the files that loadFrame can read
          Lists       \* the file lists that can be selected

ASSUME SourceAssumption == /\ Readable \subseteq Files
                           /\ Lists \subseteq Seq(Files)

VARIABLES
    files,            \* m_files
    nextFrameIndex,   \* m_nextFrameIndex
    initialized,      \* m_initialized, with m_width and m_height not 0
    running,          \* m_running
    worker,           \* the replay thread; "none" when m_worker is not joinable
    call              \* for each caller, where it is inside a call and its locals

sequence == <<files, nextFrameIndex, initialized>>
sourceVars == <<sequence, running, worker, call>>

NoWorker == [at |-> "none", index |-> 0, files |-> <<>>, stop |-> FALSE]

Idle(ok) == [op |-> "none", at |-> "idle", files |-> <<>>, index |-> 0,
             resume |-> FALSE, ok |-> ok]

SourceInit == /\ files = <<>> /\ nextFrameIndex = 0 /\ initialized = FALSE
              /\ running = FALSE
              /\ worker = NoWorker
              /\ call = [c \in Callers |-> Idle(TRUE)]

LoadFrame(list, index) == list[index + 1] \in Readable

\* The call of c moves to its next step, or returns.
Enter(c, operation, step) == [Idle(TRUE) EXCEPT !.op = operation, !.at = step]
MovesTo(c, step) == call' = [call EXCEPT ![c].at = step]
Returns(c, ok) == call' = [call EXCEPT ![c] = Idle(ok)]

IsIdle(c) == call[c].at = "idle"

\* The replay thread may still deliver a frame or move the position.
Active == worker.at \in {"loop", "callback", "advance", "end"}

-----------------------------------------------------------------------------
(* stop(), also as a part of setFiles() and seek()                          *)

AfterStop(operation) == CASE operation = "setFiles" -> "assign"
                          [] operation = "seek" -> "position"
                          [] OTHER -> "idle"

\* stop() up to the join; there is nothing to join without a thread
StopBegins(c, frame) ==
    \/ /\ worker = NoWorker
       /\ running' = FALSE
       /\ call' = [call EXCEPT ![c] = [frame EXCEPT !.at = AfterStop(frame.op)]]
       /\ UNCHANGED worker
    \/ /\ worker # NoWorker
       /\ worker' = [worker EXCEPT !.stop = TRUE]
       /\ call' = [call EXCEPT ![c] = [frame EXCEPT !.at = "join"]]
       /\ UNCHANGED running

StopJoins(c) == /\ call[c].at = "join"
                /\ worker.at = "finished"
                /\ worker' = NoWorker
                /\ running' = FALSE
                /\ IF call[c].op = "stop" THEN Returns(c, TRUE)
                   ELSE MovesTo(c, AfterStop(call[c].op))
                /\ UNCHANGED sequence

Stop(c) == /\ IsIdle(c)
           /\ IF worker = NoWorker
                THEN /\ running' = FALSE /\ Returns(c, TRUE) /\ UNCHANGED worker
                ELSE StopBegins(c, Enter(c, "stop", "join"))
           /\ UNCHANGED sequence

-----------------------------------------------------------------------------
(* setFiles(), seek(), stepForward() and init()                             *)

SetFiles(c, list) ==
    /\ IsIdle(c)
    /\ StopBegins(c, [Enter(c, "setFiles", "join") EXCEPT !.files = list])
    /\ UNCHANGED sequence

SetFilesAssigns(c) == /\ call[c].at = "assign"
                      /\ files' = call[c].files
                      /\ nextFrameIndex' = 0
                      /\ initialized' = FALSE
                      /\ Returns(c, files' # <<>>)
                      /\ UNCHANGED <<running, worker>>

Seek(c, index) ==
    /\ IsIdle(c)
    /\ IF index >= Len(files)
         THEN Returns(c, FALSE)
         ELSE call' = [call EXCEPT ![c] =
                         [Enter(c, "seek", "resume") EXCEPT !.index = index]]
    /\ UNCHANGED <<sequence, running, worker>>

\* Mutant: seek() does not stop the replay thread
SeekKeepsPlaying(c) == /\ call[c].at = "resume"
                       /\ MovesTo(c, "position")
                       /\ UNCHANGED <<sequence, running, worker>>

SeekStops(c) == /\ call[c].at = "resume"
                /\ \/ /\ running
                      /\ StopBegins(c, [call[c] EXCEPT !.resume = TRUE])
                   \/ /\ ~running
                      /\ MovesTo(c, "position")
                      /\ UNCHANGED <<running, worker>>
                /\ UNCHANGED sequence

\* Mutant: seek() starts the replay even if it was paused
SeekAlwaysPlays(c) == /\ call[c].at = "position"
                      /\ nextFrameIndex' = call[c].index
                      /\ MovesTo(c, "start")
                      /\ UNCHANGED <<files, initialized, running, worker>>

SeekPositions(c) == /\ call[c].at = "position"
                    /\ nextFrameIndex' = call[c].index
                    /\ IF call[c].resume THEN MovesTo(c, "start") ELSE Returns(c, TRUE)
                    /\ UNCHANGED <<files, initialized, running, worker>>

StepForward(c) ==
    /\ IsIdle(c)
    /\ IF nextFrameIndex < Len(files) /\ LoadFrame(files, nextFrameIndex)
         THEN call' = [call EXCEPT ![c] =
                         [Enter(c, "step", "callback") EXCEPT !.index = nextFrameIndex]]
         ELSE Returns(c, FALSE)
    /\ UNCHANGED <<sequence, running, worker>>

StepDelivers(c) == /\ call[c].at = "callback"
                   /\ MovesTo(c, "advance")
                   /\ UNCHANGED <<sequence, running, worker>>

StepAdvances(c) == /\ call[c].at = "advance"
                   /\ nextFrameIndex' = IF nextFrameIndex = call[c].index
                                        THEN nextFrameIndex + 1 ELSE nextFrameIndex
                   /\ Returns(c, TRUE)
                   /\ UNCHANGED <<files, initialized, running, worker>>

LoadFirst(c) == /\ IsIdle(c)
                /\ IF initialized THEN Returns(c, TRUE)
                   ELSE IF files # <<>> /\ LoadFrame(files, 0)
                   THEN call' = [call EXCEPT ![c] = Enter(c, "init", "size")]
                   ELSE Returns(c, FALSE)
                /\ UNCHANGED <<sequence, running, worker>>

InitSets(c) == /\ call[c].at = "size"
               /\ nextFrameIndex' = 0
               /\ initialized' = TRUE
               /\ Returns(c, TRUE)
               /\ UNCHANGED <<files, running, worker>>

-----------------------------------------------------------------------------
(* start(), called by itself or at the end of seek()                        *)

StartExchanges(c) ==
    /\ IF running THEN Returns(c, TRUE)
       ELSE call' = [call EXCEPT ![c] = Enter(c, "start", "snapshot")]
    /\ running' = TRUE
    /\ UNCHANGED <<sequence, worker>>

Start(c) == IsIdle(c) /\ StartExchanges(c)

SeekResumes(c) == call[c].at = "start" /\ StartExchanges(c)

StartCopies(c) == /\ call[c].at = "snapshot"
                  /\ IF nextFrameIndex >= Len(files)
                       THEN /\ running' = FALSE /\ Returns(c, TRUE)
                       ELSE /\ call' = [call EXCEPT ![c] =
                                  [@ EXCEPT !.at = "spawn", !.files = files,
                                            !.index = nextFrameIndex]]
                            /\ UNCHANGED running
                  /\ UNCHANGED <<sequence, worker>>

\* The assignment to m_worker joins the thread that was there before.
StartSpawns(c) == /\ call[c].at = "spawn"
                  /\ ~Active
                  /\ worker' = [at |-> "loop", index |-> call[c].index,
                                files |-> call[c].files, stop |-> FALSE]
                  /\ Returns(c, TRUE)
                  /\ UNCHANGED <<sequence, running>>

-----------------------------------------------------------------------------
(* The replay thread                                                        *)

WorkerLoads == /\ worker.at = "loop"
               /\ ~worker.stop /\ worker.index < Len(worker.files)
               /\ worker' = IF LoadFrame(worker.files, worker.index)
                            THEN [worker EXCEPT !.at = "callback"]
                            ELSE [worker EXCEPT !.index = @ + 1]
               /\ UNCHANGED <<sequence, running, call>>

WorkerDelivers == /\ worker.at = "callback"
                  /\ worker' = [worker EXCEPT !.at = "advance"]
                  /\ UNCHANGED <<sequence, running, call>>

WorkerAdvances == /\ worker.at = "advance"
                  /\ nextFrameIndex' = IF nextFrameIndex <= worker.index
                                       THEN worker.index + 1 ELSE nextFrameIndex
                  /\ worker' = [worker EXCEPT !.at = "loop", !.index = @ + 1]
                  /\ UNCHANGED <<files, initialized, running, call>>

WorkerLeaves == /\ worker.at = "loop"
                /\ worker.stop \/ worker.index >= Len(worker.files)
                /\ worker' = [worker EXCEPT !.at = "end"]
                /\ UNCHANGED <<sequence, running, call>>

WorkerEnds == /\ worker.at = "end"
              /\ running' = FALSE
              /\ worker' = [worker EXCEPT !.at = "finished"]
              /\ UNCHANGED <<sequence, call>>

-----------------------------------------------------------------------------
(* What the class asks of its callers: one call at a time, and no single    *)
(* step or initialization while the replay thread is active.                *)

Alone(c) == \A d \in Callers \ {c} : IsIdle(d)

Contract(c) ==
    /\ Alone(c)
    /\ \/ \E list \in Lists : SetFiles(c, list)
       \/ \E index \in 0..Len(files) : Seek(c, index)
       \/ Start(c)
       \/ Stop(c)
       \/ ~Active /\ StepForward(c)
       \/ ~Active /\ LoadFirst(c)

\* The later steps of a call, except the delivery of a frame
SetsPosition(c) == \/ SetFilesAssigns(c) \/ SeekPositions(c)
                   \/ StepAdvances(c) \/ InitSets(c)

ControlsThread(c) == \/ StopJoins(c) \/ SeekStops(c) \/ SeekResumes(c)
                     \/ StartCopies(c) \/ StartSpawns(c)

CallContinues(c) == SetsPosition(c) \/ ControlsThread(c)

WorkerContinues == WorkerLoads \/ WorkerAdvances \/ WorkerLeaves \/ WorkerEnds

SourceNext == \/ \E c \in Callers : Contract(c) \/ CallContinues(c) \/ StepDelivers(c)
              \/ WorkerContinues \/ WorkerDelivers

SourceSpec == SourceInit /\ [][SourceNext]_sourceVars

-----------------------------------------------------------------------------
(* Properties                                                               *)

Operations == {"none", "setFiles", "seek", "stop", "step", "init", "start"}

Steps == {"idle", "join", "assign", "resume", "position", "callback", "advance",
          "size", "start", "snapshot", "spawn"}

WorkerStates == {"none", "loop", "callback", "advance", "end", "finished"}

FileLists == Lists \cup {<<>>}

Workers == [at : WorkerStates, index : Nat, files : FileLists, stop : BOOLEAN]

Calls == [op : Operations, at : Steps, files : FileLists, index : Nat,
          resume : BOOLEAN, ok : BOOLEAN]

SourceTypeOK == /\ files \in FileLists /\ nextFrameIndex \in Nat
                /\ initialized \in BOOLEAN /\ running \in BOOLEAN
                /\ worker \in Workers
                /\ call \in [Callers -> Calls]

\* index is the first position from nextFrameIndex on whose file can be read.
IsNext(list, index) == /\ nextFrameIndex <= index /\ index < Len(list)
                       /\ LoadFrame(list, index)
                       /\ \A j \in nextFrameIndex..(index - 1) : ~LoadFrame(list, j)

\* A frame that reaches the callback, from the replay thread or from a single
\* step, is the next readable one of the list that is selected now: no frame is
\* skipped, delivered twice, or taken from a list that was replaced or from
\* before a seek (the snapshots of start() and stepForward()).
DeliversInPlace ==
    /\ WorkerDelivers => worker.files = files /\ IsNext(files, worker.index)
    /\ \A c \in Callers : StepDelivers(c) => IsNext(files, call[c].index)

DeliveriesInPlace == [][DeliversInPlace]_sourceVars

\* The replay thread and a call of stepForward() are never both under way:
\* only one of them moves the position (docs/module-ui.md: stepping stops the
\* continuous replay first, so that no two producers advance the index).
NoTwoProducers == Active => \A c \in Callers : call[c].op # "step"

=============================================================================
