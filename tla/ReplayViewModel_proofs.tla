------------------------ MODULE ReplayViewModel_proofs ------------------------
(***************************************************************************)
(* What ImageSequenceFrameSource guarantees to callers that keep its       *)
(* contract, for every set of callers and every choice of file lists; and  *)
(* the proof that the view model, with the UI thread as its only control   *)
(* thread, keeps that contract, for every choice of files and lists.  What *)
(* the source guarantees to such callers then holds in the application.    *)
(***************************************************************************)
EXTENDS ReplayViewModel, SequenceTheorems, TLAPS

-----------------------------------------------------------------------------
(* ImageSequenceFrameSource: its steps, its callers and the replay thread   *)

\* The steps of a call during which the replay thread is not active
QuietSteps == {"assign", "position", "callback", "advance", "size", "start",
               "snapshot", "spawn"}

OneCall == \A c, d \in Callers : ~IsIdle(c) /\ ~IsIdle(d) => c = d

CallOK(c) == /\ call[c].at \in QuietSteps => ~Active
             /\ call[c].op = "step" => call[c].at \in {"callback", "advance"}
             /\ call[c].at = "callback" => IsNext(files, call[c].index)
             /\ call[c].at \in {"snapshot", "spawn"} => running
             /\ call[c].at = "spawn" => /\ call[c].files = files
                                        /\ call[c].index = nextFrameIndex

\* What the replay thread knows about the position: nothing but unreadable files
\* lies between it and the file the thread is at.
Unread(index) == /\ nextFrameIndex <= index
                 /\ \A j \in nextFrameIndex..(index - 1) : ~LoadFrame(files, j)

WorkerOK == /\ Active => running /\ worker.files = files
            /\ worker.at = "loop" => Unread(worker.index)
            /\ worker.at \in {"callback", "advance"} => IsNext(files, worker.index)

SourceInv == OneCall /\ (\A c \in Callers : CallOK(c)) /\ WorkerOK

-----------------------------------------------------------------------------
(* Types                                                                    *)

LEMMA Names ==
  /\ "none" \in Operations /\ "setFiles" \in Operations /\ "seek" \in Operations
  /\ "stop" \in Operations /\ "step" \in Operations /\ "init" \in Operations
  /\ "start" \in Operations
  /\ "idle" \in Steps /\ "join" \in Steps /\ "assign" \in Steps
  /\ "resume" \in Steps /\ "position" \in Steps /\ "callback" \in Steps
  /\ "advance" \in Steps /\ "size" \in Steps /\ "start" \in Steps
  /\ "snapshot" \in Steps /\ "spawn" \in Steps
  /\ "none" \in WorkerStates /\ "loop" \in WorkerStates
  /\ "callback" \in WorkerStates /\ "advance" \in WorkerStates
  /\ "end" \in WorkerStates /\ "finished" \in WorkerStates
  /\ <<>> \in FileLists
BY DEF Operations, Steps, WorkerStates, FileLists

LEMMA IdleType == \A ok \in BOOLEAN : Idle(ok) \in Calls
BY Names DEF Idle, Calls

LEMMA EnterType ==
  ASSUME NEW c, NEW operation \in Operations, NEW step \in Steps
  PROVE  Enter(c, operation, step) \in Calls
<1> TRUE \in BOOLEAN OBVIOUS
<1> QED BY IdleType DEF Enter, Calls

LEMMA ReturnsType ==
  ASSUME NEW c \in Callers, NEW ok \in BOOLEAN, call \in [Callers -> Calls],
         Returns(c, ok)
  PROVE  call' \in [Callers -> Calls]
BY IdleType DEF Returns

LEMMA MovesToType ==
  ASSUME NEW c \in Callers, NEW step \in Steps, call \in [Callers -> Calls],
         MovesTo(c, step)
  PROVE  call' \in [Callers -> Calls]
<1>1. [call[c] EXCEPT !.at = step] \in Calls BY DEF Calls
<1>2. call' = [call EXCEPT ![c] = [call[c] EXCEPT !.at = step]] BY DEF MovesTo
<1> QED BY <1>1, <1>2

LEMMA CallType ==
  ASSUME SourceTypeOK, NEW c \in Callers
  PROVE  /\ call[c] \in Calls
         /\ call[c].op \in Operations /\ call[c].at \in Steps
         /\ call[c].files \in FileLists /\ call[c].index \in Nat
BY DEF SourceTypeOK, Calls

LEMMA WorkerFields ==
  ASSUME SourceTypeOK
  PROVE  /\ worker.at \in WorkerStates /\ worker.index \in Nat
         /\ worker.files \in FileLists
BY DEF SourceTypeOK, Workers

LEMMA FilesType ==
  ASSUME SourceTypeOK
  PROVE  /\ files \in Seq(Files) /\ Len(files) \in Nat
         /\ worker.files \in Seq(Files) /\ Len(worker.files) \in Nat
<1>1. \A list \in FileLists : list \in Seq(Files)
  <2>1. <<>> \in Seq(Files) OBVIOUS
  <2> QED BY <2>1, SourceAssumption, Zenon DEF FileLists, SourceAssumption
<1>2. files \in Seq(Files) /\ worker.files \in Seq(Files)
  BY <1>1, WorkerFields DEF SourceTypeOK
<1> QED BY <1>2

LEMMA AfterStopType == \A operation : AfterStop(operation) \in Steps
BY Names DEF AfterStop

LEMMA NoWorkerType == NoWorker \in Workers /\ NoWorker.at = "none"
BY Names DEF NoWorker, Workers

LEMMA InitType == SourceInit => SourceTypeOK
<1> SUFFICES ASSUME SourceInit PROVE SourceTypeOK
  OBVIOUS
<1>1. Idle(TRUE) \in Calls BY IdleType
<1>2. call \in [Callers -> Calls] BY <1>1 DEF SourceInit
<1> QED BY <1>2, Names, NoWorkerType DEF SourceInit, SourceTypeOK

LEMMA StopBeginsType ==
  ASSUME SourceTypeOK, NEW c \in Callers, NEW frame \in Calls,
         StopBegins(c, frame), UNCHANGED sequence
  PROVE  SourceTypeOK'
<1>1. /\ [frame EXCEPT !.at = AfterStop(frame.op)] \in Calls
      /\ [frame EXCEPT !.at = "join"] \in Calls
  BY AfterStopType, Names DEF Calls
<1>2. [worker EXCEPT !.stop = TRUE] \in Workers
  BY DEF SourceTypeOK, Workers
<1> QED BY <1>1, <1>2 DEF StopBegins, SourceTypeOK, sequence

LEMMA StartType ==
  ASSUME SourceTypeOK, NEW c \in Callers, StartExchanges(c)
  PROVE  SourceTypeOK'
<1>1. Enter(c, "start", "snapshot") \in Calls BY EnterType, Names
<1>2. call' \in [Callers -> Calls]
  BY <1>1, ReturnsType DEF StartExchanges, SourceTypeOK
<1> QED BY <1>2 DEF StartExchanges, SourceTypeOK, sequence

LEMMA ContractType ==
  ASSUME SourceTypeOK, NEW c \in Callers, Contract(c)
  PROVE  SourceTypeOK'
<1>1. CASE \E list \in Lists : SetFiles(c, list)
  <2> PICK list \in Lists : SetFiles(c, list) BY <1>1
  <2>1. [Enter(c, "setFiles", "join") EXCEPT !.files = list] \in Calls
    BY EnterType, Names DEF Calls, FileLists
  <2> QED BY <2>1, StopBeginsType DEF SetFiles
<1>2. CASE \E index \in 0..Len(files) : Seek(c, index)
  <2> PICK index \in 0..Len(files) : Seek(c, index) BY <1>2
  <2>1. index \in Nat BY FilesType
  <2>2. [Enter(c, "seek", "resume") EXCEPT !.index = index] \in Calls
    BY <2>1, EnterType, Names DEF Calls
  <2>3. call' \in [Callers -> Calls]
    BY <2>2, ReturnsType DEF Seek, SourceTypeOK
  <2> QED BY <2>3 DEF Seek, SourceTypeOK, sequence
<1>3. CASE Start(c)
  BY <1>3, StartType DEF Start
<1>4. CASE Stop(c)
  <2>1. CASE worker = NoWorker
    BY <1>4, <2>1, ReturnsType DEF Stop, SourceTypeOK, sequence
  <2>2. CASE worker # NoWorker
    BY <1>4, <2>2, EnterType, Names, StopBeginsType DEF Stop
  <2> QED BY <2>1, <2>2
<1>5. CASE StepForward(c)
  <2>1. [Enter(c, "step", "callback") EXCEPT !.index = nextFrameIndex] \in Calls
    BY EnterType, Names DEF Calls, SourceTypeOK
  <2>2. call' \in [Callers -> Calls]
    BY <1>5, <2>1, ReturnsType DEF StepForward, SourceTypeOK
  <2> QED BY <1>5, <2>2 DEF StepForward, SourceTypeOK, sequence
<1>6. CASE LoadFirst(c)
  <2>1. CASE call' = [call EXCEPT ![c] = Enter(c, "init", "size")]
    BY <1>6, <2>1, EnterType, Names DEF LoadFirst, SourceTypeOK, sequence
  <2>2. CASE \E ok \in BOOLEAN : Returns(c, ok)
    BY <1>6, <2>2, ReturnsType DEF LoadFirst, SourceTypeOK, sequence
  <2> QED BY <1>6, <2>1, <2>2 DEF LoadFirst
<1> QED BY <1>1, <1>2, <1>3, <1>4, <1>5, <1>6 DEF Contract

LEMMA ContinuesType ==
  ASSUME SourceTypeOK, NEW c \in Callers, CallContinues(c) \/ StepDelivers(c)
  PROVE  SourceTypeOK'
<1> USE DEF SourceTypeOK, sequence
<1>1. CASE StopJoins(c)
  <2>1. call' \in [Callers -> Calls]
    BY <1>1, ReturnsType, MovesToType, AfterStopType DEF StopJoins
  <2> QED BY <1>1, <2>1, NoWorkerType DEF StopJoins
<1>2. CASE SetFilesAssigns(c)
  <2>1. call' \in [Callers -> Calls]
    BY <1>2, ReturnsType DEF SetFilesAssigns
  <2> QED BY <1>2, <2>1, CallType DEF SetFilesAssigns
<1>3. CASE SeekStops(c)
  <2>1. CASE running
    <3>1. [call[c] EXCEPT !.resume = TRUE] \in Calls BY CallType DEF Calls
    <3>2. StopBegins(c, [call[c] EXCEPT !.resume = TRUE]) /\ UNCHANGED sequence
      BY <1>3, <2>1 DEF SeekStops
    <3> QED BY <3>1, <3>2, StopBeginsType
  <2>2. CASE ~running
    <3>1. call' \in [Callers -> Calls]
      BY <1>3, <2>2, MovesToType, Names DEF SeekStops
    <3> QED BY <1>3, <2>2, <3>1 DEF SeekStops
  <2> QED BY <2>1, <2>2
<1>4. CASE SeekPositions(c)
  <2>1. call' \in [Callers -> Calls]
    BY <1>4, ReturnsType, MovesToType, Names DEF SeekPositions
  <2> QED BY <1>4, <2>1, CallType DEF SeekPositions
<1>5. CASE SeekResumes(c)
  BY <1>5, StartType DEF SeekResumes
<1>6. CASE StepAdvances(c)
  <2>1. call' \in [Callers -> Calls]
    BY <1>6, ReturnsType DEF StepAdvances
  <2> QED BY <1>6, <2>1 DEF StepAdvances
<1>7. CASE InitSets(c)
  <2>1. call' \in [Callers -> Calls]
    BY <1>7, ReturnsType DEF InitSets
  <2> QED BY <1>7, <2>1 DEF InitSets
<1>8. CASE StartCopies(c)
  <2>1. [call[c] EXCEPT !.at = "spawn", !.files = files, !.index = nextFrameIndex] \in Calls
    BY CallType, Names DEF Calls
  <2>2. call' \in [Callers -> Calls]
    BY <1>8, <2>1, ReturnsType DEF StartCopies
  <2> QED BY <1>8, <2>2 DEF StartCopies
<1>9. CASE StartSpawns(c)
  <2>1. call' \in [Callers -> Calls]
    BY <1>9, ReturnsType DEF StartSpawns
  <2>2. worker' \in Workers
    BY <1>9, CallType, Names DEF StartSpawns, Workers
  <2> QED BY <1>9, <2>1, <2>2 DEF StartSpawns
<1>10. CASE StepDelivers(c)
  <2>1. call' \in [Callers -> Calls]
    BY <1>10, MovesToType, Names DEF StepDelivers
  <2> QED BY <1>10, <2>1 DEF StepDelivers
<1> QED BY <1>1, <1>2, <1>3, <1>4, <1>5, <1>6, <1>7, <1>8, <1>9, <1>10
        DEF CallContinues, SetsPosition, ControlsThread

LEMMA WorkerType ==
  ASSUME SourceTypeOK, WorkerContinues \/ WorkerDelivers
  PROVE  SourceTypeOK'
<1> USE DEF SourceTypeOK, sequence
<1>0. worker.index + 1 \in Nat BY WorkerFields
<1>1. CASE WorkerLoads
  <2>1. /\ [worker EXCEPT !.at = "callback"] \in Workers
        /\ [worker EXCEPT !.index = worker.index + 1] \in Workers
    BY <1>0, Names DEF Workers
  <2> QED BY <1>1, <2>1 DEF WorkerLoads
<1>2. CASE WorkerAdvances
  <2>1. [worker EXCEPT !.at = "loop", !.index = worker.index + 1] \in Workers
    BY <1>0, Names DEF Workers
  <2> QED BY <1>0, <1>2, <2>1 DEF WorkerAdvances
<1>3. CASE WorkerLeaves
  <2>1. [worker EXCEPT !.at = "end"] \in Workers BY Names DEF Workers
  <2> QED BY <1>3, <2>1 DEF WorkerLeaves
<1>4. CASE WorkerEnds
  <2>1. [worker EXCEPT !.at = "finished"] \in Workers BY Names DEF Workers
  <2> QED BY <1>4, <2>1 DEF WorkerEnds
<1>5. CASE WorkerDelivers
  <2>1. [worker EXCEPT !.at = "advance"] \in Workers BY Names DEF Workers
  <2> QED BY <1>5, <2>1 DEF WorkerDelivers
<1> QED BY <1>1, <1>2, <1>3, <1>4, <1>5 DEF WorkerContinues

LEMMA StepType ==
  ASSUME SourceTypeOK, [SourceNext]_sourceVars
  PROVE  SourceTypeOK'
<1>1. CASE UNCHANGED sourceVars BY <1>1 DEF sourceVars, sequence, SourceTypeOK
<1> QED BY <1>1, ContractType, ContinuesType, WorkerType DEF SourceNext

\* Every state of the source is of the right type.
THEOREM SourceTypeCorrect == SourceSpec => []SourceTypeOK
<1> QED BY InitType, StepType, PTL DEF SourceSpec

-----------------------------------------------------------------------------
(* The invariant                                                            *)

LEMMA InitInv == SourceInit => SourceInv
BY DEF SourceInit, SourceInv, OneCall, CallOK, WorkerOK, Active, NoWorker, Idle, IsIdle,
       QuietSteps

\* Only the call of c changes; the others are idle before and after.
LEMMA OnlyCall ==
  ASSUME SourceTypeOK, SourceInv, NEW c \in Callers, Alone(c) \/ ~IsIdle(c),
         \A d \in Callers \ {c} : call'[d] = call[d]
  PROVE  OneCall'
BY DEF SourceInv, OneCall, Alone, IsIdle

LEMMA OthersIdle ==
  ASSUME SourceInv, NEW c \in Callers, Alone(c) \/ ~IsIdle(c),
         NEW d \in Callers \ {c}
  PROVE  IsIdle(d) /\ call[d].op # "step"
BY DEF SourceInv, OneCall, Alone, IsIdle, CallOK

\* The conclusions of a step of c reduce to what it does for c and the thread.
LEMMA CallStep ==
  ASSUME SourceTypeOK, SourceInv, NEW c \in Callers, Alone(c) \/ ~IsIdle(c),
         NEW new, call' = [call EXCEPT ![c] = new],
         CallOK(c)', WorkerOK'
  PROVE  SourceInv'
<1>1. \A d \in Callers \ {c} : call'[d] = call[d] BY DEF SourceTypeOK
<1>2. OneCall' BY <1>1, OnlyCall
<1>3. ASSUME NEW d \in Callers \ {c} PROVE CallOK(d)'
  <2>1. call'[d].at = "idle" /\ call'[d].op # "step"
    BY <1>1, OthersIdle DEF IsIdle
  <2> QED BY <2>1 DEF CallOK, QuietSteps
<1> QED BY <1>2, <1>3 DEF SourceInv

\* A call that returns leaves nothing to show for itself.
LEMMA ReturnStep ==
  ASSUME SourceTypeOK, SourceInv, NEW c \in Callers, Alone(c) \/ ~IsIdle(c),
         NEW ok, Returns(c, ok), WorkerOK'
  PROVE  SourceInv'
<1>1. call' = [call EXCEPT ![c] = Idle(ok)] BY DEF Returns
<1>2. call'[c] = Idle(ok) BY <1>1 DEF SourceTypeOK
<1>3. CallOK(c)' BY <1>2 DEF CallOK, Idle, QuietSteps
<1> QED BY <1>1, <1>3, CallStep

LEMMA SameWorker ==
  ASSUME WorkerOK, UNCHANGED <<files, nextFrameIndex>>, running' = running \/ ~Active,
         worker'.at = worker.at, worker'.index = worker.index,
         worker'.files = worker.files
  PROVE  WorkerOK'
BY DEF WorkerOK, Active, Unread, IsNext, LoadFrame

\* Without an active thread nothing is said about the position.
LEMMA QuietWorker ==
  ASSUME ~Active, worker' = worker
  PROVE  WorkerOK' /\ ~Active'
BY DEF WorkerOK, Active

LEMMA StopBeginsInv ==
  ASSUME SourceTypeOK, SourceInv, NEW c \in Callers, Alone(c) \/ ~IsIdle(c),
         NEW frame \in Calls, frame.op # "step",
         StopBegins(c, frame), UNCHANGED sequence
  PROVE  SourceInv'
<1>1. CASE worker = NoWorker /\ UNCHANGED worker
  <2> DEFINE new == [frame EXCEPT !.at = AfterStop(frame.op)]
  <2>1. call' = [call EXCEPT ![c] = new]
    <3>1. CASE worker # NoWorker BY <1>1, <3>1
    <3>2. CASE call' = [call EXCEPT ![c] = new] BY <3>2
    <3> QED BY <3>1, <3>2 DEF StopBegins
  <2>2. new.op = frame.op /\ new.at \in {"assign", "position", "idle"}
    BY DEF Calls, AfterStop
  <2>3. ~Active BY <1>1, NoWorkerType DEF Active
  <2>4. WorkerOK' /\ ~Active' BY <1>1, <2>3, QuietWorker
  <2>5. call'[c].op = frame.op /\ call'[c].at \in {"assign", "position", "idle"}
    BY <2>1, <2>2 DEF SourceTypeOK
  <2>6. CallOK(c)' BY <2>4, <2>5 DEF CallOK
  <2> HIDE DEF new
  <2> QED BY <2>1, <2>4, <2>6, CallStep
<1>2. CASE worker' = [worker EXCEPT !.stop = TRUE] /\ UNCHANGED running
           /\ call' = [call EXCEPT ![c] = [frame EXCEPT !.at = "join"]]
  <2> DEFINE new == [frame EXCEPT !.at = "join"]
  <2>1. call' = [call EXCEPT ![c] = new] BY <1>2
  <2>2. new.op = frame.op /\ new.at = "join" BY DEF Calls
  <2>3. call'[c].op = frame.op /\ call'[c].at = "join" BY <2>1, <2>2 DEF SourceTypeOK
  <2>4. CallOK(c)' BY <2>3 DEF CallOK, QuietSteps
  <2>5. /\ worker'.at = worker.at /\ worker'.index = worker.index
        /\ worker'.files = worker.files
    BY <1>2 DEF SourceTypeOK, Workers
  <2>6. WorkerOK' BY <1>2, <2>5, SameWorker DEF SourceInv, sequence
  <2> HIDE DEF new
  <2> QED BY <2>1, <2>4, <2>6, CallStep
<1> QED BY <1>1, <1>2 DEF StopBegins

LEMMA StartInv ==
  ASSUME SourceTypeOK, SourceInv, NEW c \in Callers, Alone(c) \/ ~IsIdle(c),
         StartExchanges(c)
  PROVE  SourceInv'
<1>1. CASE running
  <2>1. Returns(c, TRUE) /\ UNCHANGED <<sequence, worker, running>>
    BY <1>1 DEF StartExchanges, SourceTypeOK
  <2>2. WorkerOK' BY <2>1, SameWorker DEF SourceInv, sequence
  <2> QED BY <2>1, <2>2, ReturnStep
<1>2. CASE ~running
  <2> DEFINE new == Enter(c, "start", "snapshot")
  <2>1. call' = [call EXCEPT ![c] = new] /\ UNCHANGED worker
    BY <1>2 DEF StartExchanges
  <2>2. call'[c].op = "start" /\ call'[c].at = "snapshot"
    BY <2>1 DEF SourceTypeOK, Enter, Idle
  <2>3. ~Active BY <1>2 DEF SourceInv, WorkerOK
  <2>4. WorkerOK' /\ ~Active' BY <2>1, <2>3, QuietWorker
  <2>5. running' BY DEF StartExchanges
  <2>6. CallOK(c)' BY <2>2, <2>4, <2>5 DEF CallOK
  <2> HIDE DEF new
  <2> QED BY <2>1, <2>4, <2>6, CallStep
<1> QED BY <1>1, <1>2 DEF SourceTypeOK

LEMMA ContractInv ==
  ASSUME SourceTypeOK, SourceInv, NEW c \in Callers, Contract(c)
  PROVE  SourceInv'
<1>0. Alone(c) \/ ~IsIdle(c) BY DEF Contract
<1>1. CASE \E list \in Lists : SetFiles(c, list)
  <2> PICK list \in Lists : SetFiles(c, list) BY <1>1
  <2> DEFINE frame == [Enter(c, "setFiles", "join") EXCEPT !.files = list]
  <2>1. frame \in Calls BY EnterType, Names DEF Calls, FileLists
  <2>2. frame.op = "setFiles" BY DEF Enter, Idle
  <2>3. StopBegins(c, frame) /\ UNCHANGED sequence BY DEF SetFiles
  <2> HIDE DEF frame
  <2> QED BY <1>0, <2>1, <2>2, <2>3, StopBeginsInv
<1>2. CASE \E index \in 0..Len(files) : Seek(c, index)
  <2> PICK index \in 0..Len(files) : Seek(c, index) BY <1>2
  <2>1. WorkerOK' BY SameWorker DEF SourceInv, Seek, sequence
  <2>2. CASE Returns(c, FALSE) BY <1>0, <2>1, <2>2, ReturnStep
  <2>3. CASE call' = [call EXCEPT ![c] = [Enter(c, "seek", "resume")
                                              EXCEPT !.index = index]]
    <3> DEFINE new == [Enter(c, "seek", "resume") EXCEPT !.index = index]
    <3>1. call'[c].op = "seek" /\ call'[c].at = "resume"
      BY <2>3 DEF SourceTypeOK, Enter, Idle
    <3>2. CallOK(c)' BY <3>1 DEF CallOK, QuietSteps
    <3>3. call' = [call EXCEPT ![c] = new] BY <2>3
    <3> HIDE DEF new
    <3> QED BY <1>0, <2>1, <3>2, <3>3, CallStep
  <2> QED BY <2>2, <2>3 DEF Seek
<1>3. CASE Start(c)
  BY <1>0, <1>3, StartInv DEF Start
<1>4. CASE Stop(c)
  <2>1. CASE worker = NoWorker
    <3>1. ~Active BY <2>1, NoWorkerType DEF Active
    <3>2. Returns(c, TRUE) /\ UNCHANGED worker BY <1>4, <2>1 DEF Stop
    <3>3. WorkerOK' BY <3>1, <3>2, QuietWorker
    <3> QED BY <1>0, <3>2, <3>3, ReturnStep
  <2>2. CASE worker # NoWorker
    <3> DEFINE frame == Enter(c, "stop", "join")
    <3>1. frame \in Calls BY EnterType, Names
    <3>2. frame.op = "stop" BY DEF Enter, Idle
    <3>3. StopBegins(c, frame) /\ UNCHANGED sequence BY <1>4, <2>2 DEF Stop
    <3> HIDE DEF frame
    <3> QED BY <1>0, <3>1, <3>2, <3>3, StopBeginsInv
  <2> QED BY <2>1, <2>2
<1>5. CASE ~Active /\ StepForward(c)
  <2>1. UNCHANGED <<sequence, worker>> BY <1>5 DEF StepForward
  <2>2. WorkerOK' /\ ~Active' BY <1>5, <2>1, QuietWorker
  <2>3. CASE Returns(c, FALSE) BY <1>0, <2>2, <2>3, ReturnStep
  <2>4. CASE /\ nextFrameIndex < Len(files) /\ LoadFrame(files, nextFrameIndex)
             /\ call' = [call EXCEPT ![c] = [Enter(c, "step", "callback")
                                                EXCEPT !.index = nextFrameIndex]]
    <3> DEFINE new == [Enter(c, "step", "callback") EXCEPT !.index = nextFrameIndex]
    <3>1. /\ call'[c].op = "step" /\ call'[c].at = "callback"
          /\ call'[c].index = nextFrameIndex
      BY <2>4 DEF SourceTypeOK, Enter, Idle
    <3>2. IsNext(files, nextFrameIndex)
      BY <2>4 DEF IsNext, SourceTypeOK
    <3>3. IsNext(files, call[c].index)'
      BY <2>1, <3>1, <3>2 DEF IsNext, sequence, LoadFrame
    <3>4. CallOK(c)' BY <2>2, <3>1, <3>3 DEF CallOK
    <3>5. call' = [call EXCEPT ![c] = new] BY <2>4
    <3> HIDE DEF new
    <3> QED BY <1>0, <2>2, <3>4, <3>5, CallStep
  <2> QED BY <1>5, <2>3, <2>4 DEF StepForward
<1>6. CASE ~Active /\ LoadFirst(c)
  <2>1. UNCHANGED worker BY <1>6 DEF LoadFirst
  <2>2. WorkerOK' /\ ~Active' BY <1>6, <2>1, QuietWorker
  <2>3. CASE Returns(c, TRUE) \/ Returns(c, FALSE) BY <1>0, <2>2, <2>3, ReturnStep
  <2>4. CASE call' = [call EXCEPT ![c] = Enter(c, "init", "size")]
    <3>1. call'[c].op = "init" /\ call'[c].at = "size"
      BY <2>4 DEF SourceTypeOK, Enter, Idle
    <3>2. CallOK(c)' BY <2>2, <3>1 DEF CallOK
    <3> QED BY <1>0, <2>2, <2>4, <3>2, CallStep
  <2> QED BY <1>6, <2>3, <2>4 DEF LoadFirst
<1> QED BY <1>1, <1>2, <1>3, <1>4, <1>5, <1>6 DEF Contract

\* A step of a call from "at" on to "step" that does not concern the thread
LEMMA QuietMove ==
  ASSUME SourceTypeOK, SourceInv, NEW c \in Callers, ~IsIdle(c),
         NEW step \in {"assign", "position", "start", "advance", "idle"},
         MovesTo(c, step), call[c].op = "step" => step = "advance",
         ~Active, worker' = worker
  PROVE  SourceInv'
<1> DEFINE new == [call[c] EXCEPT !.at = step]
<1>1. call' = [call EXCEPT ![c] = new] BY DEF MovesTo
<1>2. call'[c].op = call[c].op /\ call'[c].at = step
  BY <1>1 DEF SourceTypeOK, Calls
<1>3. WorkerOK' /\ ~Active' BY QuietWorker
<1>4. CallOK(c)' BY <1>2, <1>3 DEF CallOK
<1> HIDE DEF new
<1> QED BY <1>1, <1>3, <1>4, CallStep

LEMMA ContinuesInv ==
  ASSUME SourceTypeOK, SourceInv, NEW c \in Callers, CallContinues(c) \/ StepDelivers(c)
  PROVE  SourceInv'
<1>0. CallOK(c) /\ WorkerOK BY DEF SourceInv
<1>1. CASE StopJoins(c)
  <2>1. ~IsIdle(c) /\ call[c].op # "step" BY <1>0, <1>1 DEF StopJoins, IsIdle, CallOK
  <2>2. ~Active' /\ WorkerOK'
    BY <1>1, NoWorkerType DEF StopJoins, WorkerOK, Active
  <2>3. CASE Returns(c, TRUE) BY <2>1, <2>2, <2>3, ReturnStep
  <2>4. CASE MovesTo(c, AfterStop(call[c].op))
    <3> DEFINE step == AfterStop(call[c].op)
               new == [call[c] EXCEPT !.at = step]
    <3>1. step \in {"assign", "position", "idle"} BY DEF AfterStop
    <3>2. call' = [call EXCEPT ![c] = new] BY <2>4 DEF MovesTo
    <3>3. call'[c].op = call[c].op /\ call'[c].at = step
      BY <3>2 DEF SourceTypeOK, Calls
    <3>4. CallOK(c)' BY <2>1, <2>2, <3>1, <3>3 DEF CallOK
    <3> HIDE DEF new
    <3> QED BY <2>1, <2>2, <3>2, <3>4, CallStep
  <2> QED BY <1>1, <2>3, <2>4 DEF StopJoins
<1>2. CASE SetFilesAssigns(c)
  <2>1. ~IsIdle(c) /\ ~Active BY <1>0, <1>2 DEF SetFilesAssigns, IsIdle, CallOK, QuietSteps
  <2>2. WorkerOK' BY <1>2, <2>1, QuietWorker DEF SetFilesAssigns
  <2> QED BY <1>2, <2>1, <2>2, ReturnStep DEF SetFilesAssigns
<1>3. CASE SeekStops(c)
  <2>1. ~IsIdle(c) /\ call[c].op # "step" BY <1>0, <1>3 DEF SeekStops, IsIdle, CallOK
  <2>2. CASE running
    <3> DEFINE frame == [call[c] EXCEPT !.resume = TRUE]
    <3>1. frame \in Calls /\ frame.op = call[c].op BY CallType DEF Calls
    <3>2. StopBegins(c, frame) /\ UNCHANGED sequence BY <1>3, <2>2 DEF SeekStops
    <3> HIDE DEF frame
    <3> QED BY <2>1, <3>1, <3>2, StopBeginsInv
  <2>3. CASE ~running
    <3>1. ~Active BY <1>0, <2>3 DEF WorkerOK
    <3> QED BY <1>3, <2>1, <2>3, <3>1, QuietMove DEF SeekStops
  <2> QED BY <2>2, <2>3
<1>4. CASE SeekPositions(c)
  <2>1. ~IsIdle(c) /\ ~Active /\ call[c].op # "step"
    BY <1>0, <1>4 DEF SeekPositions, IsIdle, CallOK, QuietSteps
  <2>2. WorkerOK' BY <1>4, <2>1, QuietWorker DEF SeekPositions
  <2>3. CASE Returns(c, TRUE) BY <2>1, <2>2, <2>3, ReturnStep
  <2>4. CASE MovesTo(c, "start") BY <1>4, <2>1, <2>4, QuietMove DEF SeekPositions
  <2> QED BY <1>4, <2>3, <2>4 DEF SeekPositions
<1>5. CASE SeekResumes(c)
  BY <1>5, StartInv DEF SeekResumes, IsIdle
<1>6. CASE StepAdvances(c)
  <2>1. ~IsIdle(c) /\ ~Active BY <1>0, <1>6 DEF StepAdvances, IsIdle, CallOK, QuietSteps
  <2>2. WorkerOK' BY <1>6, <2>1, QuietWorker DEF StepAdvances
  <2> QED BY <1>6, <2>1, <2>2, ReturnStep DEF StepAdvances
<1>7. CASE InitSets(c)
  <2>1. ~IsIdle(c) /\ ~Active BY <1>0, <1>7 DEF InitSets, IsIdle, CallOK, QuietSteps
  <2>2. WorkerOK' BY <1>7, <2>1, QuietWorker DEF InitSets
  <2> QED BY <1>7, <2>1, <2>2, ReturnStep DEF InitSets
<1>8. CASE StartCopies(c)
  <2>1. ~IsIdle(c) /\ ~Active /\ running /\ call[c].op # "step"
    BY <1>0, <1>8 DEF StartCopies, IsIdle, CallOK, QuietSteps
  <2>2. WorkerOK' /\ ~Active' BY <1>8, <2>1, QuietWorker DEF StartCopies
  <2>3. CASE nextFrameIndex >= Len(files)
    BY <1>8, <2>1, <2>2, <2>3, ReturnStep DEF StartCopies
  <2>4. CASE ~(nextFrameIndex >= Len(files))
    <3> DEFINE new == [call[c] EXCEPT !.at = "spawn", !.files = files,
                                      !.index = nextFrameIndex]
    <3>1. call' = [call EXCEPT ![c] = new] /\ UNCHANGED <<sequence, running>>
      BY <1>8, <2>4 DEF StartCopies
    <3>2. /\ call'[c].op = call[c].op /\ call'[c].at = "spawn"
          /\ call'[c].files = files /\ call'[c].index = nextFrameIndex
      BY <3>1 DEF SourceTypeOK, Calls
    <3>3. CallOK(c)' BY <2>1, <2>2, <3>1, <3>2 DEF CallOK, sequence
    <3> HIDE DEF new
    <3> QED BY <2>1, <2>2, <3>1, <3>3, CallStep
  <2> QED BY <2>3, <2>4
<1>9. CASE StartSpawns(c)
  <2>1. /\ ~IsIdle(c) /\ running
        /\ call[c].files = files /\ call[c].index = nextFrameIndex
    BY <1>0, <1>9 DEF StartSpawns, IsIdle, CallOK
  <2>2. /\ worker'.at = "loop" /\ worker'.index = nextFrameIndex
        /\ worker'.files = files /\ UNCHANGED <<sequence, running>>
    BY <1>9, <2>1 DEF StartSpawns
  <2>3. Unread(worker.index)'
    BY <2>2 DEF Unread, sequence, SourceTypeOK
  <2>4. WorkerOK' BY <2>1, <2>2, <2>3 DEF WorkerOK, sequence
  <2> QED BY <1>9, <2>1, <2>4, ReturnStep DEF StartSpawns
<1>10. CASE StepDelivers(c)
  <2>1. ~IsIdle(c) /\ ~Active
    BY <1>0, <1>10 DEF StepDelivers, IsIdle, CallOK, QuietSteps
  <2> QED BY <1>10, <2>1, QuietMove DEF StepDelivers
<1> QED BY <1>1, <1>2, <1>3, <1>4, <1>5, <1>6, <1>7, <1>8, <1>9, <1>10
        DEF CallContinues, SetsPosition, ControlsThread

\* While the thread is active no call is at a step that speaks of the position.
LEMMA WorkerCalls ==
  ASSUME SourceInv, Active, UNCHANGED call
  PROVE  OneCall' /\ \A c \in Callers : CallOK(c)'
BY DEF SourceInv, OneCall, IsIdle, CallOK, QuietSteps

LEMMA WorkerInv ==
  ASSUME SourceTypeOK, SourceInv, WorkerContinues \/ WorkerDelivers
  PROVE  SourceInv'
<1>0. /\ Active /\ running /\ worker.files = files /\ UNCHANGED <<files, call>>
      /\ worker.index \in Nat /\ nextFrameIndex \in Nat /\ Len(files) \in Nat
  <2>1. Active /\ UNCHANGED <<files, call>>
    BY DEF WorkerContinues, WorkerLoads, WorkerAdvances, WorkerLeaves, WorkerEnds,
           WorkerDelivers, Active, sequence
  <2> QED BY <2>1, WorkerFields, FilesType DEF SourceInv, WorkerOK, SourceTypeOK
<1> SUFFICES WorkerOK' BY <1>0, WorkerCalls DEF SourceInv
<1>1. CASE WorkerLoads
  <2>1. Unread(worker.index) /\ UNCHANGED <<files, nextFrameIndex, running>>
    BY <1>1 DEF WorkerLoads, SourceInv, WorkerOK, sequence
  <2>2. CASE LoadFrame(worker.files, worker.index)
    <3>1. /\ worker'.at = "callback" /\ worker'.index = worker.index
          /\ worker'.files = worker.files
      BY <1>1, <2>2 DEF WorkerLoads, SourceTypeOK, Workers
    <3>2. IsNext(files, worker.index)
      BY <1>0, <1>1, <2>1, <2>2 DEF WorkerLoads, Unread, IsNext
    <3>3. IsNext(files, worker.index)'
      BY <2>1, <3>1, <3>2 DEF IsNext, LoadFrame
    <3> QED BY <1>0, <2>1, <3>1, <3>3 DEF WorkerOK
  <2>3. CASE ~LoadFrame(worker.files, worker.index)
    <3>1. /\ worker'.at = "loop" /\ worker'.index = worker.index + 1
          /\ worker'.files = worker.files
      BY <1>1, <2>3 DEF WorkerLoads, SourceTypeOK, Workers
    <3>2. \A j \in nextFrameIndex..(worker.index + 1 - 1) : ~LoadFrame(files, j)
      <4>1. ASSUME NEW j \in nextFrameIndex..(worker.index + 1 - 1)
            PROVE  j = worker.index \/ j \in nextFrameIndex..(worker.index - 1)
        BY <1>0
      <4> QED BY <1>0, <2>1, <2>3, <4>1 DEF Unread
    <3>3. Unread(worker.index)'
      BY <1>0, <2>1, <3>1, <3>2 DEF Unread, LoadFrame
    <3> QED BY <1>0, <2>1, <3>1, <3>3 DEF WorkerOK
  <2> QED BY <2>2, <2>3
<1>2. CASE WorkerAdvances
  <2>1. /\ worker'.at = "loop" /\ worker'.index = worker.index + 1
        /\ worker'.files = worker.files /\ UNCHANGED running
    BY <1>2 DEF WorkerAdvances, SourceTypeOK, Workers
  <2>2. nextFrameIndex <= worker.index
    BY <1>2 DEF WorkerAdvances, SourceInv, WorkerOK, IsNext
  <2>3. nextFrameIndex' = worker'.index
    BY <1>2, <2>1, <2>2 DEF WorkerAdvances
  <2>4. Unread(worker.index)' BY <1>0, <2>1, <2>3 DEF Unread
  <2> QED BY <1>0, <2>1, <2>4 DEF WorkerOK
<1>3. CASE WorkerLeaves
  <2>1. worker'.at = "end" /\ worker'.files = worker.files /\ UNCHANGED running
    BY <1>3 DEF WorkerLeaves, SourceTypeOK, Workers
  <2> QED BY <1>0, <2>1 DEF WorkerOK
<1>4. CASE WorkerEnds
  <2>1. worker'.at = "finished" BY <1>4 DEF WorkerEnds, SourceTypeOK, Workers
  <2> QED BY <2>1 DEF WorkerOK, Active
<1>5. CASE WorkerDelivers
  <2>1. /\ worker'.at = "advance" /\ worker'.index = worker.index
        /\ worker'.files = worker.files
        /\ UNCHANGED <<files, nextFrameIndex, running>>
    BY <1>5 DEF WorkerDelivers, SourceTypeOK, Workers, sequence
  <2>2. IsNext(files, worker.index) BY <1>5 DEF WorkerDelivers, SourceInv, WorkerOK
  <2>3. IsNext(files, worker.index)' BY <2>1, <2>2 DEF IsNext, LoadFrame
  <2> QED BY <1>0, <2>1, <2>3 DEF WorkerOK
<1> QED BY <1>1, <1>2, <1>3, <1>4, <1>5 DEF WorkerContinues

LEMMA StepInv ==
  ASSUME SourceTypeOK, SourceInv, [SourceNext]_sourceVars
  PROVE  SourceInv'
<1>1. CASE UNCHANGED sourceVars
  BY <1>1 DEF sourceVars, sequence, SourceInv, OneCall, CallOK, WorkerOK, Active, IsIdle,
              IsNext, Unread, LoadFrame, QuietSteps
<1> QED BY <1>1, ContractInv, ContinuesInv, WorkerInv DEF SourceNext

LEMMA Invariant == SourceSpec => [](SourceTypeOK /\ SourceInv)
<1>1. SourceInit => SourceTypeOK /\ SourceInv BY InitType, InitInv
<1>2. SourceTypeOK /\ SourceInv /\ [SourceNext]_sourceVars => (SourceTypeOK /\ SourceInv)'
  BY StepType, StepInv
<1> QED BY <1>1, <1>2, PTL DEF SourceSpec

-----------------------------------------------------------------------------

\* No single step is under way while the replay thread is active.
THEOREM ProducersApart == SourceSpec => []NoTwoProducers
<1>1. SourceInv => NoTwoProducers
  BY DEF SourceInv, CallOK, NoTwoProducers, QuietSteps
<1> QED BY <1>1, Invariant, PTL

\* Every frame that reaches the callback is the next readable one of the list
\* that is selected: none is skipped, repeated or taken from an old snapshot.
THEOREM FramesInPlace == SourceSpec => DeliveriesInPlace
<1>1. SourceInv => DeliversInPlace
  <2> SUFFICES ASSUME SourceInv PROVE DeliversInPlace OBVIOUS
  <2>1. WorkerDelivers => worker.files = files /\ IsNext(files, worker.index)
    BY DEF WorkerDelivers, SourceInv, WorkerOK, Active
  <2>2. \A c \in Callers : StepDelivers(c) => IsNext(files, call[c].index)
    BY DEF StepDelivers, SourceInv, CallOK
  <2> QED BY <2>1, <2>2 DEF DeliversInPlace
<1> QED BY <1>1, Invariant, PTL DEF DeliveriesInPlace

-----------------------------------------------------------------------------
(* ReplayViewModel: the UI thread and its tasks as the callers              *)

UiOnly == Callers = {"ui", "task"}

\* The steps of a slot at which the UI thread is not inside a call of the source
Outside == {"idle", "size", "rewind", "processor", "source", "stop", "halt", "task"}

StartStepNames == {"size", "init", "rewind", "rewinding", "processor", "source", "starting"}

\* The call that the UI thread has made at each step of a slot
UiCallInv ==
    /\ control["ui"].at \in Outside => call["ui"].at = "idle"
    /\ control["ui"].at = "init" => call["ui"].at \in {"idle", "size"}
    /\ control["ui"].at = "rewinding" =>
          call["ui"].at \in {"idle", "resume", "position"} /\ ~call["ui"].resume
    /\ control["ui"].at = "starting" => call["ui"].at \in {"idle", "snapshot", "spawn"}
    /\ control["ui"].at = "stopping" =>
          /\ call["ui"].at \in {"idle", "join"}
          /\ call["ui"].at = "join" => call["ui"].op = "stop"
          /\ call["ui"].at = "idle" => ~running
    /\ control["ui"].at = "seek" /\ ~grabbing =>
          call["ui"].at \in {"idle", "resume", "position"} /\ ~call["ui"].resume

\* m_grabbing, the replay thread and m_replayBusy at each step of a slot
SlotInv ==
    /\ control["ui"].at \in StartStepNames \cup {"task"} => ~grabbing
    /\ ~grabbing /\ control["ui"].at # "starting" => ~running
    /\ control["ui"].at = "halt" => ~running
    /\ control["ui"].at # "idle" => ~busy
    /\ control["ui"].at = "task" => control["ui"].then \in Tasks

\* A task runs while the buttons are disabled and nothing is replayed; its calls
\* never start the replay thread.
TaskInv ==
    /\ task.at = "ended" => call["task"].at = "idle"
    /\ task.at # "ended" => /\ busy
                            /\ control["ui"].at = "idle"
                            /\ ~grabbing
    /\ ~call["task"].resume
    /\ call["task"].at \notin {"start", "snapshot", "spawn"}
    /\ task.kind = "select" => task.files \in Lists

\* m_replayBusy ends with the task: its completion is queued once.
FinishInv ==
    /\ \A i \in DOMAIN events : events[i].finish => busy /\ task.at = "ended"
    /\ \A i, j \in DOMAIN events : events[i].finish /\ events[j].finish => i = j

ViewInv == UiCallInv /\ SlotInv /\ TaskInv /\ FinishInv

\* The processor runs while something is replayed, and at the ends of a slot
\* that starts or stops it.
QuietInv ==
    processing => \/ grabbing
                  \/ control["ui"].at \in {"source", "starting", "stop", "stopping", "halt"}

\* c is on the way to replace the list.
Assigns(c) == \/ call[c].at = "assign"
              \/ call[c].at \in {"join", "resume"} /\ call[c].op = "setFiles"

\* Only a selection replaces the list, and nothing is queued meanwhile that would
\* set the range of the slider; what is queued afterwards has the new length.
ListInv ==
    /\ ~Assigns("ui")
    /\ Assigns("task") => task.kind = "select"
    /\ task.at = "ended" => task.kind # "select"
    /\ \A i \in DOMAIN events : "count" \in events[i].sets =>
          events[i].finish /\ events[i].count \in {0, Len(files)}
    /\ task.kind # "select" /\ (\A i \in DOMAIN events : "count" \notin events[i].sets) =>
          frameCount \in {0, Len(files)}

PanelInv == QuietInv /\ ListInv

-----------------------------------------------------------------------------
(* Every step of the application is one that the contract allows            *)

LEMMA Threads ==
  ASSUME UiOnly
  PROVE  Controllers = {"ui"} /\ "ui" \in Callers /\ "task" \in Callers
BY DEF UiOnly, Controllers

LEMMA UiAlone ==
  ASSUME UiOnly, TaskInv, ~busy
  PROVE  Alone("ui")
BY DEF UiOnly, TaskInv, Alone, IsIdle

LEMMA TaskAlone ==
  ASSUME UiOnly, UiCallInv, SlotInv, TaskInv, WorkerOK, task.at # "ended"
  PROVE  Alone("task") /\ ~running /\ ~Active
BY DEF UiOnly, UiCallInv, SlotInv, TaskInv, WorkerOK, Alone, IsIdle, Outside

\* A position beyond the list is refused like the one at its end.
LEMMA SeekInRange ==
  ASSUME NEW c \in Callers, SourceTypeOK, NEW index \in Nat, Seek(c, index)
  PROVE  \E i \in 0..Len(files) : Seek(c, i)
<1>0. Len(files) \in Nat BY FilesType
<1>1. CASE index < Len(files)
  <2>1. index \in 0..Len(files) BY <1>0, <1>1
  <2> QED BY <2>1
<1>2. CASE ~(index < Len(files))
  <2>1. index >= Len(files) /\ Len(files) >= Len(files) /\ Len(files) \in 0..Len(files)
    BY <1>0, <1>2
  <2>2. Seek(c, Len(files)) BY <2>1 DEF Seek
  <2> QED BY <2>1, <2>2
<1> QED BY <1>1, <1>2

LEMMA SlotKeepsContract ==
  ASSUME UiOnly, SourceTypeOK, WorkerOK, ViewInv,
         StartSteps("ui") \/ StopSteps("ui")
  PROVE  [SourceNext]_sourceVars
<1> USE DEF ViewInv
<1>a. "ui" \in Callers BY Threads
<1>b. ASSUME control["ui"].at # "idle" PROVE Alone("ui")
  BY <1>b, UiAlone DEF SlotInv
<1>c. ASSUME Contract("ui") PROVE [SourceNext]_sourceVars
  BY <1>a, <1>c DEF SourceNext
<1>1. CASE StartChecksSize("ui")
  <2>1. control["ui"].at = "size" BY <1>1 DEF StartChecksSize, At
  <2>2. ~Active BY <2>1 DEF SlotInv, WorkerOK, StartStepNames
  <2>3. CASE LoadFirst("ui") BY <1>b, <1>c, <2>1, <2>2, <2>3 DEF Contract
  <2> QED BY <1>1, <2>3 DEF StartChecksSize
<1>2. CASE StartChecksEnd("ui")
  <2>1. control["ui"].at = "rewind" BY <1>2 DEF StartChecksEnd, At
  <2>2. CASE Seek("ui", 0)
    <3>1. \E i \in 0..Len(files) : Seek("ui", i) BY <1>a, <2>2, SeekInRange
    <3> QED BY <1>b, <1>c, <2>1, <3>1 DEF Contract
  <2> QED BY <1>2, <2>2 DEF StartChecksEnd
<1>3. CASE StartsSource("ui")
  BY <1>3, <1>b, <1>c DEF StartsSource, Contract, At
<1>4. CASE StopsSource("ui")
  BY <1>4, <1>b, <1>c DEF StopsSource, Contract, At
<1>5. CASE \/ StartInitialized("ui") \/ StartRewound("ui") \/ StartsProcessor("ui")
           \/ StartDone("ui") \/ SourceStopped("ui") \/ StopDone("ui")
  BY <1>5 DEF StartInitialized, StartRewound, StartsProcessor, StartDone, SourceStopped,
              StopDone
<1> QED BY <1>1, <1>2, <1>3, <1>4, <1>5 DEF StartSteps, StopSteps

LEMMA TaskKeepsContract ==
  ASSUME UiOnly, SourceTypeOK, WorkerOK, ViewInv, TaskSteps
  PROVE  [SourceNext]_sourceVars
<1> USE DEF ViewInv
<1>a. "task" \in Callers BY Threads
<1>b. ASSUME task.at # "ended" PROVE Alone("task") /\ ~Active
  BY <1>b, TaskAlone
<1>c. ASSUME Contract("task") PROVE [SourceNext]_sourceVars
  BY <1>a, <1>c DEF SourceNext
<1>1. CASE TaskBegins
  <2>0. task.at # "ended" BY <1>1 DEF TaskBegins, TaskAt
  <2>1. CASE task.kind = "select" /\ SetFiles("task", task.files)
    BY <1>b, <1>c, <2>0, <2>1 DEF Contract, TaskInv
  <2>2. CASE StepForward("task")
    BY <1>b, <1>c, <2>0, <2>2 DEF Contract
  <2>3. CASE Seek("task", IF nextFrameIndex >= 2 THEN nextFrameIndex - 2 ELSE 0)
    <3>1. (IF nextFrameIndex >= 2 THEN nextFrameIndex - 2 ELSE 0) \in Nat
      BY DEF SourceTypeOK
    <3>2. \E i \in 0..Len(files) : Seek("task", i) BY <1>a, <2>3, <3>1, SeekInRange
    <3> QED BY <1>b, <1>c, <2>0, <3>2 DEF Contract
  <2> QED BY <1>1, <2>1, <2>2, <2>3 DEF TaskBegins
<1>2. CASE TaskContinues
  <2>1. CASE TaskAt("files") /\ LoadFirst("task")
    BY <1>b, <1>c, <2>1 DEF Contract, TaskAt
  <2>2. CASE TaskAt("seek") /\ StepForward("task")
    BY <1>b, <1>c, <2>2 DEF Contract, TaskAt
  <2> QED BY <1>2, <2>1, <2>2 DEF TaskContinues
<1>3. CASE TaskSelects \/ TaskStepped
  BY <1>3 DEF TaskSelects, TaskStepped
<1>4. CASE TaskDelivers
  BY <1>4, <1>a DEF TaskDelivers, SourceNext
<1> QED BY <1>1, <1>2, <1>3, <1>4 DEF TaskSteps

LEMMA StepKeepsContract ==
  ASSUME UiOnly, SourceTypeOK, WorkerOK, ViewInv, [Next]_vars
  PROVE  [SourceNext]_sourceVars
<1>a. Controllers = {"ui"} /\ "ui" \in Callers BY Threads
<1>1. CASE User
  <2>1. CASE \E index \in SliderRange : SeekReplayFrame(index)
    <3>1. PICK index \in SliderRange : SeekReplayFrame(index) BY <2>1
    <3>2. index \in Nat BY DEF SliderRange
    <3>3. \E i \in 0..Len(files) : Seek("ui", i)
      BY <1>a, <3>1, <3>2, SeekInRange DEF SeekReplayFrame
    <3>4. Alone("ui") BY <3>1, UiAlone DEF SeekReplayFrame, MayUse, ViewInv
    <3> QED BY <1>a, <3>3, <3>4 DEF Contract, SourceNext
  <2>2. CASE \/ \E t \in Controllers : StartGrab(t) \/ StopGrab(t)
             \/ \E request \in Tasks : RequestTask(request)
    BY <2>2 DEF StartGrab, StopGrab, RequestTask
  <2> QED BY <1>1, <2>1, <2>2 DEF User
<1>2. CASE ControlSteps
  BY <1>a, <1>2, SlotKeepsContract DEF ControlSteps, StartTask, SeekDone
<1>3. CASE TaskSteps BY <1>3, TaskKeepsContract
<1>4. CASE \E c \in Callers : SourceContinues(c)
  BY <1>4 DEF SourceContinues, CallContinues, SourceNext
<1>5. CASE HandleEvent \/ ProcessFrame
  BY <1>5 DEF HandleEvent, ProcessFrame
<1>6. CASE ReplayThread
  BY <1>6 DEF ReplayThread, ReplayDelivers, ReplayEndsList, ReplayContinues, SourceNext,
              WorkerContinues
<1>7. CASE UNCHANGED vars BY <1>7 DEF vars
<1> QED BY <1>1, <1>2, <1>3, <1>4, <1>5, <1>6, <1>7 DEF Next

-----------------------------------------------------------------------------
(* Types                                                                    *)

\* The variables of the view model that TypeOK adds to those of the source
Slots == [at : {"idle", "size", "init", "rewind", "rewinding", "processor", "source",
                "starting", "stop", "stopping", "halt", "task", "seek"},
          then : Tasks \cup {NoTask}]

TaskRecords == [kind : {"none", "select", "forward", "backward"}, files : FileLists,
                at : {"begin", "files", "init", "select", "seek", "step", "ended"}]

EventRecords == [finish : BOOLEAN, sets : SUBSET {"frame", "count"},
                 frame : Nat, count : Nat]

ViewTypes ==
    /\ control \in [Controllers -> Slots]
    /\ task \in TaskRecords
    /\ grabbing \in BOOLEAN /\ busy \in BOOLEAN
    /\ currentFrame \in Nat /\ frameCount \in Nat
    /\ events \in Seq(EventRecords)
    /\ mutex \in Callers \cup {"free"}
    /\ processing \in BOOLEAN /\ closed \in BOOLEAN
    /\ queue \in Seq(Nat) /\ Len(queue) <= Capacity

LEMMA TypeParts == TypeOK <=> SourceTypeOK /\ ViewTypes
BY DEF TypeOK, ViewTypes, Slots, TaskRecords, EventRecords

LEMMA GoesType ==
  ASSUME ViewTypes, NEW t \in Controllers, NEW step, Goes(t, step),
         step \in {"idle", "size", "init", "rewind", "rewinding", "processor", "source",
                   "starting", "stop", "stopping", "halt", "task", "seek"}
  PROVE  /\ control' \in [Controllers -> Slots]
         /\ control'[t].at = step /\ control'[t].then = control[t].then
<1>1. [control[t] EXCEPT !.at = step] \in Slots BY DEF ViewTypes, Slots
<1>2. control' = [control EXCEPT ![t] = [control[t] EXCEPT !.at = step]] BY DEF Goes
<1>3. control'[t] = [control[t] EXCEPT !.at = step] BY <1>2 DEF ViewTypes
<1>4. control[t] \in Slots BY DEF ViewTypes
<1> QED BY <1>1, <1>2, <1>3, <1>4 DEF ViewTypes, Slots

LEMMA TaskMovesType ==
  ASSUME ViewTypes, NEW step \in {"begin", "files", "init", "select", "seek", "step", "ended"},
         TaskMovesTo(step)
  PROVE  /\ task' \in TaskRecords /\ task'.at = step
         /\ task'.kind = task.kind /\ task'.files = task.files
BY DEF ViewTypes, TaskMovesTo, TaskRecords

LEMMA TaskEndsType ==
  ASSUME ViewTypes, NEW count \in Nat, TaskEnds(count)
  PROVE  /\ task' \in TaskRecords /\ task'.at = "ended" /\ task'.kind = "none"
         /\ events' \in Seq(EventRecords)
<1>1. Result(count) \in EventRecords BY DEF Result, EventRecords
<1>2. NoTaskRuns \in TaskRecords BY DEF NoTaskRuns, TaskRecords, FileLists
<1> QED BY <1>1, <1>2 DEF TaskEnds, Posts, ViewTypes, NoTaskRuns

LEMMA SubmitType ==
  ASSUME ViewTypes, NEW index \in Nat, SubmitFrame(index)
  PROVE  queue' \in Seq(Nat) /\ Len(queue') <= Capacity
<1>1. CASE closed \/ Len(queue) = Capacity BY <1>1 DEF SubmitFrame, ViewTypes
<1>2. CASE ~(closed \/ Len(queue) = Capacity)
  BY <1>2, ReplayAssumption DEF SubmitFrame, ViewTypes
<1> QED BY <1>1, <1>2

LEMMA ViewTypesInit == UiOnly /\ Init => ViewTypes
<1> SUFFICES ASSUME UiOnly, Init PROVE ViewTypes OBVIOUS
<1>1. [at |-> "idle", then |-> NoTask] \in Slots BY DEF Slots
<1>2. NoTaskRuns \in TaskRecords BY DEF NoTaskRuns, TaskRecords, FileLists
<1>3. control \in [Controllers -> Slots] BY <1>1 DEF Init
<1>4. events \in Seq(EventRecords) /\ queue \in Seq(Nat) /\ Len(queue) <= Capacity
  BY ReplayAssumption, EmptySeq DEF Init
<1>5. mutex \in Callers \cup {"free"} BY DEF Init
<1> QED BY <1>2, <1>3, <1>4, <1>5 DEF Init, ViewTypes

LEMMA SlotTypes ==
  ASSUME UiOnly, ViewTypes, NEW t \in Controllers, StartSteps(t) \/ StopSteps(t)
  PROVE  ViewTypes'
<1>a. t \in Callers BY DEF Controllers
<1>b. UNCHANGED <<task, busy, frameCount, events, queue>>
  <2>1. CASE StartInitialized(t) \/ StartRewound(t)
    BY <2>1 DEF StartInitialized, StartRewound, processor
  <2>2. CASE StartsProcessor(t) \/ StopDone(t)
    BY <2>2 DEF StartsProcessor, StopDone, progress
  <2>3. CASE \/ StartChecksSize(t) \/ StartChecksEnd(t) \/ StartsSource(t) \/ StartDone(t)
             \/ StopsSource(t) \/ SourceStopped(t)
    BY <2>3 DEF StartChecksSize, StartChecksEnd, StartsSource, StartDone, StopsSource,
                SourceStopped, progress, processor
  <2> QED BY <2>1, <2>2, <2>3 DEF StartSteps, StopSteps
<1>c. control' \in [Controllers -> Slots]
  <2>1. \E step \in {"idle", "size", "init", "rewind", "rewinding", "processor", "source",
                     "starting", "stop", "stopping", "halt", "task", "seek"} : Goes(t, step)
    BY DEF StartSteps, StartChecksSize, StartInitialized, StartChecksEnd, StartRewound,
           StartsProcessor, StartsSource, StartDone, StopSteps, StopsSource, SourceStopped,
           StopDone
  <2> QED BY <2>1, GoesType
<1>d. mutex' \in Callers \cup {"free"}
  BY <1>a DEF StartSteps, StartChecksSize, StartInitialized, StartChecksEnd, StartRewound,
         StartsProcessor, StartsSource, StartDone, StopSteps, StopsSource, SourceStopped,
         StopDone, Lock, Unlock, ViewTypes
<1>e. grabbing' \in BOOLEAN /\ currentFrame' \in Nat
  <2>1. CASE StartInitialized(t) BY <2>1 DEF StartInitialized, ViewTypes
  <2>2. CASE StartRewound(t) BY <2>2 DEF StartRewound, ViewTypes
  <2>3. CASE StartDone(t) BY <2>3 DEF StartDone, ViewTypes, progress
  <2>4. CASE StopDone(t) BY <2>4 DEF StopDone, ViewTypes, progress
  <2>5. CASE \/ StartChecksSize(t) \/ StartChecksEnd(t) \/ StartsProcessor(t)
             \/ StartsSource(t) \/ StopsSource(t) \/ SourceStopped(t)
    BY <2>5 DEF StartChecksSize, StartChecksEnd, StartsProcessor, StartsSource,
                StopsSource, SourceStopped, progress, ViewTypes
  <2> QED BY <2>1, <2>2, <2>3, <2>4, <2>5 DEF StartSteps, StopSteps
<1>f. processing' \in BOOLEAN /\ closed' \in BOOLEAN
  <2>1. CASE StartsProcessor(t) BY <2>1 DEF StartsProcessor, ViewTypes
  <2>2. CASE StopDone(t) BY <2>2 DEF StopDone, ViewTypes
  <2>3. CASE \/ StartChecksSize(t) \/ StartInitialized(t) \/ StartChecksEnd(t)
             \/ StartRewound(t) \/ StartsSource(t) \/ StartDone(t) \/ StopsSource(t)
             \/ SourceStopped(t)
    BY <2>3 DEF StartChecksSize, StartInitialized, StartChecksEnd, StartRewound,
                StartsSource, StartDone, StopsSource, SourceStopped, processor, ViewTypes
  <2> QED BY <2>1, <2>2, <2>3 DEF StartSteps, StopSteps
<1> QED BY <1>b, <1>c, <1>d, <1>e, <1>f DEF ViewTypes

LEMMA TaskTypes ==
  ASSUME UiOnly, SourceTypeOK, ViewTypes, TaskSteps
  PROVE  ViewTypes'
<1>a. ASSUME NEW step \in {"files", "init", "select", "seek", "step"}, TaskMovesTo(step),
             UNCHANGED <<control, grabbing, busy, progress, events, mutex, processor>>
      PROVE  ViewTypes'
  BY <1>a, TaskMovesType DEF ViewTypes, progress, processor
<1>b. ASSUME NEW count \in Nat, TaskEnds(count),
             UNCHANGED <<control, grabbing, busy, progress, mutex, processor>>
      PROVE  ViewTypes'
  BY <1>b, TaskEndsType DEF ViewTypes, progress, processor
<1>1. CASE TaskBegins BY <1>1, <1>a DEF TaskBegins
<1>2. CASE TaskContinues BY <1>2, <1>a, <1>b DEF TaskContinues
<1>3. CASE TaskSelects BY <1>3, <1>b, FilesType DEF TaskSelects
<1>4. CASE TaskStepped BY <1>4, <1>b DEF TaskStepped
<1>5. CASE TaskDelivers
  <2>1. call["task"].index \in Nat BY Threads, CallType
  <2> QED BY <1>5, <2>1, SubmitType DEF TaskDelivers, ViewTypes, progress
<1> QED BY <1>1, <1>2, <1>3, <1>4, <1>5 DEF TaskSteps

LEMMA UserTypes ==
  ASSUME UiOnly, ViewTypes, User \/ StartTask \/ SeekDone
  PROVE  ViewTypes'
<1>a. "ui" \in Controllers BY Threads
<1>1. ASSUME NEW t \in Controllers, StartGrab(t) PROVE ViewTypes'
  BY <1>1, GoesType DEF StartGrab, ViewTypes, progress, processor
<1>2. ASSUME NEW t \in Controllers, StopGrab(t) PROVE ViewTypes'
  <2>1. [at |-> "stop", then |-> NoTask] \in Slots BY DEF Slots
  <2> QED BY <1>2, <2>1 DEF StopGrab, ViewTypes, progress, processor
<1>3. ASSUME NEW request \in Tasks, RequestTask(request) PROVE ViewTypes'
  <2>1. [at |-> IF grabbing THEN "stop" ELSE "task", then |-> request] \in Slots BY DEF Slots
  <2> QED BY <1>3, <1>a, <2>1 DEF RequestTask, ViewTypes, progress, processor
<1>4. ASSUME NEW index \in SliderRange, SeekReplayFrame(index) PROVE ViewTypes'
  BY <1>4, <1>a, GoesType DEF SeekReplayFrame, ViewTypes, progress, processor
<1>5. CASE StartTask
  <2>1. [at |-> "idle", then |-> NoTask] \in Slots BY DEF Slots
  <2>2. control["ui"].then \in Tasks \cup {NoTask} BY <1>a DEF ViewTypes, Slots
  <2>3. \A r \in Tasks \cup {NoTask} :
           [kind |-> r.kind, at |-> "begin", files |-> r.files] \in TaskRecords
    BY DEF Tasks, NoTask, TaskRecords, FileLists
  <2>4. task' \in TaskRecords BY <1>5, <2>2, <2>3 DEF StartTask, ViewTypes
  <2> QED BY <1>5, <1>a, <2>1, <2>4 DEF StartTask, ViewTypes, progress, processor
<1>6. CASE SeekDone
  BY <1>6, <1>a, GoesType DEF SeekDone, ViewTypes, progress, processor
<1> QED BY <1>1, <1>2, <1>3, <1>4, <1>5, <1>6 DEF User

LEMMA EventTypes ==
  ASSUME ViewTypes, HandleEvent \/ ProcessFrame
  PROVE  ViewTypes'
<1>1. CASE HandleEvent
  <2>1. Head(events) \in EventRecords /\ events' \in Seq(EventRecords)
    BY <1>1, HeadTailProperties DEF HandleEvent, ViewTypes
  <2>2. /\ Head(events).frame \in Nat /\ Head(events).count \in Nat
        /\ Head(events).finish \in BOOLEAN
    BY <2>1 DEF EventRecords
  <2> QED BY <1>1, <2>1, <2>2 DEF HandleEvent, ViewTypes, processor
<1>2. CASE ProcessFrame
  <2>1. Head(queue) \in Nat /\ queue' \in Seq(Nat) /\ Len(queue') <= Capacity
    BY <1>2, HeadTailProperties, ReplayAssumption DEF ProcessFrame, ViewTypes
  <2>2. Progress(Head(queue) + 1) \in EventRecords BY <2>1 DEF Progress, EventRecords
  <2>3. events' \in Seq(EventRecords)
    BY <1>2, <2>2 DEF ProcessFrame, Posts, ViewTypes
  <2> QED BY <1>2, <2>1, <2>3 DEF ProcessFrame, ViewTypes, progress
<1> QED BY <1>1, <1>2

LEMMA ViewTypesStep ==
  ASSUME UiOnly, SourceTypeOK, ViewTypes, [Next]_vars
  PROVE  ViewTypes'
<1>1. CASE User \/ ControlSteps
  BY <1>1, UserTypes, SlotTypes DEF ControlSteps
<1>2. CASE HandleEvent \/ ProcessFrame BY <1>2, EventTypes
<1>3. CASE TaskSteps BY <1>3, TaskTypes
<1>4. CASE ReplayDelivers
  <2>1. worker.index \in Nat BY WorkerFields
  <2> QED BY <1>4, <2>1, SubmitType DEF ReplayDelivers, ViewTypes, progress
<1>5. CASE \/ ReplayEndsList \/ ReplayContinues \/ UNCHANGED vars
           \/ \E c \in Callers : SourceContinues(c)
  BY <1>5 DEF ReplayEndsList, ReplayContinues, SourceContinues, vars, viewVars, ViewTypes,
              progress, processor
<1> QED BY <1>1, <1>2, <1>3, <1>4, <1>5 DEF Next, ReplayThread

-----------------------------------------------------------------------------
(* What the calls of the source do to the caller's own record               *)

OthersSame(c) == \A d \in Callers \ {c} : call'[d] = call[d]

LEMMA CallReturns ==
  ASSUME NEW c \in Callers, NEW ok, call \in [Callers -> Calls], Returns(c, ok)
  PROVE  call'[c].at = "idle" /\ ~call'[c].resume /\ OthersSame(c)
BY DEF Returns, Idle, OthersSame

LEMMA CallMoves ==
  ASSUME NEW c \in Callers, NEW step, call \in [Callers -> Calls], MovesTo(c, step)
  PROVE  /\ call'[c].at = step /\ OthersSame(c)
         /\ call'[c].resume = call[c].resume /\ call'[c].op = call[c].op
<1>1. call[c] \in Calls OBVIOUS
<1>2. call'[c] = [call[c] EXCEPT !.at = step] BY DEF MovesTo
<1> QED BY <1>1, <1>2 DEF MovesTo, OthersSame, Calls

LEMMA EnterFields ==
  ASSUME NEW c, NEW operation \in Operations, NEW step \in Steps
  PROVE  /\ Enter(c, operation, step) \in Calls
         /\ Enter(c, operation, step).op = operation
         /\ Enter(c, operation, step).at = step
         /\ ~Enter(c, operation, step).resume
<1>1. Idle(TRUE) \in Calls /\ ~Idle(TRUE).resume BY IdleType DEF Idle
<1> QED BY <1>1, EnterType DEF Enter, Calls

LEMMA FieldChanges ==
  ASSUME NEW entered \in Calls, NEW value
  PROVE  /\ [entered EXCEPT !.index = value].at = entered.at
         /\ [entered EXCEPT !.index = value].op = entered.op
         /\ [entered EXCEPT !.index = value].resume <=> entered.resume
         /\ [entered EXCEPT !.files = value].op = entered.op
         /\ \A step : LET changed == [[entered EXCEPT !.files = value] EXCEPT !.at = step]
                      IN  changed.at = step /\ (changed.resume <=> entered.resume)
BY DEF Calls

LEMMA CallEnters ==
  ASSUME NEW c \in Callers, NEW operation \in Operations, NEW step \in Steps,
         call \in [Callers -> Calls],
         call' = [call EXCEPT ![c] = Enter(c, operation, step)]
  PROVE  call'[c].at = step /\ ~call'[c].resume /\ OthersSame(c)
BY EnterFields DEF OthersSame

LEMMA CallEntersAt ==
  ASSUME NEW c \in Callers, NEW operation \in Operations, NEW step \in Steps, NEW position,
         call \in [Callers -> Calls],
         call' = [call EXCEPT ![c] = [Enter(c, operation, step) EXCEPT !.index = position]]
  PROVE  /\ call'[c].at = step /\ call'[c].op = operation /\ ~call'[c].resume
         /\ OthersSame(c)
<1>1. call'[c] = [Enter(c, operation, step) EXCEPT !.index = position] OBVIOUS
<1>2. call'[c].at = step /\ call'[c].op = operation /\ ~call'[c].resume
  BY <1>1, EnterFields, FieldChanges
<1> QED BY <1>2 DEF OthersSame

LEMMA SeekCalls ==
  ASSUME NEW c \in Callers, NEW index, call \in [Callers -> Calls], Seek(c, index)
  PROVE  /\ call'[c].at \in {"idle", "resume"} /\ ~call'[c].resume /\ OthersSame(c)
         /\ call'[c].at = "resume" => call'[c].op = "seek"
         /\ running' = running
<1>1. CASE index >= Len(files) BY <1>1, CallReturns DEF Seek
<1>2. CASE ~(index >= Len(files)) BY <1>2, CallEntersAt, Names DEF Seek
<1> QED BY <1>1, <1>2

LEMMA StepCalls ==
  ASSUME NEW c \in Callers, call \in [Callers -> Calls], StepForward(c)
  PROVE  /\ call'[c].at \in {"idle", "callback"} /\ ~call'[c].resume /\ OthersSame(c)
         /\ running' = running
<1>1. CASE nextFrameIndex < Len(files) /\ LoadFrame(files, nextFrameIndex)
  BY <1>1, CallEntersAt, Names DEF StepForward
<1>2. CASE ~(nextFrameIndex < Len(files) /\ LoadFrame(files, nextFrameIndex))
  BY <1>2, CallReturns DEF StepForward
<1> QED BY <1>1, <1>2

LEMMA LoadCalls ==
  ASSUME NEW c \in Callers, call \in [Callers -> Calls], LoadFirst(c)
  PROVE  /\ call'[c].at \in {"idle", "size"} /\ ~call'[c].resume /\ OthersSame(c)
         /\ running' = running
BY CallReturns, CallEnters, Names DEF LoadFirst

LEMMA FilesCalls ==
  ASSUME NEW c \in Callers, NEW list, call \in [Callers -> Calls], SetFiles(c, list)
  PROVE  /\ call'[c].at \in {"assign", "join"} /\ ~call'[c].resume /\ OthersSame(c)
         /\ running' => running
<1> DEFINE entered == Enter(c, "setFiles", "join")
           begun == [entered EXCEPT !.files = list]
<1>1. entered \in Calls /\ entered.op = "setFiles" /\ ~entered.resume
  BY EnterFields, Names
<1>2. begun.op = "setFiles" BY <1>1, FieldChanges
<1>3. StopBegins(c, begun) BY DEF SetFiles
<1>4. AfterStop(begun.op) = "assign" BY <1>2 DEF AfterStop
<1>5. CASE worker = NoWorker
  <2>1. call' = [call EXCEPT ![c] = [begun EXCEPT !.at = "assign"]] /\ running' = FALSE
    BY <1>3, <1>4, <1>5 DEF StopBegins
  <2>2. call'[c] = [begun EXCEPT !.at = "assign"] BY <2>1
  <2>3. call'[c].at = "assign" /\ ~call'[c].resume BY <1>1, <2>2, FieldChanges
  <2> QED BY <2>1, <2>3 DEF OthersSame
<1>6. CASE worker # NoWorker
  <2>1. call' = [call EXCEPT ![c] = [begun EXCEPT !.at = "join"]] /\ running' = running
    BY <1>3, <1>6 DEF StopBegins
  <2>2. call'[c] = [begun EXCEPT !.at = "join"] BY <2>1
  <2>3. call'[c].at = "join" /\ ~call'[c].resume BY <1>1, <2>2, FieldChanges
  <2> QED BY <2>1, <2>3 DEF OthersSame
<1> QED BY <1>5, <1>6

LEMMA StopCalls ==
  ASSUME NEW c \in Callers, call \in [Callers -> Calls], Stop(c)
  PROVE  /\ call'[c].at \in {"idle", "join"} /\ OthersSame(c)
         /\ call'[c].at = "join" => call'[c].op = "stop"
         /\ call'[c].at = "idle" => ~running'
         /\ running' => running
<1>1. CASE worker = NoWorker BY <1>1 DEF Stop, Returns, Idle, OthersSame
<1>2. CASE worker # NoWorker
  BY <1>2 DEF Stop, StopBegins, Enter, Idle, OthersSame
<1> QED BY <1>1, <1>2

LEMMA StartCalls ==
  ASSUME NEW c \in Callers, call \in [Callers -> Calls], StartExchanges(c)
  PROVE  call'[c].at \in {"idle", "snapshot"} /\ ~call'[c].resume /\ OthersSame(c)
BY CallReturns, CallEnters, Names DEF StartExchanges

\* What a later step of a call can change
LaterStep(c) ==
    /\ call[c].at \notin {"idle", "callback"}
    /\ OthersSame(c)
    /\ call[c].at \in {"assign", "advance", "size"} =>
          call'[c].at = "idle" /\ ~call'[c].resume /\ running' = running
    /\ call[c].at = "join" =>
          /\ ~running'
          /\ call[c].op = "stop" => call'[c].at = "idle"
          /\ call'[c].at \in {"idle", "assign", "position"}
          /\ ~call[c].resume => ~call'[c].resume
    /\ call[c].at \in {"resume", "position"} /\ ~call[c].resume /\ ~running =>
          call'[c].at \in {"position", "idle"} /\ ~call'[c].resume /\ ~running'
    /\ call[c].at \in {"snapshot", "spawn"} => call'[c].at \in {"idle", "spawn"}
    /\ running' /\ ~running => call[c].at = "start"

LEMMA LaterSteps ==
  ASSUME NEW c \in Callers, SourceTypeOK, CallContinues(c)
  PROVE  LaterStep(c)
<1>a. call \in [Callers -> Calls] /\ running \in BOOLEAN BY DEF SourceTypeOK
<1> USE DEF LaterStep
<1>1. CASE SetFilesAssigns(c) BY <1>1, <1>a, CallReturns DEF SetFilesAssigns
<1>2. CASE SeekPositions(c)
  <2>1. CASE call[c].resume BY <1>2, <2>1, <1>a, CallMoves DEF SeekPositions
  <2>2. CASE ~call[c].resume BY <1>2, <2>2, <1>a, CallReturns DEF SeekPositions
  <2> QED BY <2>1, <2>2
<1>3. CASE StepAdvances(c) BY <1>3, <1>a, CallReturns DEF StepAdvances
<1>4. CASE InitSets(c) BY <1>4, <1>a, CallReturns DEF InitSets
<1>5. CASE StopJoins(c)
  <2>1. CASE call[c].op = "stop" BY <1>5, <2>1, <1>a, CallReturns DEF StopJoins
  <2>2. CASE call[c].op # "stop"
    <3>1. MovesTo(c, AfterStop(call[c].op)) /\ call[c].at = "join" /\ ~running'
      BY <1>5, <2>2 DEF StopJoins
    <3>2. AfterStop(call[c].op) \in {"idle", "assign", "position"}
      <4>1. CASE call[c].op = "setFiles" BY <4>1 DEF AfterStop
      <4>2. CASE call[c].op = "seek" BY <4>2 DEF AfterStop
      <4>3. CASE call[c].op \notin {"setFiles", "seek"} BY <4>3 DEF AfterStop
      <4> QED BY <4>1, <4>2, <4>3
    <3> QED BY <2>2, <3>1, <3>2, <1>a, CallMoves
  <2> QED BY <2>1, <2>2
<1>6. CASE SeekStops(c)
  <2>1. CASE running
    <3>1. OthersSame(c) /\ call[c].at = "resume"
      BY <1>6, <2>1, <1>a DEF SeekStops, StopBegins, OthersSame
    <3> QED BY <2>1, <3>1
  <2>2. CASE ~running BY <1>6, <2>2, <1>a, CallMoves DEF SeekStops
  <2> QED BY <2>1, <2>2
<1>7. CASE SeekResumes(c) BY <1>7, <1>a, StartCalls DEF SeekResumes
<1>8. CASE StartCopies(c)
  <2>1. CASE nextFrameIndex >= Len(files)
    BY <1>8, <2>1, <1>a, CallReturns DEF StartCopies
  <2>2. CASE ~(nextFrameIndex >= Len(files))
    <3>1. /\ call' = [call EXCEPT ![c] = [@ EXCEPT !.at = "spawn", !.files = files,
                                                   !.index = nextFrameIndex]]
          /\ call[c].at = "snapshot" /\ running' = running
      BY <1>8, <2>2 DEF StartCopies
    <3>2. call'[c].at = "spawn" /\ OthersSame(c)
      BY <3>1, <1>a DEF OthersSame, Calls
    <3> QED BY <3>1, <3>2
  <2> QED BY <2>1, <2>2
<1>9. CASE StartSpawns(c) BY <1>9, <1>a, CallReturns DEF StartSpawns, sequence
<1> QED BY <1>1, <1>2, <1>3, <1>4, <1>5, <1>6, <1>7, <1>8, <1>9
        DEF CallContinues, SetsPosition, ControlsThread

-----------------------------------------------------------------------------
(* The invariant                                                            *)

LEMMA ViewInvInit == UiOnly /\ Init => ViewInv
<1> SUFFICES ASSUME UiOnly, Init PROVE ViewInv OBVIOUS
<1>1. /\ control["ui"].at = "idle" /\ task.at = "ended" /\ task.kind = "none"
      /\ running = FALSE /\ busy = FALSE /\ grabbing = FALSE /\ DOMAIN events = {}
  BY Threads, EmptySeq DEF Init, SourceInit, NoTaskRuns
<1>2. call["ui"] = Idle(TRUE) /\ call["task"] = Idle(TRUE)
  BY Threads DEF Init, SourceInit
<1>3. /\ call["ui"].at = "idle" /\ call["task"].at = "idle" /\ ~call["task"].resume
  BY <1>2 DEF Idle
<1>4. UiCallInv /\ SlotInv BY <1>1, <1>3 DEF UiCallInv, SlotInv, StartStepNames
<1>5. TaskInv /\ FinishInv BY <1>1, <1>3 DEF TaskInv, FinishInv
<1> QED BY <1>4, <1>5 DEF ViewInv

\* A slot of the UI thread takes a step: neither the task nor the queued events
\* know of it, because no task runs.
LEMMA UiMoves ==
  ASSUME UiOnly, ViewInv, ~busy, UNCHANGED <<task, busy, events>>,
         call'["task"] = call["task"]
  PROVE  TaskInv' /\ FinishInv'
BY DEF ViewInv, TaskInv, FinishInv

LEMMA StartViewInv ==
  ASSUME UiOnly, SourceTypeOK, ViewTypes, ViewInv, StartSteps("ui")
  PROVE  ViewInv'
<1>a. "ui" \in Callers /\ "ui" \in Controllers /\ "task" \in Callers \ {"ui"} BY Threads
<1>b. call \in [Callers -> Calls] BY DEF SourceTypeOK
<1>c. control["ui"].at # "idle" /\ ~busy /\ control["ui"].at \in StartStepNames /\ ~grabbing
  BY DEF StartSteps, StartChecksSize, StartInitialized, StartChecksEnd, StartRewound,
         StartsProcessor, StartsSource, StartDone, At, ViewInv, SlotInv, StartStepNames
<1>d. UNCHANGED <<task, busy, events>>
  BY DEF StartSteps, StartChecksSize, StartInitialized, StartChecksEnd, StartRewound,
         StartsProcessor, StartsSource, StartDone
<1>e. ASSUME NEW step, Goes("ui", step),
             step \in {"idle", "init", "rewind", "rewinding", "processor", "source",
                       "starting"}
      PROVE  control'["ui"].at = step
  BY <1>a, <1>e, GoesType
<1> USE DEF ViewInv, UiCallInv, SlotInv, Outside, StartStepNames
<1>1. CASE StartChecksSize("ui")
  <2>1. control["ui"].at = "size" /\ grabbing' = grabbing BY <1>1 DEF StartChecksSize, At
  <2>2. CASE initialized
    <3>1. control'["ui"].at = "rewind" /\ call' = call /\ running' = running
      BY <1>1, <1>e, <2>2 DEF StartChecksSize, sourceVars
    <3> QED BY <1>c, <1>d, <2>1, <3>1, UiMoves
  <2>3. CASE ~initialized
    <3>1. control'["ui"].at = "init" /\ LoadFirst("ui")
      BY <1>1, <1>e, <2>3 DEF StartChecksSize
    <3>2. /\ call'["ui"].at \in {"idle", "size"} /\ running' = running
          /\ call'["task"] = call["task"]
      BY <1>a, <1>b, <3>1, LoadCalls DEF OthersSame
    <3> QED BY <1>c, <1>d, <2>1, <3>1, <3>2, UiMoves
  <2> QED BY <2>2, <2>3
<1>2. CASE StartInitialized("ui")
  <2>1. /\ control'["ui"].at \in {"rewind", "idle"} /\ call' = call /\ running' = running
        /\ call["ui"].at = "idle" /\ grabbing' = grabbing /\ control["ui"].at = "init"
    BY <1>2, <1>e DEF StartInitialized, sourceVars, IsIdle, At
  <2> QED BY <1>c, <1>d, <2>1, UiMoves
<1>3. CASE StartChecksEnd("ui")
  <2>1. control["ui"].at = "rewind" /\ grabbing' = grabbing BY <1>3 DEF StartChecksEnd, At
  <2>2. CASE Seek("ui", 0) /\ Goes("ui", "rewinding")
    <3>1. control'["ui"].at = "rewinding" BY <1>e, <2>2
    <3>2. /\ call'["ui"].at \in {"idle", "resume"} /\ ~call'["ui"].resume
          /\ running' = running /\ call'["task"] = call["task"]
      BY <1>a, <1>b, <2>2, SeekCalls DEF OthersSame
    <3> QED BY <1>c, <1>d, <2>1, <3>1, <3>2, UiMoves
  <2>3. CASE UNCHANGED sourceVars /\ Goes("ui", "processor")
    <3>1. control'["ui"].at = "processor" /\ call' = call /\ running' = running
      BY <1>e, <2>3 DEF sourceVars
    <3> QED BY <1>c, <1>d, <2>1, <3>1, UiMoves
  <2> QED BY <1>3, <2>2, <2>3 DEF StartChecksEnd
<1>4. CASE StartRewound("ui")
  <2>1. /\ control'["ui"].at = "processor" /\ call' = call /\ running' = running
        /\ call["ui"].at = "idle" /\ grabbing' = grabbing
        /\ control["ui"].at = "rewinding"
    BY <1>4, <1>e DEF StartRewound, sourceVars, IsIdle, At
  <2> QED BY <1>c, <1>d, <2>1, UiMoves
<1>5. CASE StartsProcessor("ui")
  <2>1. /\ control'["ui"].at = "source" /\ call' = call /\ running' = running
        /\ grabbing' = grabbing /\ control["ui"].at = "processor"
    BY <1>5, <1>e DEF StartsProcessor, sourceVars, At
  <2> QED BY <1>c, <1>d, <2>1, UiMoves
<1>6. CASE StartsSource("ui")
  <2>1. /\ control'["ui"].at = "starting" /\ grabbing' = grabbing
        /\ control["ui"].at = "source" /\ StartExchanges("ui") /\ ~running
    BY <1>6, <1>c, <1>e DEF StartsSource, Start, At
  <2>2. /\ call'["ui"].at \in {"idle", "snapshot"} /\ call'["task"] = call["task"]
    BY <1>a, <1>b, <2>1, StartCalls DEF OthersSame
  <2> QED BY <1>c, <1>d, <2>1, <2>2, UiMoves
<1>7. CASE StartDone("ui")
  <2>1. /\ control'["ui"].at = "idle" /\ call' = call /\ grabbing'
        /\ call["ui"].at = "idle"
    BY <1>7, <1>e DEF StartDone, sourceVars, IsIdle
  <2> QED BY <1>c, <1>d, <2>1, UiMoves
<1> QED BY <1>1, <1>2, <1>3, <1>4, <1>5, <1>6, <1>7 DEF StartSteps

LEMMA StopViewInv ==
  ASSUME UiOnly, SourceTypeOK, ViewTypes, ViewInv, StopSteps("ui")
  PROVE  ViewInv'
<1>a. "ui" \in Callers /\ "ui" \in Controllers /\ "task" \in Callers \ {"ui"} BY Threads
<1>b. call \in [Callers -> Calls] BY DEF SourceTypeOK
<1>c. control["ui"].at # "idle" /\ ~busy
  BY DEF StopSteps, StopsSource, SourceStopped, StopDone, At, ViewInv, SlotInv
<1>d. UNCHANGED <<task, busy, events>>
  BY DEF StopSteps, StopsSource, SourceStopped, StopDone
<1> USE DEF ViewInv, UiCallInv, SlotInv, Outside, StartStepNames
<1>1. CASE StopsSource("ui")
  <2>1. control["ui"].at = "stop" /\ grabbing' = grabbing BY <1>1 DEF StopsSource, At
  <2>2. CASE ~running
    <3>1. control'["ui"].at = "halt" /\ call' = call /\ ~running'
      BY <1>1, <1>a, <2>2, GoesType DEF StopsSource, sourceVars
    <3> QED BY <1>c, <1>d, <2>1, <3>1, UiMoves
  <2>3. CASE running
    <3>1. control'["ui"].at = "stopping" /\ Stop("ui")
      BY <1>1, <1>a, <2>3, GoesType DEF StopsSource
    <3>2. /\ call'["ui"].at \in {"idle", "join"} /\ call'["task"] = call["task"]
          /\ call'["ui"].at = "join" => call'["ui"].op = "stop"
          /\ call'["ui"].at = "idle" => ~running'
      BY <1>a, <1>b, <3>1, StopCalls DEF OthersSame
    <3>3. grabbing BY <2>1, <2>3
    <3> QED BY <1>c, <1>d, <2>1, <3>1, <3>2, <3>3, UiMoves
  <2> QED BY <2>2, <2>3
<1>2. CASE SourceStopped("ui")
  <2>1. /\ control'["ui"].at = "halt" /\ call' = call /\ running' = running
        /\ call["ui"].at = "idle" /\ grabbing' = grabbing /\ control["ui"].at = "stopping"
    BY <1>2, <1>a, GoesType DEF SourceStopped, sourceVars, IsIdle, At
  <2> QED BY <1>c, <1>d, <2>1, UiMoves
<1>3. CASE StopDone("ui")
  <2>1. /\ control'["ui"].at = IF control["ui"].then = NoTask THEN "idle" ELSE "task"
        /\ control'["ui"].then = control["ui"].then
    BY <1>3, <1>a, GoesType DEF StopDone
  <2>2. control["ui"].then \in Tasks \cup {NoTask} BY <1>a DEF ViewTypes, Slots
  <2>3. /\ call' = call /\ running' = running /\ ~grabbing' /\ control["ui"].at = "halt"
    BY <1>3 DEF StopDone, sourceVars, At
  <2> QED BY <1>c, <1>d, <2>1, <2>2, <2>3, UiMoves
<1> QED BY <1>1, <1>2, <1>3 DEF StopSteps

LEMMA UserViewInv ==
  ASSUME UiOnly, SourceTypeOK, ViewTypes, ViewInv, User \/ SeekDone
  PROVE  ViewInv'
<1>a. /\ "ui" \in Callers /\ Controllers = {"ui"} /\ "ui" \in Controllers
      /\ "task" \in Callers \ {"ui"}
  BY Threads
<1>b. call \in [Callers -> Calls] BY DEF SourceTypeOK
<1>c. ASSUME MayUse("ui")
      PROVE  ~busy /\ control["ui"].at = "idle" /\ call["ui"].at = "idle"
  BY <1>c DEF MayUse, At, ViewInv, UiCallInv, Outside
<1> USE DEF ViewInv, UiCallInv, SlotInv, Outside, StartStepNames
<1>1. CASE StartGrab("ui")
  <2>1. /\ control'["ui"].at = "size" /\ ~grabbing /\ MayUse("ui")
        /\ UNCHANGED <<call, running, grabbing, task, busy, events>>
    BY <1>1, <1>a, GoesType DEF StartGrab, sourceVars
  <2> QED BY <1>c, <2>1, UiMoves
<1>2. CASE StopGrab("ui")
  <2>1. /\ control' = [control EXCEPT !["ui"] = [at |-> "stop", then |-> NoTask]]
        /\ MayUse("ui") /\ UNCHANGED <<call, running, grabbing, task, busy, events>>
    BY <1>2 DEF StopGrab, sourceVars
  <2>2. control'["ui"].at = "stop" BY <1>a, <2>1 DEF ViewTypes
  <2> QED BY <1>c, <2>1, <2>2, UiMoves
<1>3. ASSUME NEW request \in Tasks, RequestTask(request) PROVE ViewInv'
  <2>1. /\ control' = [control EXCEPT !["ui"] = [at |-> IF grabbing THEN "stop" ELSE "task",
                                                 then |-> request]]
        /\ MayUse("ui") /\ UNCHANGED <<call, running, grabbing, task, busy, events>>
    BY <1>3 DEF RequestTask, sourceVars
  <2>2. /\ control'["ui"].at = IF grabbing THEN "stop" ELSE "task"
        /\ control'["ui"].then = request
    BY <1>a, <2>1 DEF ViewTypes
  <2> QED BY <1>c, <2>1, <2>2, UiMoves
<1>4. ASSUME NEW index \in SliderRange, SeekReplayFrame(index) PROVE ViewInv'
  <2>1. /\ control'["ui"].at = "seek" /\ MayUse("ui") /\ Seek("ui", index)
        /\ UNCHANGED <<grabbing, task, busy, events>>
    BY <1>4, <1>a, GoesType DEF SeekReplayFrame
  <2>2. /\ call'["ui"].at \in {"idle", "resume"} /\ ~call'["ui"].resume
        /\ running' = running /\ call'["task"] = call["task"]
    BY <1>a, <1>b, <2>1, SeekCalls DEF OthersSame
  <2> QED BY <1>c, <2>1, <2>2, UiMoves
<1>5. CASE SeekDone
  <2>1. /\ control'["ui"].at = "idle" /\ call["ui"].at = "idle" /\ control["ui"].at = "seek"
        /\ UNCHANGED <<call, running, grabbing, task, busy, events>>
    BY <1>5, <1>a, GoesType DEF SeekDone, sourceVars, IsIdle, At
  <2> QED BY <2>1, UiMoves
<1> QED BY <1>a, <1>1, <1>2, <1>3, <1>4, <1>5 DEF User

LEMMA StartTaskViewInv ==
  ASSUME UiOnly, ViewTypes, ViewInv, StartTask
  PROVE  ViewInv'
<1>a. "ui" \in Controllers BY Threads
<1>1. /\ control["ui"].at = "task" /\ busy' /\ control["ui"].then \in Tasks /\ ~busy
      /\ UNCHANGED <<call, running, grabbing, events>>
  BY DEF StartTask, At, ViewInv, SlotInv, sourceVars
<1>2. control'["ui"].at = "idle"
  <2>1. control' = [control EXCEPT !["ui"] = [at |-> "idle", then |-> NoTask]]
    BY DEF StartTask
  <2> QED BY <1>a, <2>1 DEF ViewTypes
<1>3. task' = [kind |-> control["ui"].then.kind, at |-> "begin",
               files |-> control["ui"].then.files]
  BY <1>1 DEF StartTask
<1>4. control["ui"].then.kind = "select" => control["ui"].then.files \in Lists
  BY <1>1 DEF Tasks
<1>5. UiCallInv' /\ SlotInv'
  BY <1>1, <1>2 DEF ViewInv, UiCallInv, SlotInv, Outside, StartStepNames
<1>6. TaskInv' BY <1>1, <1>2, <1>3, <1>4 DEF ViewInv, TaskInv, SlotInv, StartStepNames
<1>7. FinishInv' BY <1>1 DEF ViewInv, FinishInv
<1> QED BY <1>5, <1>6, <1>7 DEF ViewInv

\* The handling of a queued call takes it from the head of the queue.
LEMMA HandleViewInv ==
  ASSUME UiOnly, ViewTypes, ViewInv, HandleEvent
  PROVE  ViewInv'
<1>1. /\ control["ui"].at = "idle" /\ events # <<>> /\ events' = Tail(events)
      /\ busy' = (busy /\ ~events[1].finish)
      /\ UNCHANGED <<call, running, control, task, grabbing>>
  BY DEF HandleEvent, At, sourceVars
<1>2. /\ 1 \in DOMAIN events
      /\ \A i \in DOMAIN events' : i + 1 \in DOMAIN events /\ i + 1 # 1
                                   /\ events'[i] = events[i + 1]
  BY <1>1 DEF ViewTypes
<1>3. UiCallInv' /\ SlotInv'
  BY <1>1 DEF ViewInv, UiCallInv, SlotInv, Outside, StartStepNames
<1>4. TaskInv' BY <1>1, <1>2 DEF ViewInv, TaskInv, FinishInv
<1>5. FinishInv'
  <2>1. \A i \in DOMAIN events' : events'[i].finish => busy' /\ task'.at = "ended"
    BY <1>1, <1>2 DEF ViewInv, FinishInv
  <2>2. \A i, j \in DOMAIN events' : events'[i].finish /\ events'[j].finish => i = j
    <3> SUFFICES ASSUME NEW i \in DOMAIN events', NEW j \in DOMAIN events',
                        events'[i].finish, events'[j].finish
                 PROVE  i = j
      OBVIOUS
    <3>1. i + 1 = j + 1 BY <1>2 DEF ViewInv, FinishInv
    <3>2. i \in Nat /\ j \in Nat BY <1>1 DEF ViewTypes
    <3> QED BY <3>1, <3>2
  <2> QED BY <2>1, <2>2 DEF FinishInv
<1> QED BY <1>3, <1>4, <1>5 DEF ViewInv

\* A running task: what the other conjuncts say while it lasts
LEMMA WhileTaskRuns ==
  ASSUME UiOnly, ViewInv, task.at # "ended"
  PROVE  /\ control["ui"].at = "idle" /\ busy /\ ~grabbing /\ ~running
         /\ call["ui"].at = "idle"
         /\ \A i \in DOMAIN events : ~events[i].finish
BY DEF ViewInv, UiCallInv, SlotInv, TaskInv, FinishInv, Outside

\* The task begins its next call.
LEMMA TaskCallViewInv ==
  ASSUME UiOnly, ViewTypes, ViewInv, task.at # "ended",
         task'.at # "ended", task'.kind = task.kind, task'.files = task.files,
         OthersSame("task"), ~call'["task"].resume, running' => running,
         call'["task"].at \notin {"start", "snapshot", "spawn"},
         UNCHANGED <<control, grabbing, busy, events>>
  PROVE  ViewInv'
<1>1. call'["ui"] = call["ui"] BY Threads DEF OthersSame
<1>2. UiCallInv' /\ SlotInv'
  BY <1>1, WhileTaskRuns DEF ViewInv, UiCallInv, SlotInv, Outside, StartStepNames
<1>3. TaskInv' BY DEF ViewInv, TaskInv
<1>4. FinishInv' BY WhileTaskRuns DEF FinishInv
<1> QED BY <1>2, <1>3, <1>4 DEF ViewInv

\* The task ends and queues its completion.
LEMMA TaskEndViewInv ==
  ASSUME UiOnly, ViewTypes, ViewInv, task.at # "ended", call["task"].at = "idle",
         NEW count \in Nat, TaskEnds(count),
         UNCHANGED <<call, running, control, grabbing, busy>>
  PROVE  ViewInv'
<1>1. task'.at = "ended" /\ task'.kind = "none" BY DEF TaskEnds, NoTaskRuns
<1>2. /\ DOMAIN events' = 1..(Len(events) + 1) /\ Len(events) \in Nat
      /\ \A i \in 1..Len(events) : events'[i] = events[i] /\ ~events[i].finish
  BY WhileTaskRuns DEF TaskEnds, Posts, ViewTypes
<1>3. UiCallInv' /\ SlotInv'
  BY WhileTaskRuns DEF ViewInv, UiCallInv, SlotInv, Outside, StartStepNames
<1>4. TaskInv' BY <1>1 DEF ViewInv, TaskInv
<1>5. FinishInv'
  <2>1. \A i \in DOMAIN events' : events'[i].finish => i = Len(events) + 1
    BY <1>2
  <2> QED BY <1>1, <2>1, WhileTaskRuns DEF FinishInv
<1> QED BY <1>3, <1>4, <1>5 DEF ViewInv

LEMMA TaskViewInv ==
  ASSUME UiOnly, SourceTypeOK, ViewTypes, ViewInv, TaskSteps
  PROVE  ViewInv'
<1>a. "task" \in Callers BY Threads
<1>b. call \in [Callers -> Calls] BY DEF SourceTypeOK
<1>c. ASSUME NEW step \in {"files", "init", "select", "seek", "step"}, TaskMovesTo(step)
      PROVE  task'.at # "ended" /\ task'.kind = task.kind /\ task'.files = task.files
  BY <1>c, TaskMovesType
<1>1. CASE TaskBegins
  <2>1. task.at # "ended" /\ UNCHANGED <<control, grabbing, busy, events>>
    BY <1>1 DEF TaskBegins, TaskAt
  <2>2. CASE SetFiles("task", task.files) /\ TaskMovesTo("files")
    BY <2>1, <2>2, <1>a, <1>b, <1>c, FilesCalls, TaskCallViewInv
  <2>3. CASE StepForward("task") /\ TaskMovesTo("step")
    BY <2>1, <2>3, <1>a, <1>b, <1>c, StepCalls, TaskCallViewInv
  <2>4. CASE TaskMovesTo("seek")
             /\ Seek("task", IF nextFrameIndex >= 2 THEN nextFrameIndex - 2 ELSE 0)
    BY <2>1, <2>4, <1>a, <1>b, <1>c, SeekCalls, TaskCallViewInv
  <2> QED BY <1>1, <2>2, <2>3, <2>4 DEF TaskBegins
<1>2. CASE TaskContinues
  <2>1. task.at # "ended" /\ UNCHANGED <<control, grabbing, busy>>
        /\ call["task"].at = "idle"
    BY <1>2 DEF TaskContinues, TaskAt, IsIdle
  <2>2. CASE LoadFirst("task") /\ TaskMovesTo("init") /\ UNCHANGED events
    BY <2>1, <2>2, <1>a, <1>b, <1>c, LoadCalls, TaskCallViewInv
  <2>3. CASE TaskMovesTo("select") /\ UNCHANGED <<sourceVars, events>>
    <3>1. UNCHANGED <<call, running>> BY <2>3 DEF sourceVars
    <3>2. OthersSame("task") /\ ~call'["task"].resume
          /\ call'["task"].at = "idle"
      BY <2>1, <3>1 DEF OthersSame, ViewInv, TaskInv
    <3> QED BY <2>1, <2>3, <3>1, <3>2, <1>c, TaskCallViewInv
  <2>4. CASE StepForward("task") /\ TaskMovesTo("step") /\ UNCHANGED events
    BY <2>1, <2>4, <1>a, <1>b, <1>c, StepCalls, TaskCallViewInv
  <2>5. CASE TaskEnds(0) /\ UNCHANGED sourceVars
    BY <2>1, <2>5, TaskEndViewInv DEF sourceVars
  <2> QED BY <1>2, <2>2, <2>3, <2>4, <2>5 DEF TaskContinues
<1>3. CASE TaskSelects
  <2>1. /\ task.at # "ended" /\ call["task"].at = "idle" /\ TaskEnds(Len(files))
        /\ UNCHANGED <<call, running, control, grabbing, busy>> /\ Len(files) \in Nat
    BY <1>3, FilesType DEF TaskSelects, TaskAt, IsIdle, sourceVars
  <2> QED BY <2>1, TaskEndViewInv
<1>4. CASE TaskStepped
  <2>1. /\ task.at # "ended" /\ call["task"].at = "idle" /\ TaskEnds(0)
        /\ UNCHANGED <<call, running, control, grabbing, busy>>
    BY <1>4 DEF TaskStepped, TaskAt, IsIdle, sourceVars
  <2> QED BY <2>1, TaskEndViewInv
<1>5. CASE TaskDelivers
  <2>1. /\ call["task"].at = "callback" /\ MovesTo("task", "advance") /\ running' = running
        /\ UNCHANGED <<control, task, grabbing, busy, events>>
    BY <1>5 DEF TaskDelivers, StepDelivers
  <2>2. task.at # "ended" /\ ~call["task"].resume BY <2>1 DEF ViewInv, TaskInv
  <2>3. call'["task"].at = "advance" /\ ~call'["task"].resume /\ OthersSame("task")
    BY <1>a, <1>b, <2>1, <2>2, CallMoves
  <2> QED BY <2>1, <2>2, <2>3, TaskCallViewInv
<1> QED BY <1>1, <1>2, <1>3, <1>4, <1>5 DEF TaskSteps

LEMMA LaterViewInv ==
  ASSUME UiOnly, SourceTypeOK, ViewTypes, ViewInv, NEW c \in Callers, SourceContinues(c)
  PROVE  ViewInv'
<1>1. LaterStep(c) BY LaterSteps DEF SourceContinues, CallContinues
<1>2. UNCHANGED <<control, task, grabbing, busy, events>> BY DEF SourceContinues
<1>3. CASE c = "ui"
  <2>1. call'["task"] = call["task"] BY <1>1, <1>3, Threads DEF LaterStep, OthersSame
  <2>2. control["ui"].at \in {"init", "rewinding", "starting", "stopping", "seek"}
    <3>1. control["ui"] \in Slots BY Threads DEF ViewTypes
    <3>2. control["ui"].at \notin Outside
      BY <1>1, <1>3 DEF LaterStep, ViewInv, UiCallInv
    <3> QED BY <3>1, <3>2 DEF Slots, Outside
  <2>3. ~busy BY <2>2 DEF ViewInv, SlotInv
  <2>4. UiCallInv' /\ SlotInv'
    <3> USE <1>1, <1>2, <1>3 DEF LaterStep, ViewInv, UiCallInv, SlotInv, Outside,
                                 StartStepNames
    <3>1. CASE control["ui"].at = "init" BY <3>1
    <3>2. CASE control["ui"].at = "rewinding" BY <3>2
    <3>3. CASE control["ui"].at = "starting" BY <3>3
    <3>4. CASE control["ui"].at = "stopping" BY <3>4
    <3>5. CASE control["ui"].at = "seek" BY <3>5
    <3> QED BY <2>2, <3>1, <3>2, <3>3, <3>4, <3>5
  <2> QED BY <1>2, <2>1, <2>3, <2>4, UiMoves DEF ViewInv
<1>4. CASE c = "task"
  <2>1. task.at # "ended" BY <1>1, <1>4 DEF LaterStep, ViewInv, TaskInv
  <2>2. call["task"].at \in {"join", "assign", "resume", "position", "advance", "size"}
        /\ ~call["task"].resume /\ ~running
    <3>1. call["task"].at \in Steps BY Threads, CallType
    <3>2. call["task"].at \notin {"start", "snapshot", "spawn", "idle", "callback"}
          /\ ~call["task"].resume
      BY <1>1, <1>4 DEF LaterStep, ViewInv, TaskInv
    <3> QED BY <3>1, <3>2, <2>1, WhileTaskRuns DEF Steps
  <2>3. /\ call'["task"].at \in {"idle", "assign", "position"} /\ ~call'["task"].resume
        /\ running' => running
    BY <1>1, <1>4, <2>2 DEF LaterStep
  <2>4. OthersSame("task") BY <1>1, <1>4 DEF LaterStep
  <2> QED BY <1>2, <2>1, <2>3, <2>4, TaskCallViewInv
<1> QED BY <1>3, <1>4 DEF UiOnly

\* The replay thread and the processor do not touch what the invariant relates.
LEMMA QuietViewInv ==
  ASSUME UiOnly, ViewInv, running' => running,
         UNCHANGED <<call, control, task, grabbing, busy, events>>
  PROVE  ViewInv'
BY DEF ViewInv, UiCallInv, SlotInv, TaskInv, FinishInv, Outside, StartStepNames

LEMMA ProcessViewInv ==
  ASSUME UiOnly, ViewTypes, ViewInv, ProcessFrame
  PROVE  ViewInv'
<1>1. /\ UNCHANGED <<call, running, control, task, grabbing, busy>>
      /\ events' = Append(events, Progress(Head(queue) + 1))
  BY DEF ProcessFrame, Posts, sourceVars
<1>2. ~Progress(Head(queue) + 1).finish BY DEF Progress
<1>3. /\ DOMAIN events' = 1..(Len(events) + 1) /\ Len(events) \in Nat
      /\ DOMAIN events = 1..Len(events)
      /\ \A i \in 1..Len(events) : events'[i] = events[i]
      /\ events'[Len(events) + 1] = Progress(Head(queue) + 1)
  BY <1>1 DEF ViewTypes
<1>4. \A i \in DOMAIN events' : events'[i].finish => i \in DOMAIN events /\ events[i].finish
  BY <1>2, <1>3
<1>5. FinishInv' BY <1>1, <1>4 DEF ViewInv, FinishInv
<1>6. UiCallInv' /\ SlotInv' /\ TaskInv'
  BY <1>1 DEF ViewInv, UiCallInv, SlotInv, TaskInv, Outside, StartStepNames
<1> QED BY <1>5, <1>6 DEF ViewInv

LEMMA ViewInvStep ==
  ASSUME UiOnly, SourceTypeOK, ViewTypes, ViewInv, [Next]_vars
  PROVE  ViewInv'
<1>1. CASE User BY <1>1, UserViewInv
<1>2. CASE ControlSteps
  BY <1>2, Threads, StartViewInv, StopViewInv, StartTaskViewInv, UserViewInv
  DEF ControlSteps
<1>3. CASE HandleEvent BY <1>3, HandleViewInv
<1>4. CASE TaskSteps BY <1>4, TaskViewInv
<1>5. CASE \E c \in Callers : SourceContinues(c) BY <1>5, LaterViewInv
<1>6. CASE ProcessFrame BY <1>6, ProcessViewInv
<1>7. CASE ReplayDelivers
  BY <1>7, QuietViewInv DEF ReplayDelivers, WorkerDelivers
<1>8. CASE ReplayEndsList
  BY <1>8, QuietViewInv DEF ReplayEndsList, WorkerLeaves
<1>9. CASE ReplayContinues
  BY <1>9, QuietViewInv DEF ReplayContinues, viewVars, WorkerLoads, WorkerAdvances, WorkerEnds
<1>10. CASE UNCHANGED vars BY <1>10, QuietViewInv DEF vars, viewVars, sourceVars
<1> QED BY <1>1, <1>2, <1>3, <1>4, <1>5, <1>6, <1>7, <1>8, <1>9, <1>10 DEF Next, ReplayThread

-----------------------------------------------------------------------------
(* The processor, and the range of the slider                               *)

LEMMA QuietStep ==
  ASSUME UiOnly, ViewTypes, ViewInv, QuietInv, [Next]_vars
  PROVE  QuietInv'
<1>a. Controllers = {"ui"} /\ "ui" \in Controllers BY Threads
<1>b. ASSUME UNCHANGED <<control, grabbing, processing>> PROVE QuietInv'
  BY <1>b DEF QuietInv
<1>1. CASE User
  BY <1>1, <1>a DEF User, StartGrab, StopGrab, RequestTask, SeekReplayFrame, MayUse, At,
                    QuietInv, processor
<1>2. CASE StartSteps("ui")
  <2>1. CASE StartsProcessor("ui") \/ StartsSource("ui")
    <3>1. control'["ui"].at \in {"source", "starting"}
      BY <1>a, <2>1, GoesType DEF StartsProcessor, StartsSource
    <3> QED BY <3>1 DEF QuietInv
  <2>2. CASE StartDone("ui") BY <2>2 DEF StartDone, QuietInv
  <2>3. CASE \/ StartChecksSize("ui") \/ StartInitialized("ui") \/ StartChecksEnd("ui")
             \/ StartRewound("ui")
    <3>1. control["ui"].at \in {"size", "init", "rewind", "rewinding"}
          /\ processing' = processing
      BY <2>3 DEF StartChecksSize, StartInitialized, StartChecksEnd, StartRewound, At,
                  processor
    <3> QED BY <3>1 DEF QuietInv, ViewInv, SlotInv, StartStepNames
  <2> QED BY <1>2, <2>1, <2>2, <2>3 DEF StartSteps
<1>3. CASE StopSteps("ui")
  <2>1. CASE StopDone("ui") BY <2>1 DEF StopDone, QuietInv
  <2>2. CASE StopsSource("ui") \/ SourceStopped("ui")
    <3>1. control'["ui"].at \in {"halt", "stopping"}
      BY <1>a, <2>2, GoesType DEF StopsSource, SourceStopped
    <3> QED BY <3>1 DEF QuietInv
  <2> QED BY <1>3, <2>1, <2>2 DEF StopSteps
<1>4. CASE StartTask \/ SeekDone
  BY <1>4 DEF StartTask, SeekDone, At, QuietInv, processor
<1>5. CASE \/ HandleEvent \/ TaskSteps \/ ProcessFrame \/ ReplayThread
           \/ \E c \in Callers : SourceContinues(c)
  BY <1>5, <1>b DEF HandleEvent, TaskSteps, TaskBegins, TaskContinues, TaskSelects, TaskStepped,
     TaskDelivers, ProcessFrame, ReplayThread, ReplayDelivers, ReplayEndsList, ReplayContinues,
     SourceContinues, viewVars, processor
<1>6. CASE UNCHANGED vars BY <1>6, <1>b DEF vars, viewVars, processor
<1> QED BY <1>1, <1>2, <1>3, <1>4, <1>5, <1>6, <1>a DEF Next, ControlSteps

LEMMA LaterAssigns ==
  ASSUME NEW c \in Callers, SourceTypeOK, CallContinues(c)
  PROVE  Assigns(c)' => Assigns(c)
<1>a. call \in [Callers -> Calls] BY DEF SourceTypeOK
<1>b. AfterStop(call[c].op) = "assign" => call[c].op = "setFiles"
  <2>1. CASE call[c].op = "setFiles" BY <2>1
  <2>2. CASE call[c].op = "seek" BY <2>2 DEF AfterStop
  <2>3. CASE call[c].op \notin {"setFiles", "seek"} BY <2>3 DEF AfterStop
  <2> QED BY <2>1, <2>2, <2>3
<1> USE DEF Assigns
<1>1. CASE SeekStops(c)
  <2>1. call[c].at = "resume" BY <1>1 DEF SeekStops
  <2>2. CASE ~running BY <1>1, <2>2, <1>a, CallMoves DEF SeekStops
  <2>3. CASE running
    <3> DEFINE frame == [call[c] EXCEPT !.resume = TRUE]
    <3>1. frame \in Calls /\ frame.op = call[c].op BY <1>a DEF Calls
    <3>2. StopBegins(c, frame) BY <1>1, <2>3 DEF SeekStops
    <3> HIDE DEF frame
    <3>3. \E step \in {"join", AfterStop(frame.op)} :
             call' = [call EXCEPT ![c] = [frame EXCEPT !.at = step]]
      BY <3>2 DEF StopBegins
    <3>4. PICK step \in {"join", AfterStop(frame.op)} :
             call' = [call EXCEPT ![c] = [frame EXCEPT !.at = step]]
      BY <3>3
    <3>5. call'[c] = [frame EXCEPT !.at = step] BY <3>4, <1>a
    <3>6. call'[c].op = frame.op /\ call'[c].at = step BY <3>1, <3>5 DEF Calls
    <3>7. call'[c].op = call[c].op /\ call'[c].at \in {"join", AfterStop(call[c].op)}
      BY <3>1, <3>4, <3>6
    <3> QED BY <2>1, <3>7, <1>b
  <2> QED BY <2>2, <2>3
<1>2. CASE StopJoins(c)
  <2>1. call[c].at = "join" BY <1>2 DEF StopJoins
  <2>2. CASE call[c].op = "stop" BY <1>2, <2>2, <1>a, CallReturns DEF StopJoins
  <2>3. CASE call[c].op # "stop"
    <3>1. call'[c].op = call[c].op /\ call'[c].at = AfterStop(call[c].op)
      BY <1>2, <2>3, <1>a, CallMoves DEF StopJoins
    <3> QED BY <2>1, <3>1, <1>b
  <2> QED BY <2>2, <2>3
<1>3. CASE ~SeekStops(c) /\ ~StopJoins(c)
  <2>1. call'[c].at \in {"idle", "start", "snapshot", "spawn"}
    <3>1. CASE SetFilesAssigns(c) \/ StepAdvances(c) \/ InitSets(c) \/ StartSpawns(c)
      BY <3>1, <1>a, CallReturns DEF SetFilesAssigns, StepAdvances, InitSets, StartSpawns
    <3>2. CASE SeekPositions(c)
      BY <3>2, <1>a, CallReturns, CallMoves DEF SeekPositions
    <3>3. CASE SeekResumes(c) BY <3>3, <1>a, StartCalls DEF SeekResumes
    <3>4. CASE StartCopies(c)
      <4>1. LaterStep(c) /\ call[c].at = "snapshot"
        BY <3>4, LaterSteps DEF CallContinues, ControlsThread, StartCopies
      <4> QED BY <4>1 DEF LaterStep
    <3> QED BY <1>3, <3>1, <3>2, <3>3, <3>4
            DEF CallContinues, SetsPosition, ControlsThread
  <2> QED BY <2>1
<1> QED BY <1>1, <1>2, <1>3

LEMMA ListSame ==
  ASSUME ListInv, UNCHANGED <<files, task, events, frameCount>>,
         Assigns("ui")' => Assigns("ui"), Assigns("task")' => Assigns("task")
  PROVE  ListInv'
BY DEF ListInv

LEMMA ListSlots ==
  ASSUME UiOnly, SourceTypeOK, ListInv, User \/ StartSteps("ui") \/ StopSteps("ui") \/ SeekDone
  PROVE  ListInv'
<1>a. Controllers = {"ui"} /\ "ui" \in Callers /\ "task" \in Callers \ {"ui"} BY Threads
<1>b. call \in [Callers -> Calls] BY DEF SourceTypeOK
<1>c. ASSUME NEW index, Seek("ui", index)
      PROVE  ~Assigns("ui")' /\ (Assigns("task")' => Assigns("task")) /\ UNCHANGED files
  <2>1. call'["ui"].at \in {"idle", "resume"} /\ call'["task"] = call["task"]
        /\ (call'["ui"].at = "resume" => call'["ui"].op = "seek")
    BY <1>a, <1>b, <1>c, SeekCalls DEF OthersSame
  <2> QED BY <1>c, <2>1 DEF Assigns, Seek, sequence
<1>d. ASSUME LoadFirst("ui") \/ Start("ui") \/ Stop("ui")
      PROVE  ~Assigns("ui")' /\ (Assigns("task")' => Assigns("task")) /\ UNCHANGED files
  <2>1. CASE LoadFirst("ui")
    BY <1>a, <1>b, <2>1, LoadCalls DEF OthersSame, Assigns, LoadFirst, sequence
  <2>2. CASE Start("ui")
    BY <1>a, <1>b, <2>2, StartCalls DEF OthersSame, Assigns, Start, StartExchanges, sequence
  <2>3. CASE Stop("ui")
    BY <1>a, <1>b, <2>3, StopCalls DEF OthersSame, Assigns, Stop, sequence
  <2> QED BY <1>d, <2>1, <2>2, <2>3
<1>e. ASSUME UNCHANGED sourceVars
      PROVE  (Assigns("ui")' => Assigns("ui")) /\ (Assigns("task")' => Assigns("task"))
             /\ UNCHANGED files
  BY <1>e DEF Assigns, sourceVars, sequence
<1>1. CASE User
  <2>1. ASSUME NEW index \in SliderRange, SeekReplayFrame(index) PROVE ListInv'
    BY <2>1, <1>c, ListSame DEF SeekReplayFrame, progress
  <2>2. CASE \/ StartGrab("ui") \/ StopGrab("ui")
             \/ \E request \in Tasks : RequestTask(request)
    BY <2>2, <1>e, ListSame DEF StartGrab, StopGrab, RequestTask, progress
  <2> QED BY <1>1, <1>a, <2>1, <2>2 DEF User
<1>2. CASE StartSteps("ui")
  <2>1. UNCHANGED <<task, events, frameCount>>
    <3>1. CASE StartInitialized("ui") \/ StartRewound("ui")
      BY <3>1 DEF StartInitialized, StartRewound
    <3>2. CASE ~(StartInitialized("ui") \/ StartRewound("ui"))
      BY <1>2, <3>2 DEF StartSteps, StartChecksSize, StartChecksEnd, StartsProcessor,
                        StartsSource, StartDone, progress
    <3> QED BY <3>1, <3>2
  <2>2. UNCHANGED sourceVars \/ Seek("ui", 0) \/ LoadFirst("ui") \/ Start("ui")
    <3>1. CASE StartChecksSize("ui")
      BY <3>1 DEF StartChecksSize, sourceVars, sequence
    <3>2. CASE ~StartChecksSize("ui")
      BY <1>2, <3>2 DEF StartSteps, StartInitialized, StartChecksEnd, StartRewound,
                        StartsProcessor, StartsSource, StartDone
    <3> QED BY <3>1, <3>2
  <2> QED BY <2>1, <2>2, <1>c, <1>d, <1>e, ListSame
<1>3. CASE StopSteps("ui")
  <2>1. UNCHANGED <<task, events, frameCount>>
    BY <1>3 DEF StopSteps, StopsSource, SourceStopped, StopDone, progress
  <2>2. UNCHANGED sourceVars \/ Stop("ui")
    BY <1>3 DEF StopSteps, StopsSource, SourceStopped, StopDone, sourceVars, sequence
  <2> QED BY <2>1, <2>2, <1>d, <1>e, ListSame
<1>4. CASE SeekDone BY <1>4, <1>e, ListSame DEF SeekDone, progress
<1> QED BY <1>1, <1>2, <1>3, <1>4

LEMMA ListStartTask ==
  ASSUME UiOnly, ViewTypes, ViewInv, ListInv, StartTask
  PROVE  ListInv'
<1>1. /\ ~busy /\ task.at = "ended" /\ call["task"].at = "idle"
      /\ UNCHANGED <<call, files, events, frameCount>>
  BY DEF StartTask, At, ViewInv, SlotInv, TaskInv, sourceVars, sequence, progress
<1>2. task'.at = "begin" BY <1>1 DEF StartTask
<1>3. ~Assigns("task") BY <1>1 DEF Assigns
<1>4. (Assigns("ui")' => Assigns("ui")) /\ (Assigns("task")' => Assigns("task"))
  BY <1>1 DEF Assigns
<1> QED BY <1>1, <1>2, <1>3, <1>4 DEF ListInv

LEMMA ListHandle ==
  ASSUME ViewTypes, ListInv, HandleEvent
  PROVE  ListInv'
<1>1. /\ events # <<>> /\ events' = Tail(events) /\ UNCHANGED <<call, files, task>>
      /\ frameCount' = IF "count" \in events[1].sets THEN events[1].count ELSE frameCount
  BY DEF HandleEvent, sourceVars, sequence
<1>2. /\ 1 \in DOMAIN events
      /\ \A i \in DOMAIN events' : i + 1 \in DOMAIN events /\ events'[i] = events[i + 1]
      /\ \A i \in DOMAIN events : i # 1 => i - 1 \in DOMAIN events'
                                           /\ events[i] = events'[i - 1]
  BY <1>1 DEF ViewTypes
<1>3. (Assigns("ui")' => Assigns("ui")) /\ (Assigns("task")' => Assigns("task"))
  BY <1>1 DEF Assigns
<1>4. \A i \in DOMAIN events' : "count" \in events'[i].sets =>
         events'[i].finish /\ events'[i].count \in {0, Len(files)}
  BY <1>2 DEF ListInv
<1>5. ASSUME task.kind # "select", \A i \in DOMAIN events' : "count" \notin events'[i].sets
      PROVE  frameCount' \in {0, Len(files)}
  <2>1. CASE "count" \in events[1].sets BY <1>1, <1>2, <2>1 DEF ListInv
  <2>2. CASE "count" \notin events[1].sets
    <3>1. \A i \in DOMAIN events : "count" \notin events[i].sets BY <1>2, <1>5, <2>2
    <3> QED BY <1>1, <1>5, <2>2, <3>1 DEF ListInv
  <2> QED BY <2>1, <2>2
<1> QED BY <1>1, <1>3, <1>4, <1>5 DEF ListInv

\* A call that is appended to the queue
LEMMA Appended ==
  ASSUME ViewTypes, NEW event, events' = Append(events, event)
  PROVE  /\ \A i \in DOMAIN events' :
               \/ events'[i] = event
               \/ i \in DOMAIN events /\ events'[i] = events[i]
         /\ \A i \in DOMAIN events : i \in DOMAIN events' /\ events'[i] = events[i]
         /\ \E i \in DOMAIN events' : events'[i] = event
<1>1. /\ DOMAIN events' = 1..(Len(events) + 1) /\ DOMAIN events = 1..Len(events)
      /\ Len(events) \in Nat /\ events'[Len(events) + 1] = event
      /\ \A i \in 1..Len(events) : events'[i] = events[i]
  BY DEF ViewTypes
<1>2. Len(events) + 1 \in DOMAIN events' BY <1>1
<1> QED BY <1>1, <1>2

LEMMA ListTaskEnds ==
  ASSUME ViewTypes, ViewInv, ListInv, NEW count \in {0, Len(files)}, TaskEnds(count),
         call["task"].at = "idle", UNCHANGED <<call, files, frameCount>>
  PROVE  ListInv'
<1>1. task'.at = "ended" /\ task'.kind = "none" BY DEF TaskEnds, NoTaskRuns
<1>2. (Assigns("ui")' => Assigns("ui")) /\ (Assigns("task")' => Assigns("task"))
  BY DEF Assigns
<1>3. events' = Append(events, Result(count)) BY DEF TaskEnds, Posts
<1>4. /\ Result(count).finish /\ Result(count).count = count
      /\ "count" \in Result(count).sets <=> task.kind = "select"
  BY DEF Result
<1>5. \A i \in DOMAIN events' : "count" \in events'[i].sets =>
         events'[i].finish /\ events'[i].count \in {0, Len(files)}
  BY <1>3, <1>4, Appended DEF ListInv
<1>6. ASSUME \A i \in DOMAIN events' : "count" \notin events'[i].sets
      PROVE  frameCount \in {0, Len(files)}
  BY <1>3, <1>4, <1>6, Appended DEF ListInv
<1>7. ~Assigns("task") BY DEF Assigns
<1> QED BY <1>1, <1>2, <1>5, <1>6, <1>7 DEF ListInv

LEMMA ListTask ==
  ASSUME UiOnly, SourceTypeOK, ViewTypes, ViewInv, ListInv, TaskSteps
  PROVE  ListInv'
<1>a. "task" \in Callers /\ "ui" \in Callers \ {"task"} BY Threads
<1>b. call \in [Callers -> Calls] BY DEF SourceTypeOK
<1>c. ASSUME NEW step \in {"files", "init", "select", "seek", "step"}, TaskMovesTo(step),
             UNCHANGED <<files, events, frameCount>>,
             call'["ui"] = call["ui"], Assigns("task")' => task.kind = "select"
      PROVE  ListInv'
  <2>1. task'.kind = task.kind /\ task'.at # "ended" BY <1>c, TaskMovesType
  <2>2. Assigns("ui")' => Assigns("ui") BY <1>c DEF Assigns
  <2> QED BY <1>c, <2>1, <2>2 DEF ListInv
<1>d. ASSUME LoadFirst("task") \/ StepForward("task")
      PROVE  ~Assigns("task")' /\ call'["ui"] = call["ui"] /\ files' = files
  <2>1. CASE LoadFirst("task")
    BY <1>a, <1>b, <2>1, LoadCalls DEF OthersSame, Assigns, LoadFirst, sequence
  <2>2. CASE StepForward("task")
    BY <1>a, <1>b, <2>2, StepCalls DEF OthersSame, Assigns, StepForward, sequence
  <2> QED BY <1>d, <2>1, <2>2
<1>1. CASE TaskBegins
  <2>1. UNCHANGED <<events, frameCount>> BY <1>1 DEF TaskBegins, progress
  <2>2. CASE task.kind = "select" /\ SetFiles("task", task.files) /\ TaskMovesTo("files")
    <3>1. call'["ui"] = call["ui"] BY <1>a, <1>b, <2>2, FilesCalls DEF OthersSame
    <3>2. files' = files BY <2>2 DEF SetFiles, sequence
    <3> QED BY <1>c, <2>1, <2>2, <3>1, <3>2
  <2>3. CASE StepForward("task") /\ TaskMovesTo("step") BY <1>c, <1>d, <2>1, <2>3
  <2>4. CASE TaskMovesTo("seek")
             /\ Seek("task", IF nextFrameIndex >= 2 THEN nextFrameIndex - 2 ELSE 0)
    <3>1. /\ call'["task"].at \in {"idle", "resume"} /\ call'["ui"] = call["ui"]
          /\ call'["task"].at = "resume" => call'["task"].op = "seek"
      BY <1>a, <1>b, <2>4, SeekCalls DEF OthersSame
    <3>2. files' = files BY <2>4 DEF Seek, sequence
    <3>3. ~Assigns("task")' BY <3>1 DEF Assigns
    <3> QED BY <1>c, <2>1, <2>4, <3>1, <3>2, <3>3
  <2> QED BY <1>1, <2>2, <2>3, <2>4 DEF TaskBegins
<1>2. CASE TaskContinues
  <2>1. call["task"].at = "idle" /\ frameCount' = frameCount
    BY <1>2 DEF TaskContinues, TaskAt, IsIdle, progress
  <2>2. CASE LoadFirst("task") /\ TaskMovesTo("init") /\ UNCHANGED events
    BY <1>c, <1>d, <2>1, <2>2
  <2>3. CASE TaskMovesTo("select") /\ UNCHANGED <<sourceVars, events>>
    <3>1. UNCHANGED <<call, files>> BY <2>3 DEF sourceVars, sequence
    <3>2. ~Assigns("task")' BY <2>1, <3>1 DEF Assigns
    <3> QED BY <1>c, <2>1, <2>3, <3>1, <3>2
  <2>4. CASE StepForward("task") /\ TaskMovesTo("step") /\ UNCHANGED events
    BY <1>c, <1>d, <2>1, <2>4
  <2>5. CASE TaskEnds(0) /\ UNCHANGED sourceVars
    BY <2>1, <2>5, ListTaskEnds DEF sourceVars, sequence
  <2> QED BY <1>2, <2>2, <2>3, <2>4, <2>5 DEF TaskContinues
<1>3. CASE TaskSelects
  BY <1>3, ListTaskEnds DEF TaskSelects, TaskAt, IsIdle, sourceVars, sequence, progress
<1>4. CASE TaskStepped
  BY <1>4, ListTaskEnds DEF TaskStepped, TaskAt, IsIdle, sourceVars, sequence, progress
<1>5. CASE TaskDelivers
  <2>1. MovesTo("task", "advance") /\ UNCHANGED <<files, task, events, frameCount>>
    BY <1>5 DEF TaskDelivers, StepDelivers, sequence, progress
  <2>2. call'["task"].at = "advance" /\ call'["ui"] = call["ui"]
    BY <1>a, <1>b, <2>1, CallMoves DEF OthersSame
  <2>3. ~Assigns("task")' /\ (Assigns("ui")' => Assigns("ui")) BY <2>2 DEF Assigns
  <2> QED BY <2>1, <2>3, ListSame
<1> QED BY <1>1, <1>2, <1>3, <1>4, <1>5 DEF TaskSteps

LEMMA ListLater ==
  ASSUME UiOnly, SourceTypeOK, ViewTypes, ViewInv, ListInv,
         NEW c \in Callers, SourceContinues(c)
  PROVE  ListInv'
<1>1. CallContinues(c) /\ UNCHANGED <<task, events, frameCount>>
  BY DEF SourceContinues, CallContinues, progress
<1>2. LaterStep(c) /\ (Assigns(c)' => Assigns(c)) BY <1>1, LaterSteps, LaterAssigns
<1>3. \A d \in Callers : Assigns(d)' => Assigns(d)
  BY <1>2 DEF LaterStep, OthersSame, Assigns
<1>4. (Assigns("ui")' => Assigns("ui")) /\ (Assigns("task")' => Assigns("task"))
  BY <1>3, Threads
<1>5. CASE SetFilesAssigns(c)
  <2>1. Assigns(c) BY <1>5 DEF SetFilesAssigns, Assigns
  <2>2. c = "task" /\ task.kind = "select" BY <2>1 DEF UiOnly, ListInv
  <2>3. \A i \in DOMAIN events : "count" \notin events[i].sets
    BY <2>2 DEF ListInv, ViewInv, FinishInv
  <2> QED BY <1>1, <1>4, <2>2, <2>3 DEF ListInv
<1>6. CASE ~SetFilesAssigns(c)
  <2>1. files' = files
    BY <1>1, <1>6 DEF CallContinues, SetsPosition, ControlsThread, SeekPositions, StepAdvances,
       InitSets, StopJoins, SeekStops, SeekResumes, StartExchanges, StartCopies, StartSpawns,
       sequence
  <2> QED BY <1>1, <1>4, <2>1, ListSame
<1> QED BY <1>5, <1>6

LEMMA ListProcess ==
  ASSUME ViewTypes, ListInv, ProcessFrame
  PROVE  ListInv'
<1>1. /\ events' = Append(events, Progress(Head(queue) + 1))
      /\ UNCHANGED <<call, files, task, frameCount>>
  BY DEF ProcessFrame, Posts, sourceVars, sequence, progress
<1>2. "count" \notin Progress(Head(queue) + 1).sets BY DEF Progress
<1>3. (Assigns("ui")' => Assigns("ui")) /\ (Assigns("task")' => Assigns("task"))
  BY <1>1 DEF Assigns
<1>4. \A i \in DOMAIN events' : "count" \in events'[i].sets =>
         events'[i].finish /\ events'[i].count \in {0, Len(files)}
  BY <1>1, <1>2, Appended DEF ListInv
<1>5. (\A i \in DOMAIN events' : "count" \notin events'[i].sets) =>
         \A i \in DOMAIN events : "count" \notin events[i].sets
  BY <1>1, Appended
<1> QED BY <1>1, <1>3, <1>4, <1>5 DEF ListInv

LEMMA ListStep ==
  ASSUME UiOnly, SourceTypeOK, ViewTypes, ViewInv, ListInv, [Next]_vars
  PROVE  ListInv'
<1>a. ASSUME UNCHANGED <<files, call, task, events, frameCount>> PROVE ListInv'
  BY <1>a, ListSame DEF Assigns
<1>1. CASE User BY <1>1, ListSlots
<1>2. CASE ControlSteps
  BY <1>2, Threads, ListSlots, ListStartTask DEF ControlSteps
<1>3. CASE HandleEvent BY <1>3, ListHandle
<1>4. CASE TaskSteps BY <1>4, ListTask
<1>5. CASE \E c \in Callers : SourceContinues(c) BY <1>5, ListLater
<1>6. CASE ProcessFrame BY <1>6, ListProcess
<1>7. CASE ReplayDelivers
  BY <1>7, <1>a DEF ReplayDelivers, WorkerDelivers, sequence, progress
<1>8. CASE ReplayEndsList
  BY <1>8, <1>a DEF ReplayEndsList, WorkerLeaves, sequence, progress
<1>9. CASE ReplayContinues
  BY <1>9, <1>a DEF ReplayContinues, viewVars, WorkerLoads, WorkerAdvances, WorkerEnds,
                    sequence, progress
<1>10. CASE UNCHANGED vars
  BY <1>10, <1>a DEF vars, viewVars, sourceVars, sequence, progress
<1> QED BY <1>1, <1>2, <1>3, <1>4, <1>5, <1>6, <1>7, <1>8, <1>9, <1>10 DEF Next, ReplayThread

LEMMA PanelInit == UiOnly /\ Init => PanelInv
<1> SUFFICES ASSUME UiOnly, Init PROVE PanelInv OBVIOUS
<1>1. call["ui"] = Idle(TRUE) /\ call["task"] = Idle(TRUE)
  BY Threads DEF Init, SourceInit
<1>2. ~Assigns("ui") /\ ~Assigns("task") BY <1>1 DEF Assigns, Idle
<1>3. ~processing /\ task.kind = "none" /\ frameCount = 0 /\ DOMAIN events = {}
  BY EmptySeq DEF Init, NoTaskRuns
<1> QED BY <1>2, <1>3 DEF PanelInv, QuietInv, ListInv

-----------------------------------------------------------------------------
(* The theorems                                                             *)

IInv == SourceTypeOK /\ SourceInv /\ ViewTypes /\ ViewInv /\ PanelInv

LEMMA Inductive == ASSUME UiOnly PROVE Spec => []IInv
<1>1. Init => IInv
  BY InitType, InitInv, ViewTypesInit, ViewInvInit, PanelInit DEF Init, IInv
<1>2. IInv /\ [Next]_vars => IInv'
  <2> SUFFICES ASSUME IInv, [Next]_vars PROVE IInv' OBVIOUS
  <2>1. [SourceNext]_sourceVars BY StepKeepsContract DEF IInv, SourceInv
  <2>2. SourceTypeOK' /\ SourceInv' BY <2>1, StepType, StepInv DEF IInv
  <2>3. ViewTypes' /\ ViewInv' BY ViewTypesStep, ViewInvStep DEF IInv
  <2>4. PanelInv' BY QuietStep, ListStep DEF IInv, PanelInv
  <2> QED BY <2>2, <2>3, <2>4 DEF IInv
<1> QED BY <1>1, <1>2, PTL DEF Spec

\* The buttons and m_replayBusy keep the calls that the UI thread and the task
\* thread make on the replay source apart, as its contract asks for.
THEOREM ContractKept == ASSUME UiOnly PROVE Spec => KeepsContract
<1>1. Init => SourceInit BY DEF Init
<1>2. IInv /\ [Next]_vars => [SourceNext]_sourceVars
  BY StepKeepsContract DEF IInv, SourceInv
<1> QED BY <1>1, <1>2, Inductive, PTL DEF Spec, KeepsContract, SourceSpec

\* Every frame that a replay or a single step hands to the processor is the next
\* readable one of the selected list, whatever the user clicks meanwhile.
THEOREM ReplayFramesInPlace == ASSUME UiOnly PROVE Spec => DeliveriesInPlace
BY ContractKept, FramesInPlace, PTL DEF KeepsContract

\* The view model, the replay thread and the processor agree in every state: one
\* producer of frames, no work behind an idle window, and a slider whose range is
\* that of the selected list.
THEOREM ReplayConsistent == ASSUME UiOnly PROVE Spec => []ReplayInv
<1>1. IInv => TypeOK BY TypeParts DEF IInv
<1>2. IInv => NoTwoProducers
  BY DEF IInv, SourceInv, CallOK, NoTwoProducers, QuietSteps
<1>3. IInv => StoppedIsQuiet
  <2> SUFFICES ASSUME IInv, ~grabbing, \A t \in Controllers : At(t, "idle")
               PROVE  ~Active /\ ~processing
    BY DEF StoppedIsQuiet
  <2>1. control["ui"].at = "idle" BY Threads DEF At
  <2>2. ~running BY <2>1 DEF IInv, ViewInv, SlotInv
  <2> QED BY <2>1, <2>2 DEF IInv, SourceInv, WorkerOK, PanelInv, QuietInv
<1>4. IInv => SliderMatchesList
  <2> SUFFICES ASSUME IInv, ~busy PROVE frameCount \in {0, Len(files)}
    BY DEF SliderMatchesList
  <2>1. task.at = "ended" /\ \A i \in DOMAIN events : ~events[i].finish
    BY DEF IInv, ViewInv, TaskInv, FinishInv
  <2> QED BY <2>1 DEF IInv, PanelInv, ListInv
<1>5. IInv => ReplayInv BY <1>1, <1>2, <1>3, <1>4 DEF ReplayInv
<1> QED BY <1>5, Inductive, PTL

=============================================================================
