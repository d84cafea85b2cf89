---------------------- MODULE SessionAndNetwork_proofs ----------------------
(***************************************************************************)
(* Proofs about the two parts of the application that the user and the     *)
(* master's commands control.                                              *)
(*                                                                         *)
(* SessionControl, for every queue, every set of observations and every    *)
(* number of calls, events and frames: the storage backends run together   *)
(* or not at all, the master control has its session saved, and few        *)
(* results spill from one session into the next.                           *)
(*                                                                         *)
(* NetworkEndpoints, for every size of images and packets and every number *)
(* of edits, images and opens: the endpoints are bound as the user set     *)
(* them, an answer follows one command, and images arrive whole and in     *)
(* order.                                                                  *)
(***************************************************************************)
EXTENDS SessionControl, NetworkEndpoints, SequenceTheorems, WellFoundedInduction, TLAPS

\* The calls that take the backends as they find them
Quiet == {"idle", "grab", "start source", "stop source", "stop processor",
          "stop image", "configure"}

\* The types that the proofs about the backends need
Types == /\ saving \in BOOLEAN /\ step \in Steps /\ caller \in {"ui", "serial"}
         /\ event \in Events
         /\ naming \in Sessions \cup {NoSession}
         /\ image \in [running : BOOLEAN, session : Sessions \cup {NoSession}]
         /\ track \in [running : BOOLEAN, session : Sessions \cup {NoSession}, run : Nat]
         /\ uiSessions \in 0..MaxUiSessions
         /\ day \in 0..MaxDays
         /\ runs \in Nat

\* What the backends are, wherever the control thread stands inside a call
Backends ==
    /\ step \in Quiet => /\ saving = image.running
                         /\ saving = track.running
                         /\ saving => image.session = track.session
                         /\ saving => image.session # NoSession
    /\ step = "stop track" => ~image.running /\ saving = track.running
    /\ step = "start image" => ~saving /\ ~image.running
    /\ step = "start track" => ~saving /\ image.running
    /\ step \in {"start image", "start track"} => /\ ~track.running
                                                  /\ image.session = naming
                                                  /\ track.session = naming
    /\ step \in {"configure", "start image", "start track"} => naming # NoSession
    /\ (step \in {"stop image", "stop track"} /\ caller = "serial" /\ event.save)
         => naming # NoSession

BackendsInv == Types /\ Backends

LEMMA NamesAreNotEmpty == \A s \in Sessions : s # NoSession
  <1>1. ASSUME NEW s \in MasterSessions PROVE s # NoSession
    BY DEF MasterSessions, NoSession
  <1>2. ASSUME NEW s \in UiSessions PROVE s # NoSession
    BY DEF UiSessions, NoSession
  <1>3. QED
    BY <1>1, <1>2 DEF Sessions

LEMMA BackendsInit == Init => BackendsInv
  <1> SUFFICES ASSUME Init PROVE Types /\ Backends
    BY DEF BackendsInv
  <1>1. Types
    <2>1. uiSessions \in 0..MaxUiSessions /\ day \in 0..MaxDays /\ runs \in Nat
      BY SessionAssumption DEF Init, SessionAssumption
    <2>2. QED
      BY <2>1 DEF Init, Types, Steps
  <1>2. Backends
    BY DEF Init, Backends, Quiet
  <1>3. QED
    BY <1>1, <1>2

LEMMA TypesStep == Types /\ Backends /\ [Next]_vars => Types'
  <1> SUFFICES ASSUME Types, Backends, [Next]_vars PROVE Types'
    OBVIOUS
  <1>a. uiSessions \in 0..MaxUiSessions /\ runs \in Nat
    BY DEF Types
  <1>b. CheckBox => uiSessions' \in 0..MaxUiSessions /\ uiSessions + 1 \in 1..MaxUiSessions
    BY <1>a, SessionAssumption DEF SessionAssumption, CheckBox
  <1>c. runs + 1 \in Nat
    BY <1>a
  <1> USE DEF Types, Steps
  <1>1. CASE CheckBox
    <2>1. naming' = <<"ui", uiSessions + 1>>
      BY <1>1 DEF CheckBox
    <2>2. uiSessions' \in 0..MaxUiSessions /\ uiSessions + 1 \in 1..MaxUiSessions
      BY <1>1, <1>b
    <2>3. naming' \in Sessions
      BY <2>1, <2>2 DEF Sessions, UiSessions
    <2>4. QED
      BY <1>1, <2>2, <2>3 DEF CheckBox, storage
  <1>2. CASE ClearBox
    BY <1>2 DEF ClearBox, storage, clocks
  <1>3. CASE UiGrab
    BY <1>3 DEF UiGrab, storage, clocks
  <1>4. CASE Midnight
    BY <1>4, SessionAssumption DEF Midnight, control, storage
  <1>5. ASSUME NEW e \in Events, MasterControl(e) PROVE Types'
    <2>1. Asked(e) \in Sessions
      BY DEF Asked, Sessions, MasterSessions, Events
    <2>2. naming' \in Sessions \cup {NoSession}
      BY <1>5, <2>1 DEF MasterControl
    <2>3. QED
      BY <1>5, <2>2 DEF MasterControl, storage
  <1>6. CASE StopImage
    BY <1>6 DEF StopImage, clocks
  <1>7. CASE StopTrack
    BY <1>7 DEF StopTrack, AfterSave, clocks
  <1>8. CASE Configure
    BY <1>8 DEF Configure, AfterSave, clocks
  <1>9. CASE StartImage
    <2>1. image' \in [running : BOOLEAN, session : Sessions \cup {NoSession}]
      BY <1>9 DEF StartImage
    <2>2. QED
      BY <1>9, <2>1, <1>c DEF StartImage, clocks
  <1>10. CASE StartTrack
    BY <1>10 DEF StartTrack, AfterSave, clocks
  <1>11. CASE Grab \/ StartSource \/ StopSource \/ StopProcessor
    <2>1. CASE Grab
      BY <2>1 DEF Grab, storage, clocks
    <2>2. CASE StartSource
      BY <2>2 DEF StartSource, storage, clocks
    <2>3. CASE StopSource
      BY <2>3 DEF StopSource, storage, clocks
    <2>4. CASE StopProcessor
      BY <2>4 DEF StopProcessor, storage, clocks
    <2>5. QED
      BY <1>11, <2>1, <2>2, <2>3, <2>4
  <1>12. CASE Deliver \/ Submit \/ Take \/ Publish
    <2>1. CASE Deliver
      BY <2>1 DEF Deliver, storage, control, clocks
    <2>2. CASE Submit
      BY <2>2 DEF Submit, storage, control, clocks
    <2>3. CASE Take
      BY <2>3 DEF Take, storage, control, clocks
    <2>4. CASE Publish
      BY <2>4 DEF Publish, storage, control, clocks
    <2>5. QED
      BY <1>12, <2>1, <2>2, <2>3, <2>4
  <1>13. CASE UNCHANGED vars
    BY <1>13 DEF vars, storage, control, clocks
  <1>14. QED
    BY <1>1, <1>2, <1>3, <1>4, <1>5, <1>6, <1>7, <1>8, <1>9, <1>10, <1>11, <1>12, <1>13
    DEF Next, ControlStep

LEMMA BackendsStep == BackendsInv /\ [Next]_vars => Backends'
  <1> SUFFICES ASSUME Types, Backends, [Next]_vars PROVE Backends'
    BY DEF BackendsInv
  <1> USE DEF Backends, Quiet
  <1>1. CASE CheckBox
    <2>1. naming' # NoSession
      BY <1>1 DEF CheckBox, NoSession
    <2>2. QED
      BY <1>1, <2>1 DEF CheckBox, storage
  <1>2. CASE ClearBox
    BY <1>2 DEF ClearBox, storage
  <1>3. CASE UiGrab
    BY <1>3 DEF UiGrab, storage
  <1>4. CASE Midnight
    BY <1>4 DEF Midnight, control, storage
  <1>5. ASSUME NEW e \in Events, MasterControl(e) PROVE Backends'
    <2>1. Asked(e) # NoSession
      BY DEF Asked, NoSession
    <2>2. e.save /\ e.valid => naming' # NoSession
      BY <1>5, <2>1 DEF MasterControl
    <2>3. step' \in {"stop image", "configure", "grab"} /\ event' = e
      BY <1>5 DEF MasterControl
    <2>4. step' = "configure" => NeedsStart(e)
      BY <1>5 DEF MasterControl
    <2>5. step' = "stop image" /\ e.save => NeedsStart(e)
      BY <1>5 DEF MasterControl
    <2>6. QED
      BY <1>5, <2>2, <2>3, <2>4, <2>5 DEF MasterControl, storage, NeedsStart
  <1>6. CASE StopImage
    BY <1>6 DEF StopImage, Types
  <1>7. CASE StopTrack
    BY <1>7 DEF StopTrack, AfterSave, Types
  <1>8. CASE Configure
    BY <1>8 DEF Configure, AfterSave, Types
  <1>9. CASE StartImage
    BY <1>9 DEF StartImage, Types
  <1>10. CASE StartTrack
    BY <1>10 DEF StartTrack, AfterSave, Types
  <1>11. CASE Grab \/ StartSource \/ StopSource \/ StopProcessor
    <2>1. CASE Grab
      BY <2>1 DEF Grab, storage
    <2>2. CASE StartSource
      BY <2>2 DEF StartSource, storage
    <2>3. CASE StopSource
      BY <2>3 DEF StopSource, storage
    <2>4. CASE StopProcessor
      BY <2>4 DEF StopProcessor, storage
    <2>5. QED
      BY <1>11, <2>1, <2>2, <2>3, <2>4
  <1>12. CASE Deliver \/ Submit \/ Take \/ Publish
    <2>1. CASE Deliver
      BY <2>1 DEF Deliver, storage, control
    <2>2. CASE Submit
      BY <2>2 DEF Submit, storage, control
    <2>3. CASE Take
      BY <2>3 DEF Take, storage, control
    <2>4. CASE Publish
      BY <2>4 DEF Publish, storage, control
    <2>5. QED
      BY <1>12, <2>1, <2>2, <2>3, <2>4
  <1>13. CASE UNCHANGED vars
    BY <1>13 DEF vars, storage, control
  <1>14. QED
    BY <1>1, <1>2, <1>3, <1>4, <1>5, <1>6, <1>7, <1>8, <1>9, <1>10, <1>11, <1>12, <1>13
    DEF Next, ControlStep

LEMMA BackendsInvariant == Spec => []BackendsInv
  <1>1. Init => BackendsInv
    BY BackendsInit
  <1>2. BackendsInv /\ [Next]_vars => BackendsInv'
    BY TypesStep, BackendsStep DEF BackendsInv
  <1>3. QED
    BY <1>1, <1>2, PTL DEF Spec

LEMMA BothBackends == Spec => []BothOrNeither
  <1>1. BackendsInv => BothOrNeither
    BY DEF BackendsInv, Types, Backends, BothOrNeither, Quiet
  <1>2. QED
    BY <1>1, BackendsInvariant, PTL

-----------------------------------------------------------------------------
(* The master control                                                       *)

\* Whose session a call configures, and whose session is being saved
MasterInv ==
    /\ (step \in {"configure", "start image", "start track"} /\ caller = "serial")
         => ~saving /\ event.save
    /\ (step \in {"configure", "start image", "start track"} /\ caller = "ui")
         => naming \in UiSessions
    /\ saving => image.session \in {activeId} \cup UiSessions
    /\ (caller = "serial" /\ step \notin {"stop image", "stop track"})
         => /\ saving => event.save
            /\ (saving /\ event.valid) => image.session \in {naming} \cup UiSessions

LEMMA MasterStep == BackendsInv /\ MasterInv /\ [Next]_vars => MasterInv'
  <1> SUFFICES ASSUME Types, Backends, MasterInv, [Next]_vars PROVE MasterInv'
    BY DEF BackendsInv
  <1>a. uiSessions \in 0..MaxUiSessions
    BY DEF Types
  <1>b. CheckBox => uiSessions + 1 \in 1..MaxUiSessions
    BY <1>a, SessionAssumption DEF SessionAssumption, CheckBox
  <1>c. caller \in {"ui", "serial"} /\ step \in Steps
    BY DEF Types
  <1> USE DEF MasterInv
  <1>1. CASE CheckBox
    <2>1. naming' \in UiSessions
      BY <1>1, <1>b DEF CheckBox, UiSessions
    <2>2. UNCHANGED <<saving, activeId, image>> /\ caller' = "ui"
      BY <1>1 DEF CheckBox, storage
    <2>3. QED
      BY <2>1, <2>2
  <1>2. CASE ClearBox
    BY <1>2 DEF ClearBox, storage
  <1>3. CASE UiGrab
    BY <1>3 DEF UiGrab, storage
  <1>4. CASE Midnight
    BY <1>4 DEF Midnight, control, storage
  <1>5. ASSUME NEW e \in Events, MasterControl(e) PROVE MasterInv'
    <2>1. /\ event' = e /\ caller' = "serial" /\ UNCHANGED <<saving, activeId, image>>
          /\ step' \in {"stop image", "configure", "grab"}
      BY <1>5 DEF MasterControl, storage
    <2>2. step' = "configure" => ~saving /\ e.save
      BY <1>5 DEF MasterControl, NeedsStart
    <2>3. step' = "grab" /\ saving => e.save /\ (e.valid => Asked(e) = activeId)
      BY <1>5 DEF MasterControl, NeedsStart
    <2>4. e.save /\ e.valid => naming' = Asked(e)
      BY <1>5 DEF MasterControl
    <2>5. QED
      BY <2>1, <2>2, <2>3, <2>4
  <1>6. CASE StopImage
    <2>1. image'.session = image.session
      BY <1>6 DEF StopImage, Types
    <2>2. QED
      BY <1>6, <2>1 DEF StopImage
  <1>7. CASE StopTrack
    BY <1>7 DEF StopTrack, AfterSave
  <1>8. CASE Configure
    <2>1. UNCHANGED <<saving, activeId, caller, event, naming>> /\ step = "configure"
      BY <1>8 DEF Configure
    <2>2. step' \in {"grab", "idle", "start image"}
      BY <1>8 DEF Configure, AfterSave
    <2>3. saving => image' = image
      BY <1>8 DEF Configure, Backends, Quiet
    <2>4. QED
      BY <2>1, <2>2, <2>3
  <1>9. CASE StartImage
    <2>1. image'.session = image.session
      BY <1>9 DEF StartImage, Types
    <2>2. QED
      BY <1>9, <2>1 DEF StartImage
  <1>10. CASE StartTrack
    <2>1. image' = image /\ image.session = naming /\ naming' = naming
      BY <1>10 DEF StartTrack, Backends
    <2>2. QED
      BY <1>10, <1>c, <2>1 DEF StartTrack, AfterSave
  <1>11. CASE Grab \/ StartSource \/ StopSource \/ StopProcessor
    <2>1. /\ UNCHANGED <<saving, activeId, caller, event, naming, image>>
          /\ step \in {"grab", "start source", "stop source", "stop processor"}
          /\ step' \in {"idle", "start source", "stop source", "stop processor"}
      BY <1>11 DEF Grab, StartSource, StopSource, StopProcessor, storage
    <2>2. QED
      BY <2>1
  <1>12. CASE Deliver \/ Submit \/ Take \/ Publish
    <2>1. UNCHANGED <<saving, activeId, caller, event, naming, image, step>>
      BY <1>12 DEF Deliver, Submit, Take, Publish, storage, control
    <2>2. QED
      BY <2>1
  <1>13. CASE UNCHANGED vars
    BY <1>13 DEF vars, storage, control
  <1>14. QED
    BY <1>1, <1>2, <1>3, <1>4, <1>5, <1>6, <1>7, <1>8, <1>9, <1>10, <1>11, <1>12, <1>13
    DEF Next, ControlStep

\* An event of the master control leaves the session it asks for being saved,
\* or nothing, or a session begun with the Save box (MasterObeyed).
THEOREM MasterIsObeyed == Spec => []MasterObeyed
  <1>1. Init => MasterInv
    BY DEF Init, MasterInv
  <1>2. BackendsInv /\ MasterInv /\ [Next]_vars => MasterInv'
    BY MasterStep
  <1>3. MasterInv => MasterObeyed
    BY DEF MasterInv, MasterObeyed
  <1>4. QED
    BY <1>1, <1>2, <1>3, BackendsInvariant, PTL DEF Spec

-----------------------------------------------------------------------------
(* The frames of an earlier run                                             *)

\* The callback, the channel and the processing thread, and the track run
PipeTypes ==
    /\ delivering \in Seq(Nat) /\ Len(delivering) \in 0..1
    /\ queue \in Seq(Nat) /\ Len(queue) \in 0..Capacity
    /\ processing \in Seq(Nat) /\ Len(processing) \in 0..1
    /\ spilled \in 0..(Capacity + 2)
    /\ (image.running /\ track.running) => track.run = runs

\* The result of frame f would be stored with the images of another run.
Foreign(f) == track.running /\ f \notin {0, track.run}

\* Counted from the processing thread, the foreign frames are among those that
\* were on their way when the run began, less those already stored.
SpillInv ==
    /\ PipeTypes
    /\ (processing # <<>> /\ Foreign(processing[1])) => 1 <= Capacity + 2 - spilled
    /\ \A i \in 1..Len(queue) :
         Foreign(queue[i]) => Len(processing) + i <= Capacity + 2 - spilled
    /\ (delivering # <<>> /\ Foreign(delivering[1]))
         => Len(processing) + Len(queue) + 1 <= Capacity + 2 - spilled

\* There is room for every frame on its way ...
LEMMA RoomForAll ==
    ASSUME NEW c \in Nat, NEW p \in 0..1, NEW n \in 0..c, NEW s, s = 0
    PROVE  /\ 1 <= c + 2 - s
           /\ \A i \in 1..n : p + i <= c + 2 - s
           /\ p + n + 1 <= c + 2 - s
  OBVIOUS

\* ... and when one is stored the others have moved up.
LEMMA OneLess ==
    ASSUME NEW c \in Nat, NEW i \in Nat, NEW s \in Nat, NEW t \in Nat,
           1 + i <= c + 2 - s, t <= s + 1
    PROVE  0 + i <= c + 2 - t
  OBVIOUS

LEMMA SpillStep == BackendsInv /\ SpillInv /\ [Next]_vars => SpillInv'
  <1> SUFFICES ASSUME Types, Backends, SpillInv, [Next]_vars PROVE SpillInv'
    BY DEF BackendsInv
  <1>a. Capacity \in Nat
    BY SessionAssumption DEF SessionAssumption
  <1>b. track.run \in Nat /\ track.running \in BOOLEAN /\ runs \in Nat
    BY DEF Types
  \* A step that leaves the frames alone and starts neither backend
  <1>c. ASSUME UNCHANGED <<delivering, queue, processing, spilled>>,
               track'.running => track.running,
               track'.run = track.run,
               image'.running /\ track'.running => image.running /\ runs' = runs
        PROVE  SpillInv'
    BY <1>c DEF SpillInv, PipeTypes, Foreign
  <1>1. CASE CheckBox \/ ClearBox \/ UiGrab \/ Midnight
    <2>1. UNCHANGED <<storage, flow>>
      BY <1>1 DEF CheckBox, ClearBox, UiGrab, Midnight
    <2>2. QED
      BY <1>c, <2>1 DEF storage, flow
  <1>2. ASSUME NEW e \in Events, MasterControl(e) PROVE SpillInv'
    <2>1. UNCHANGED <<storage, flow>>
      BY <1>2 DEF MasterControl
    <2>2. QED
      BY <1>c, <2>1 DEF storage, flow
  <1>3. CASE StopImage
    <2>1. image'.running = FALSE
      BY <1>3 DEF StopImage, Types
    <2>2. QED
      BY <1>3, <1>c, <2>1 DEF StopImage, flow
  <1>4. CASE StopTrack
    <2>1. track'.running = FALSE /\ track'.run = track.run
      BY <1>4 DEF StopTrack, Types
    <2>2. QED
      BY <1>4, <1>c, <2>1 DEF StopTrack, flow
  <1>5. CASE Configure
    <2>1. /\ track'.running = track.running /\ track'.run = track.run
          /\ image'.running = image.running /\ runs' = runs
      BY <1>5 DEF Configure, Types
    <2>2. UNCHANGED <<delivering, queue, processing, spilled>>
      BY <1>5 DEF Configure, flow
    <2>3. QED
      BY <1>c, <2>1, <2>2
  <1>6. CASE StartImage
    <2>1. ~track.running /\ track' = track
      BY <1>6 DEF StartImage, Backends
    <2>2. QED
      BY <1>6, <1>c, <2>1 DEF StartImage, flow
  <1>7. CASE StartTrack
    <2>1. track'.run = runs /\ runs' = runs
      BY <1>7 DEF StartTrack, Types
    <2>2. UNCHANGED <<delivering, queue, processing>> /\ spilled' = 0
      BY <1>7 DEF StartTrack
    <2>3. PipeTypes'
      BY <1>a, <2>1, <2>2 DEF SpillInv, PipeTypes
    <2>4. Len(processing) \in 0..1 /\ Len(queue) \in 0..Capacity
      BY DEF SpillInv, PipeTypes
    <2>5. /\ 1 <= Capacity + 2 - spilled'
          /\ \A i \in 1..Len(queue') : Len(processing') + i <= Capacity + 2 - spilled'
          /\ Len(processing') + Len(queue') + 1 <= Capacity + 2 - spilled'
      BY <1>a, <2>2, <2>4, RoomForAll
    <2>6. QED
      BY <2>2, <2>3, <2>5 DEF SpillInv
  <1>8. CASE Grab \/ StartSource \/ StopSource \/ StopProcessor
    <2>1. UNCHANGED <<storage, flow>>
      BY <1>8 DEF Grab, StartSource, StopSource, StopProcessor
    <2>2. QED
      BY <1>c, <2>1 DEF storage, flow
  <1>9. CASE Deliver
    <2>1. /\ UNCHANGED <<image, track, runs, queue, processing, spilled>>
          /\ delivering' = <<ImageRun>> /\ delivering = <<>>
      BY <1>9 DEF Deliver, storage
    <2>2. ImageRun \in Nat /\ ~Foreign(ImageRun)
      BY <1>b DEF ImageRun, Foreign, SpillInv, PipeTypes
    <2>3. /\ delivering' \in Seq(Nat) /\ Len(delivering') = 1
          /\ ~Foreign(delivering[1])'
      BY <2>1, <2>2 DEF Foreign
    <2>4. QED
      BY <2>1, <2>3 DEF SpillInv, PipeTypes, Foreign
  <1>10. CASE Submit
    <2>1. /\ UNCHANGED <<image, track, runs, processing, spilled>>
          /\ delivering # <<>> /\ delivering' = <<>>
          /\ queue' = IF Len(queue) < Capacity THEN queue \o delivering ELSE queue
      BY <1>10 DEF Submit, storage
    <2>2. Len(delivering) = 1
      BY <2>1 DEF SpillInv, PipeTypes
    <2>3. CASE Len(queue) < Capacity
      <3>1. /\ queue' \in Seq(Nat) /\ Len(queue') = Len(queue) + 1
            /\ \A i \in 1..Len(queue) : queue'[i] = queue[i]
            /\ queue'[Len(queue) + 1] = delivering[1]
        <4>1. queue \in Seq(Nat) /\ delivering \in Seq(Nat) /\ queue' = queue \o delivering
          BY <2>1, <2>3 DEF SpillInv, PipeTypes
        <4>2. Len(queue) \in Nat
          BY <4>1, LenProperties
        <4>3. /\ queue' \in Seq(Nat) /\ Len(queue') = Len(queue) + Len(delivering)
              /\ \A i \in 1..(Len(queue) + Len(delivering)) :
                   queue'[i] = IF i <= Len(queue) THEN queue[i] ELSE delivering[i - Len(queue)]
          BY <4>1, ConcatProperties
        <4>4. QED
          BY <2>2, <4>2, <4>3
      <3>2. PipeTypes'
        BY <1>a, <2>1, <2>3, <3>1 DEF SpillInv, PipeTypes
      <3>3. ASSUME NEW i \in 1..Len(queue'), Foreign(queue'[i])
            PROVE  Len(processing) + i <= Capacity + 2 - spilled
        <4>1. CASE i \in 1..Len(queue)
          BY <3>1, <3>3, <4>1 DEF SpillInv
        <4>2. CASE i = Len(queue) + 1
          BY <2>1, <3>1, <3>3, <4>2 DEF SpillInv, PipeTypes
        <4>3. i \in 1..Len(queue) \/ i = Len(queue) + 1
          BY <3>1 DEF SpillInv, PipeTypes
        <4>4. QED
          BY <4>1, <4>2, <4>3
      <3>4. QED
        BY <2>1, <3>2, <3>3 DEF SpillInv, Foreign
    <2>4. CASE ~(Len(queue) < Capacity)
      BY <2>1, <2>4 DEF SpillInv, PipeTypes, Foreign
    <2>5. QED
      BY <2>3, <2>4
  <1>11. CASE Take
    <2>1. /\ UNCHANGED <<image, track, runs, delivering, spilled>>
          /\ processing = <<>> /\ queue # <<>>
          /\ processing' = <<Head(queue)>> /\ queue' = Tail(queue)
      BY <1>11 DEF Take, storage
    <2>2. /\ processing' \in Seq(Nat) /\ Len(processing') = 1 /\ processing'[1] = queue[1]
          /\ queue' \in Seq(Nat) /\ Len(queue') = Len(queue) - 1
          /\ \A i \in 1..Len(queue') : queue'[i] = queue[i + 1]
          /\ Len(queue) >= 1 /\ Len(processing) = 0
      BY <2>1 DEF SpillInv, PipeTypes
    <2>3. PipeTypes'
      BY <1>a, <2>1, <2>2 DEF SpillInv, PipeTypes
    <2>4. Foreign(queue[1]) => 1 <= Capacity + 2 - spilled
      BY <2>2 DEF SpillInv, PipeTypes
    <2>5. ASSUME NEW i \in 1..Len(queue'), Foreign(queue'[i])
          PROVE  1 + i <= Capacity + 2 - spilled
      <3>1. i + 1 \in 1..Len(queue) /\ Foreign(queue[i + 1])
        BY <2>2, <2>5 DEF SpillInv, PipeTypes
      <3>2. Len(processing) + (i + 1) <= Capacity + 2 - spilled
        BY <3>1 DEF SpillInv
      <3>3. QED
        BY <2>2, <3>2
    <2>6. (delivering # <<>> /\ Foreign(delivering[1]))
            => 1 + Len(queue') + 1 <= Capacity + 2 - spilled
      BY <2>2 DEF SpillInv, PipeTypes
    <2>7. QED
      BY <2>1, <2>2, <2>3, <2>4, <2>5, <2>6 DEF SpillInv, Foreign
  <1>12. CASE Publish
    <2>1. /\ UNCHANGED <<image, track, runs, delivering, queue>>
          /\ processing # <<>> /\ processing' = <<>>
          /\ spilled' = IF Foreign(processing[1]) THEN spilled + 1 ELSE spilled
      BY <1>12 DEF Publish, storage, Foreign
    <2>2. Len(processing) = 1 /\ Len(processing') = 0 /\ processing' \in Seq(Nat)
      BY <2>1 DEF SpillInv, PipeTypes
    <2>3. /\ spilled' \in 0..(Capacity + 2)
          /\ spilled' <= spilled + 1
      BY <1>a, <2>1 DEF SpillInv, PipeTypes
    <2>4. PipeTypes'
      BY <2>1, <2>2, <2>3 DEF SpillInv, PipeTypes
    <2>5. ASSUME NEW i \in 1..Len(queue), Foreign(queue[i])
          PROVE  0 + i <= Capacity + 2 - spilled'
      <3>1. Len(processing) + i <= Capacity + 2 - spilled
        BY <2>5 DEF SpillInv
      <3>2. spilled \in Nat /\ Len(queue) \in Nat
        BY <1>a DEF SpillInv, PipeTypes
      <3>3. spilled' \in Nat
        BY <1>a, <2>3
      <3>4. 1 + i <= Capacity + 2 - spilled /\ spilled' <= spilled + 1
        BY <2>2, <2>3, <3>1
      <3>5. i \in Nat
        BY <3>2
      <3>6. QED
        BY <1>a, <3>2, <3>3, <3>4, <3>5, OneLess
    <2>6. (delivering # <<>> /\ Foreign(delivering[1]))
            => 0 + Len(queue) + 1 <= Capacity + 2 - spilled'
      BY <1>a, <2>2, <2>3 DEF SpillInv, PipeTypes
    <2>7. QED
      BY <2>1, <2>2, <2>4, <2>5, <2>6 DEF SpillInv, Foreign
  <1>13. CASE UNCHANGED vars
    BY <1>13, <1>c DEF vars, storage, flow
  <1>14. QED
    BY <1>1, <1>2, <1>3, <1>4, <1>5, <1>6, <1>7, <1>8, <1>9, <1>10, <1>11, <1>12, <1>13
    DEF Next, ControlStep

\* Nothing clears the channel between two runs, and still no more results spill
\* into a run than fit between the source and the tracker (SpillBounded).
THEOREM FewResultsSpill == Spec => []SpillBounded
  <1>1. Init => SpillInv
    BY SessionAssumption DEF SessionAssumption, Init, SpillInv, PipeTypes
  <1>2. BackendsInv /\ SpillInv /\ [Next]_vars => SpillInv'
    BY SpillStep
  <1>3. SpillInv => SpillBounded
    BY SessionAssumption DEF SessionAssumption, SpillInv, PipeTypes, SpillBounded
  <1>4. QED
    BY <1>1, <1>2, <1>3, BackendsInvariant, PTL DEF Spec

-----------------------------------------------------------------------------
(* The rest of the types                                                    *)

LEMMA AtMost == ASSUME NEW c \in Nat, NEW n \in 0..c PROVE n <= c
  OBVIOUS

\* A session that the master control asks for has its name.
RestTypes ==
    /\ {checked, source, processor} \subseteq BOOLEAN
    /\ activeId \in MasterSessions \cup {NoSession}
    /\ caller = "serial" => naming \in MasterSessions \cup {NoSession}
    /\ events \in 0..MaxEvents /\ frames \in 0..MaxFrames

LEMMA RestStep == Types /\ RestTypes /\ [Next]_vars => RestTypes'
  <1> SUFFICES ASSUME Types, RestTypes, [Next]_vars PROVE RestTypes'
    OBVIOUS
  <1>a. /\ MaxEvents \in Nat /\ events \in 0..MaxEvents
        /\ MaxFrames \in Nat /\ frames \in 0..MaxFrames
    BY SessionAssumption DEF SessionAssumption, RestTypes
  <1>b. events < MaxEvents => events + 1 \in 0..MaxEvents
    BY <1>a
  <1>c. frames < MaxFrames => frames + 1 \in 0..MaxFrames
    BY <1>a
  <1> USE DEF RestTypes, storage, flow, clocks, control
  <1>1. CASE CheckBox \/ ClearBox \/ UiGrab \/ Midnight
    BY <1>1 DEF CheckBox, ClearBox, UiGrab, Midnight
  <1>2. ASSUME NEW e \in Events, MasterControl(e) PROVE RestTypes'
    <2>1. Asked(e) \in MasterSessions
      BY DEF Asked, MasterSessions, Events, Types
    <2>2. events' \in 0..MaxEvents
      BY <1>2, <1>b DEF MasterControl
    <2>3. QED
      BY <1>2, <2>1, <2>2 DEF MasterControl
  <1>3. CASE StopImage \/ StopTrack \/ Configure \/ StartImage \/ StartTrack
    BY <1>3 DEF StopImage, StopTrack, Configure, StartImage, StartTrack
  <1>4. CASE Grab \/ StartSource \/ StopSource \/ StopProcessor
    BY <1>4 DEF Grab, StartSource, StopSource, StopProcessor
  <1>5. CASE Deliver
    <2>1. frames' \in 0..MaxFrames
      BY <1>5, <1>c DEF Deliver
    <2>2. QED
      BY <1>5, <2>1 DEF Deliver
  <1>8. CASE Submit \/ Take \/ Publish
    BY <1>8 DEF Submit, Take, Publish
  <1>6. CASE UNCHANGED vars
    BY <1>6 DEF vars
  <1>7. QED
    BY <1>1, <1>2, <1>3, <1>4, <1>5, <1>6, <1>8 DEF Next, ControlStep

\* Whatever a backend refuses or a file system denies, half a storage service is
\* never left behind by startSaving() and stopSaving(), and both write the session
\* that the window shows.
THEOREM SavingIsWhole == Spec => []SavingInv
  <1>1. Init => RestTypes
    <2> SUFFICES ASSUME Init PROVE RestTypes
      OBVIOUS
    <2>1. 0 \in 0..MaxEvents /\ 0 \in 0..MaxFrames
      BY SessionAssumption DEF SessionAssumption
    <2>2. QED
      BY <2>1 DEF Init, RestTypes
  <1>2. Init => SpillInv
    BY SessionAssumption DEF SessionAssumption, Init, SpillInv, PipeTypes
  <1>3. BackendsInv /\ SpillInv /\ RestTypes => TypeOK
    <2> SUFFICES ASSUME Types, PipeTypes, RestTypes PROVE TypeOK
      BY DEF BackendsInv, SpillInv
    <2>a. Capacity \in Nat
      BY SessionAssumption DEF SessionAssumption
    <2>b. /\ Len(delivering) \in 0..1 /\ Len(processing) \in 0..1
          /\ Len(queue) \in 0..Capacity
      BY DEF PipeTypes
    <2>1. Len(delivering) <= 1 /\ Len(processing) <= 1 /\ Len(queue) <= Capacity
      BY <2>a, <2>b, AtMost
    <2>2. spilled \in Nat
      BY <2>a DEF PipeTypes
    <2>3. QED
      BY <2>1, <2>2 DEF Types, PipeTypes, RestTypes, TypeOK
  <1>4. BackendsInv /\ RestTypes /\ [Next]_vars => RestTypes'
    BY RestStep DEF BackendsInv
  <1>5. TypeOK /\ BothOrNeither => SavingInv
    BY DEF SavingInv
  <1>6. QED
    BY <1>1, <1>2, <1>3, <1>4, <1>5, SpillStep, BackendsInvariant, BothBackends, PTL DEF Spec

-----------------------------------------------------------------------------
(* NetworkEndpoints: the endpoints and the UI thread                        *)

\* What the user has edited and what is bound
Endpoints ==
    /\ ui # "bind gdcl" /\ ui # "close gdcl" =>
          \A c \in Exchange : (open <=> bound[c] # NotBound) /\ bound[c] \in {NotBound, wanted[c]}
    /\ ui = "bind gdcl" => /\ ~open /\ bound["gxtc"] = wanted["gxtc"]
                           /\ bound["gdcl"] = NotBound
    /\ ui = "close gdcl" => bound["gxtc"] = NotBound
    /\ ui # "join" => bound["image"] \in {NotBound, wanted["image"]}

\* The image worker exists as long as its socket is bound.
Worker ==
    /\ worker = "none" <=> bound["image"] = NotBound
    /\ ui = "join" => worker # "none" /\ stopRequested
    /\ (worker # "none" /\ stopRequested) => ui = "join"
    /\ worker = "finished" => stopRequested

\* The types of what the endpoints keep
EndpointTypes ==
    /\ wanted \in [Channels -> Addresses]
    /\ bound \in [Channels -> Addresses \cup {NotBound}]
    /\ ui \in {"idle", "bind gdcl", "close gdcl", "join"}
    /\ open \in BOOLEAN /\ closed \in BOOLEAN /\ stopRequested \in BOOLEAN
    /\ worker \in {"none", "wait", "send", "finished"}

\* The inductive invariant of the endpoints
EndpointsStay == EndpointTypes /\ Endpoints /\ Worker

\* An edit that the bound allows gives an address.
LEMMA EditAddresses ==
  /\ NotBound \notin Addresses /\ 0 \in Addresses
  /\ \A a \in Addresses : a < MaxEdits => a + 1 \in Addresses
  BY NetworkAssumption DEF NotBound, Addresses

\* At first nothing is bound.
LEMMA EndpointsInit == NetworkInit => EndpointsStay
<1> SUFFICES ASSUME NetworkInit PROVE EndpointsStay OBVIOUS
<1>1. 0 \in Addresses BY NetworkAssumption DEF Addresses
<1>2. NotBound \notin Addresses BY NetworkAssumption DEF NotBound, Addresses
<1> QED BY <1>1 DEF NetworkInit, EndpointsStay, EndpointTypes, Endpoints, Worker, Exchange, Channels

\* No step unbinds half of the exchange, or the socket of a running worker.
LEMMA EndpointsNext == EndpointsStay /\ [NetworkNext]_networkVars => EndpointsStay'
<1> SUFFICES ASSUME EndpointsStay, [NetworkNext]_networkVars PROVE EndpointsStay' OBVIOUS
<1> USE DEF EndpointsStay, EndpointTypes, Endpoints, Worker, Exchange, Channels
<1>0. NotBound \notin Addresses BY EditAddresses
<1>1. ASSUME NEW cs \in SUBSET Channels, Edited(cs)
      PROVE  /\ wanted' \in [Channels -> Addresses]
             /\ \A c \in Channels : c \notin cs => wanted'[c] = wanted[c]
  <2>1. wanted' = [c \in Channels |-> IF c \in cs THEN wanted[c] + 1 ELSE wanted[c]]
        /\ \A c \in cs : wanted[c] < MaxEdits
    BY <1>1 DEF Edited
  <2> QED BY <2>1, EditAddresses
<1>2. CASE OpenExchange BY <1>0, <1>2 DEF OpenExchange, exchange, bridge, mailbox, sender, sending
<1>3. CASE CloseExchange
  BY <1>0, <1>3 DEF CloseExchange, CloseGxtc, exchange, bridge, mailbox, sender, sending
<1>4. CASE OpenSender BY <1>0, <1>4 DEF OpenSender, exchange, bridge, mailbox, sender, sending
<1>5. CASE CloseSender
  BY <1>0, <1>5 DEF CloseSender, StopSender, exchange, bridge, mailbox, sender, sending
<1>6. CASE EditSender
  <2>0. "image" \notin Exchange /\ {"image"} \in SUBSET Channels OBVIOUS
  <2>1. wanted' \in [Channels -> Addresses] /\ \A c \in Exchange : wanted'[c] = wanted[c]
    BY <1>1, <1>6, <2>0 DEF EditSender
  <2> QED BY <1>0, <1>6, <2>1 DEF EditSender, StopSender, exchange, bridge, mailbox, sender, sending
<1>7. CASE BindGdcl
  <2>1. /\ ui = "bind gdcl" /\ ui' = "idle"
        /\ UNCHANGED <<wanted, closed, worker, stopRequested>>
    BY <1>7 DEF BindGdcl, sender
  <2>2. CASE bound' = [bound EXCEPT !["gxtc"] = NotBound] /\ UNCHANGED open
    BY <1>0, <2>1, <2>2
  <2>3. CASE bound' = [bound EXCEPT !["gdcl"] = wanted["gdcl"]] /\ open' = TRUE
    <3>1. wanted["gdcl"] \in Addresses /\ wanted["gdcl"] # NotBound BY <1>0
    <3>2. bound'["gxtc"] = wanted'["gxtc"] /\ bound'["gdcl"] = wanted'["gdcl"]
      BY <2>1, <2>3
    <3>3. wanted'["gxtc"] # NotBound /\ wanted'["gdcl"] # NotBound BY <1>0, <2>1
    <3>4. bound' \in [Channels -> Addresses \cup {NotBound}] /\ bound'["image"] = bound["image"]
      BY <2>3, <3>1
    <3>5. \A c \in Exchange : bound'[c] = wanted'[c] /\ bound'[c] # NotBound BY <3>2, <3>3
    <3> QED BY <2>1, <2>3, <3>4, <3>5
  <2> QED BY <1>7, <2>2, <2>3 DEF BindGdcl
<1>8. CASE CloseGdcl BY <1>0, <1>8 DEF CloseGdcl, exchange, bridge, mailbox, sender, sending
<1>9. CASE JoinSender BY <1>0, <1>9 DEF JoinSender, exchange, bridge, mailbox, sender, sending
<1>10. ASSUME NEW cs \in {{"gxtc"}, {"gdcl"}, Exchange}, EditExchange(cs) PROVE EndpointsStay'
  <2>1. wanted' \in [Channels -> Addresses] /\ wanted'["image"] = wanted["image"]
    BY <1>1, <1>10 DEF EditExchange
  <2>2. CASE IsOpen
    BY <1>0, <1>10, <2>1, <2>2 DEF EditExchange, CloseGxtc, exchange, bridge, mailbox, sender,
                                   sending
  <2>3. CASE ~IsOpen
    <3>1. \A c \in Exchange : ~open /\ bound[c] = NotBound BY <1>10, <2>3 DEF IsOpen, EditExchange
    <3> QED
      BY <1>0, <1>10, <2>1, <2>3, <3>1 DEF EditExchange, exchange, bridge, mailbox, sender, sending
  <2> QED BY <2>2, <2>3
<1>12. CASE WorkerStops BY <1>12 DEF WorkerStops, exchange, bridge, mailbox, sender, sending
<1>13. CASE WorkerTakes BY <1>13 DEF WorkerTakes, exchange, bridge, mailbox, sender, sending
<1>14. CASE WorkerSends BY <1>14 DEF WorkerSends, exchange, bridge, mailbox, sender, sending
<1>15. CASE UNCHANGED <<wanted, bound, ui, exchange, sender>>
  BY <1>15 DEF exchange, sender
<1>11. CASE \E size \in Sizes : SendImage(size) BY <1>11, <1>15 DEF SendImage
<1>16. CASE \E m \in Masters \ {NoMaster} : MasterCommand(m) BY <1>15, <1>16 DEF MasterCommand
<1>17. CASE \E ts \in SUBSET TargetNumbers \ {{}} : ResultArrives(ts)
  BY <1>15, <1>17 DEF ResultArrives
<1>18. CASE AskGxtc \/ SendGxtc \/ AskGdcl \/ SendGdcl
  BY <1>15, <1>18 DEF AskGxtc, SendGxtc, AskGdcl, SendGdcl, BridgeFrame
<1>19. CASE UNCHANGED networkVars BY <1>15, <1>19 DEF networkVars
<1> QED BY <1>2, <1>3, <1>4, <1>5, <1>6, <1>7, <1>8, <1>9, <1>10, <1>11, <1>12, <1>13, <1>14,
           <1>16, <1>17, <1>18, <1>19 DEF NetworkNext, UiStep, WorkerStep

-----------------------------------------------------------------------------
(* NetworkEndpoints: the bridge                                             *)

\* Whatever the bridge has sent for a result follows its copy of the master state.
Answers ==
    /\ \A m \in messages : /\ m.kind \in Exchange
                           /\ m.measure = Measure(snapshot) /\ m.target = snapshot.target
                           /\ m.kind = "gdcl" => snapshot.target \in result
    /\ stage = "send gdcl" => snapshot.target \in result

\* The exchange is bound while the bridge believes so, or it has been closed.
Alarms ==
    /\ (stage \in {"send gxtc", "send gdcl"}) => IsOpen \/ closed
    /\ ui = "close gdcl" => closed
    /\ alarm => closed

BridgeTypes ==
    /\ master \in Masters /\ snapshot \in Masters /\ result \subseteq TargetNumbers
    /\ stage \in {"idle", "ask gxtc", "send gxtc", "ask gdcl", "send gdcl"}
    /\ messages \subseteq [kind : Exchange, measure : 0..2, target : TargetNumbers \cup {0}]
    /\ alarm \in BOOLEAN

\* The inductive invariant of the bridge
BridgeStays == BridgeTypes /\ Answers /\ Alarms

\* A message built from a command has the type of a message.
LEMMA MessageOfMaster ==
  ASSUME NEW m \in Masters, NEW c \in Exchange
  PROVE  [kind |-> c, measure |-> Measure(m), target |-> m.target]
            \in [kind : Exchange, measure : 0..2, target : TargetNumbers \cup {0}]
<1>1. m.target \in TargetNumbers \cup {0}
  <2>1. CASE m = NoMaster BY <2>1 DEF NoMaster
  <2>2. CASE m \in [received : {TRUE}, track : BOOLEAN, target : TargetNumbers \cup {0}]
    BY <2>2
  <2> QED BY <2>1, <2>2 DEF Masters
<1>2. Measure(m) \in 0..2 BY DEF Measure
<1> QED BY <1>1, <1>2

\* At first nothing was sent.
LEMMA BridgeInit == NetworkInit => BridgeStays
<1> SUFFICES ASSUME NetworkInit PROVE BridgeStays OBVIOUS
<1>1. BridgeTypes BY DEF NetworkInit, BridgeTypes, Masters
<1>2. Answers BY DEF NetworkInit, Answers
<1>3. Alarms BY DEF NetworkInit, Alarms
<1> QED BY <1>1, <1>2, <1>3 DEF BridgeStays

\* sendPacket() adds a message on the copy, or raises the error event.
LEMMA SendAnswers ==
  ASSUME BridgeStays, NEW c \in Exchange, Send(c, snapshot), stage' \in {"idle", "ask gdcl"},
         UNCHANGED <<bound, ui, closed, master, snapshot, result>>,
         IsOpen \/ closed, c = "gdcl" => snapshot.target \in result
  PROVE  BridgeStays'
<1> DEFINE m == [kind |-> c, measure |-> Measure(snapshot), target |-> snapshot.target]
<1>1. messages' \subseteq messages \cup {m} BY DEF Send
<1>2. m \in [kind : Exchange, measure : 0..2, target : TargetNumbers \cup {0}]
  BY MessageOfMaster DEF BridgeStays, BridgeTypes
<1>3. m.kind = c /\ m.measure = Measure(snapshot) /\ m.target = snapshot.target OBVIOUS
<1> HIDE DEF m
<1>4. alarm' => closed
  <2>1. CASE bound[c] # NotBound BY <2>1 DEF Send, BridgeStays, Alarms
  <2>2. CASE bound[c] = NotBound BY <2>2 DEF IsOpen
  <2> QED BY <2>1, <2>2
<1>5. alarm' \in BOOLEAN
  <2>1. alarm' = alarm \/ alarm' = TRUE BY DEF Send
  <2> QED BY <2>1 DEF BridgeStays, BridgeTypes
<1>6. BridgeTypes' BY <1>1, <1>2, <1>5 DEF BridgeStays, BridgeTypes
<1>7. Measure(snapshot)' = Measure(snapshot) BY DEF Measure
<1>8. Answers' BY <1>1, <1>3, <1>7 DEF BridgeStays, Answers
<1>9. Alarms' BY <1>4 DEF BridgeStays, Alarms
<1> QED BY <1>6, <1>8, <1>9 DEF BridgeStays

\* A step of the UI thread or of the sender: closing the exchange is remembered.
LEMMA BridgeWaits ==
  ASSUME BridgeStays, UNCHANGED bridge, (IsOpen \/ closed) => (IsOpen' \/ closed'),
         closed => closed', ui' = "close gdcl" => closed'
  PROVE  BridgeStays'
<1>1. UNCHANGED <<master, stage, result, snapshot, messages, alarm>> BY DEF bridge
<1>2. Measure(snapshot)' = Measure(snapshot) BY <1>1 DEF Measure
<1>3. BridgeTypes' BY <1>1 DEF BridgeStays, BridgeTypes
<1>4. Answers' BY <1>1, <1>2 DEF BridgeStays, Answers
<1>5. Alarms' BY <1>1 DEF BridgeStays, Alarms
<1> QED BY <1>3, <1>4, <1>5 DEF BridgeStays

\* No step mixes two commands in the answers to one result.
LEMMA BridgeNext == EndpointsStay /\ BridgeStays /\ [NetworkNext]_networkVars => BridgeStays'
<1> SUFFICES ASSUME EndpointsStay, BridgeStays, [NetworkNext]_networkVars PROVE BridgeStays' OBVIOUS
<1>0. bound \in [Channels -> Addresses \cup {NotBound}] /\ \A a \in Addresses : a # NotBound
  BY EditAddresses DEF EndpointsStay, EndpointTypes
<1>1. ASSUME UNCHANGED <<ui, closed, bridge>>,
             \A c \in Exchange : bound'[c] = bound[c]
      PROVE  BridgeStays'
  <2>1. IsOpen' <=> IsOpen BY <1>1 DEF IsOpen
  <2> QED BY <1>1, <2>1, BridgeWaits DEF BridgeStays, Alarms
<1>2. ASSUME UNCHANGED <<exchange, bridge>>, ui' # "close gdcl",
             \A c \in Exchange : bound'[c] = bound[c]
      PROVE  BridgeStays'
  <2>1. IsOpen' <=> IsOpen BY <1>2 DEF IsOpen
  <2>2. UNCHANGED closed BY <1>2 DEF exchange
  <2> QED BY <1>2, <2>1, <2>2, BridgeWaits
<1>3. ASSUME closed', UNCHANGED bridge PROVE BridgeStays'
  BY <1>3, BridgeWaits
<1>4. CASE OpenExchange
  <2>1. UNCHANGED bridge /\ UNCHANGED closed /\ ui' # "close gdcl"
    BY <1>4 DEF OpenExchange, exchange
  <2>2. IsOpen => IsOpen'
    <3>1. wanted["gxtc"] # NotBound BY <1>0 DEF EndpointsStay, EndpointTypes, Channels, Exchange
    <3> QED BY <1>0, <1>4, <3>1 DEF OpenExchange, IsOpen, Exchange, Channels
  <2> QED BY <2>1, <2>2, BridgeWaits
<1>5. CASE BindGdcl
  <2>1. UNCHANGED bridge /\ UNCHANGED closed /\ ui' # "close gdcl" BY <1>5 DEF BindGdcl
  <2>2. ~IsOpen
    BY <1>5 DEF BindGdcl, EndpointsStay, Endpoints, IsOpen, Exchange
  <2> QED BY <2>1, <2>2, BridgeWaits
<1>6. CASE CloseExchange BY <1>3, <1>6 DEF CloseExchange, CloseGxtc
<1>7. CASE CloseGdcl
  <2>1. closed' /\ UNCHANGED bridge BY <1>7 DEF CloseGdcl, BridgeStays, Alarms
  <2> QED BY <1>3, <2>1
<1>8. ASSUME NEW cs, EditExchange(cs) PROVE BridgeStays'
  <2>1. CASE IsOpen BY <1>3, <1>8, <2>1 DEF EditExchange, CloseGxtc
  <2>2. CASE ~IsOpen
    <3>1. UNCHANGED <<bound, ui, closed, bridge>> BY <1>8, <2>2 DEF EditExchange
    <3> QED BY <1>1, <3>1
  <2> QED BY <2>1, <2>2
<1>9. CASE OpenSender
  <2>1. \A c \in Exchange : bound'[c] = bound[c]
    BY <1>0, <1>9 DEF OpenSender, Exchange, Channels
  <2> QED BY <1>1, <1>9, <2>1 DEF OpenSender, exchange
<1>10. CASE CloseSender \/ EditSender
  BY <1>1, <1>2, <1>10 DEF CloseSender, EditSender, StopSender
<1>11. CASE JoinSender
  <2>1. \A c \in Exchange : bound'[c] = bound[c]
    BY <1>0, <1>11 DEF JoinSender, Exchange, Channels
  <2> QED BY <1>2, <1>11, <2>1 DEF JoinSender
<1>12. CASE (\E size \in Sizes : SendImage(size)) \/ WorkerStep
  BY <1>1, <1>12 DEF SendImage, WorkerStep, WorkerStops, WorkerTakes, WorkerSends, exchange
<1>13. ASSUME NEW m \in Masters, MasterCommand(m) PROVE BridgeStays'
  <2>1. /\ master' = m /\ UNCHANGED <<bound, ui, closed>>
        /\ UNCHANGED <<stage, result, snapshot, messages, alarm>>
    BY <1>13 DEF MasterCommand, exchange
  <2>2. Measure(snapshot)' = Measure(snapshot) /\ (IsOpen' <=> IsOpen) BY <2>1 DEF Measure, IsOpen
  <2>3. BridgeTypes' BY <2>1 DEF BridgeStays, BridgeTypes
  <2>4. Answers' BY <2>1, <2>2 DEF BridgeStays, Answers
  <2>5. Alarms' BY <2>1, <2>2 DEF BridgeStays, Alarms
  <2> QED BY <2>3, <2>4, <2>5 DEF BridgeStays
<1>14. ASSUME NEW ts \in SUBSET TargetNumbers, ResultArrives(ts) PROVE BridgeStays'
  <2>1. /\ result' = ts /\ snapshot' = master /\ messages' = {} /\ stage' = "ask gxtc"
        /\ UNCHANGED <<bound, ui, closed, master, alarm>>
    BY <1>14 DEF ResultArrives, exchange
  <2>2. BridgeTypes' BY <2>1 DEF BridgeStays, BridgeTypes
  <2>3. Answers' BY <2>1 DEF Answers
  <2>4. Alarms' BY <2>1 DEF BridgeStays, Alarms
  <2> QED BY <2>2, <2>3, <2>4 DEF BridgeStays
<1>15. CASE AskGxtc \/ AskGdcl
  <2>1. UNCHANGED <<bound, ui, closed, master, result, snapshot, messages, alarm>>
    BY <1>15 DEF AskGxtc, AskGdcl, BridgeFrame, exchange
  <2>2. /\ stage' \in {"send gxtc", "ask gdcl", "send gdcl", "idle"}
        /\ stage' \in {"send gxtc", "send gdcl"} => IsOpen
        /\ stage' = "send gdcl" => snapshot.target \in result
    BY <1>15 DEF AskGxtc, AskGdcl
  <2>3. Measure(snapshot)' = Measure(snapshot) /\ (IsOpen' <=> IsOpen) BY <2>1 DEF Measure, IsOpen
  <2>4. BridgeTypes' BY <2>1, <2>2 DEF BridgeStays, BridgeTypes
  <2>5. Answers' BY <2>1, <2>2, <2>3 DEF BridgeStays, Answers
  <2>6. Alarms' BY <2>1, <2>2, <2>3 DEF BridgeStays, Alarms
  <2> QED BY <2>4, <2>5, <2>6 DEF BridgeStays
<1>16. CASE SendGxtc
  <2>1. Send("gxtc", snapshot) /\ stage = "send gxtc" /\ stage' = "ask gdcl"
        /\ UNCHANGED <<bound, ui, closed, master, snapshot, result>>
    BY <1>16 DEF SendGxtc, BridgeFrame, exchange
  <2>2. IsOpen \/ closed BY <2>1 DEF BridgeStays, Alarms
  <2>3. "gxtc" \in Exchange /\ "gxtc" # "gdcl" BY DEF Exchange
  <2> QED BY <2>1, <2>2, <2>3, SendAnswers
<1>17. CASE SendGdcl
  <2>1. Send("gdcl", snapshot) /\ stage = "send gdcl" /\ stage' = "idle"
        /\ UNCHANGED <<bound, ui, closed, master, snapshot, result>>
    BY <1>17 DEF SendGdcl, BridgeFrame, exchange
  <2>2. (IsOpen \/ closed) /\ snapshot.target \in result BY <2>1 DEF BridgeStays, Alarms, Answers
  <2>3. "gdcl" \in Exchange BY DEF Exchange
  <2> QED BY <2>1, <2>2, <2>3, SendAnswers
<1>18. CASE UNCHANGED networkVars BY <1>1, <1>18 DEF networkVars, exchange
<1> QED BY <1>4, <1>5, <1>6, <1>7, <1>8, <1>9, <1>10, <1>11, <1>12, <1>13, <1>14, <1>15, <1>16,
           <1>17, <1>18 DEF NetworkNext, UiStep

-----------------------------------------------------------------------------
(* NetworkEndpoints: the image sender                                       *)

\* What packet k of an image of that size carries
Bytes(size, k) == Min({MaxPayload, size + HeaderSize - (k - 1) * MaxPayload})

SenderTypes ==
    /\ opens \in 0..MaxOpens /\ given \in 0..MaxImages /\ mark \in 0..given
    /\ hand \in Sizes \cup {0}
    /\ packets \in Seq([bytes : 1..MaxPayload, to : Addresses])
    /\ begun \in Seq(1..given)
    /\ pending = <<>> \/ \E size \in Sizes : pending = <<[id |-> given, size |-> size]>>

\* The packets of the image in hand, all of them unless the worker is sending it
Parts ==
    /\ \A k \in DOMAIN packets : /\ packets[k].bytes = Bytes(hand, k)
                                 /\ packets[k].to = packets[1].to
    /\ worker = "send" => /\ hand # 0 /\ Len(packets) < PacketCount(hand)
                          /\ \A k \in DOMAIN packets : packets[k].to = bound["image"]
    /\ (worker # "send" /\ hand # 0) => Len(packets) = PacketCount(hand)

\* The waiting image is newer than those begun.
Newest == /\ ImagesInOrder
          /\ pending # <<>> => given # 0 /\ \A i \in DOMAIN begun : begun[i] < given

\* The inductive invariant of the image sender
SenderStays == SenderTypes /\ Parts /\ Newest

\* The number of packets: the last one is not empty, and together they hold the image.
LEMMA Division ==
  ASSUME NEW size \in Sizes, size # 0
  PROVE  /\ PacketCount(size) \in Nat \ {0}
         /\ (PacketCount(size) - 1) * MaxPayload < size + HeaderSize
         /\ size + HeaderSize <= PacketCount(size) * MaxPayload
<1> DEFINE t == size + HeaderSize
           c == (t + MaxPayload - 1) \div MaxPayload
<1>1. t \in Nat \ {0} /\ MaxPayload \in Nat \ {0} BY NetworkAssumption
<1>2. PacketCount(size) = c BY DEF PacketCount
<1>3. c \in Nat \ {0} /\ (c - 1) * MaxPayload < t /\ t <= c * MaxPayload
  <2> HIDE DEF t
  <2> QED BY <1>1
<1> QED BY <1>2, <1>3

\* The least of two numbers
LEMMA LeastOfTwo ==
  ASSUME NEW a \in Int, NEW b \in Int
  PROVE  Min({a, b}) = IF a <= b THEN a ELSE b
<1>1. CASE a <= b
  <2>1. a \in {a, b} /\ \A y \in {a, b} : a <= y BY <1>1
  <2>2. \A x \in {a, b} : (\A y \in {a, b} : x <= y) => x = a BY <1>1
  <2> QED BY <1>1, <2>1, <2>2 DEF Min
<1>2. CASE ~(a <= b)
  <2>1. b \in {a, b} /\ \A y \in {a, b} : b <= y BY <1>2
  <2>2. \A x \in {a, b} : (\A y \in {a, b} : x <= y) => x = b BY <1>2
  <2> QED BY <1>2, <2>1, <2>2 DEF Min
<1> QED BY <1>1, <1>2

\* Each packet carries something and is no longer than MaxUdpPayload.
LEMMA PacketBytes ==
  ASSUME NEW size \in Sizes, size # 0, NEW k \in 1..PacketCount(size)
  PROVE  /\ Bytes(size, k) \in 1..MaxPayload /\ Packets(size)[k] = Bytes(size, k)
         /\ Len(Packets(size)) = PacketCount(size)
<1> DEFINE c == PacketCount(size)
           left == size + HeaderSize - (k - 1) * MaxPayload
<1>1. c \in Nat \ {0} /\ (c - 1) * MaxPayload < size + HeaderSize BY Division
<1>2. size \in Nat /\ HeaderSize \in Nat /\ MaxPayload \in Nat \ {0} BY NetworkAssumption
<1>3. Packets(size) = [j \in 1..c |-> Bytes(size, j)] BY DEF Packets, Bytes
<1> HIDE DEF c
<1>4. k \in 1..c BY DEF c
<1>5. left \in Int /\ left >= 1
  <2>1. (k - 1) * MaxPayload <= (c - 1) * MaxPayload
    <3>1. (c - k) * MaxPayload >= 0 BY <1>1, <1>2, <1>4
    <3>2. (c - 1) * MaxPayload = (k - 1) * MaxPayload + (c - k) * MaxPayload
      BY <1>1, <1>2, <1>4
    <3>3. /\ (k - 1) * MaxPayload \in Int /\ (c - 1) * MaxPayload \in Int
          /\ (c - k) * MaxPayload \in Int
      BY <1>1, <1>2, <1>4
    <3> QED BY <3>1, <3>2, <3>3
  <2>2. (k - 1) * MaxPayload \in Int /\ (c - 1) * MaxPayload \in Int BY <1>1, <1>2, <1>4
  <2> QED BY <1>1, <1>2, <2>1, <2>2
<1>6. Bytes(size, k) = Min({MaxPayload, left}) BY DEF Bytes
<1> HIDE DEF left
<1>7. Bytes(size, k) \in 1..MaxPayload BY <1>2, <1>5, <1>6, LeastOfTwo
<1> QED BY <1>1, <1>3, <1>4, <1>7 DEF c

\* At first no image was given.
LEMMA SenderInit == NetworkInit => SenderStays
<1> SUFFICES ASSUME NetworkInit PROVE SenderStays OBVIOUS
<1>1. /\ opens = 0 /\ given = 0 /\ mark = 0 /\ hand = 0 /\ packets = <<>> /\ begun = <<>>
      /\ pending = <<>> /\ worker = "none"
  BY DEF NetworkInit
<1>2. SenderTypes BY <1>1, NetworkAssumption DEF SenderTypes
<1>3. Parts BY <1>1 DEF Parts
<1>4. Newest BY <1>1 DEF Newest, ImagesInOrder
<1> QED BY <1>2, <1>3, <1>4 DEF SenderStays

\* A step that sends and takes nothing; the socket stays while an image is sent.
LEMMA SenderWaits ==
  ASSUME SenderStays, UNCHANGED <<hand, packets, begun, given, pending>>,
         opens' \in 0..MaxOpens, mark' \in 0..given,
         worker' = "send" <=> worker = "send",
         worker = "send" => bound'["image"] = bound["image"]
  PROVE  SenderStays'
<1>1. SenderTypes' BY DEF SenderStays, SenderTypes
<1>2. Parts'
  <2>1. \A k : Bytes(hand, k)' = Bytes(hand, k) BY DEF Bytes
  <2>2. PacketCount(hand)' = PacketCount(hand) BY DEF PacketCount
  <2> QED BY <2>1, <2>2 DEF SenderStays, Parts
<1>3. Newest' BY DEF SenderStays, Newest, ImagesInOrder
<1> QED BY <1>1, <1>2, <1>3 DEF SenderStays

\* The image taken is the newest given.
LEMMA WorkerTakesStays ==
  ASSUME SenderStays, WorkerTakes
  PROVE  SenderStays'
<1> DEFINE n == Len(begun)
<1>1. PICK size \in Sizes : pending = <<[id |-> given, size |-> size]>>
  BY DEF WorkerTakes, SenderStays, SenderTypes
<1>2. /\ pending' = <<>> /\ hand' = size /\ packets' = <<>> /\ begun' = Append(begun, given)
      /\ worker' = (IF size = 0 THEN "wait" ELSE "send")
      /\ UNCHANGED <<given, opens, mark>> /\ pending # <<>>
  BY <1>1 DEF WorkerTakes
<1>3. /\ given \in Nat \ {0} /\ begun \in Seq(1..given)
      /\ \A i \in DOMAIN begun : begun[i] < given
  BY <1>2 DEF SenderStays, SenderTypes, Newest
<1>4. /\ n \in Nat /\ DOMAIN begun = 1..n /\ DOMAIN begun' = 1..(n + 1)
      /\ begun' \in Seq(1..given) /\ begun'[n + 1] = given
      /\ \A i \in 1..n : begun'[i] = begun[i]
  BY <1>2, <1>3
<1> HIDE DEF n
<1>5. SenderTypes' BY <1>2, <1>4 DEF SenderStays, SenderTypes
<1>6. Parts'
  <2>1. size # 0 => 0 < PacketCount(size) BY Division
  <2>2. DOMAIN packets' = {} /\ Len(packets') = 0 BY <1>2
  <2> QED BY <1>2, <2>1, <2>2 DEF Parts, PacketCount
<1>7. ImagesInOrder'
  <2>1. \A i, k \in 1..n : i < k => begun[i] < begun[k]
    BY <1>4 DEF SenderStays, Newest, ImagesInOrder
  <2>2. \A i \in 1..(n + 1) : i \in 1..n \/ i = n + 1 BY <1>4
  <2>3. \A i \in 1..(n + 1) : i < n + 1 => i \in 1..n BY <1>4
  <2>4. \A k \in 1..n : ~(n + 1 < k) BY <1>4
  <2> QED BY <1>3, <1>4, <2>1, <2>2, <2>3, <2>4 DEF ImagesInOrder
<1>8. Newest' BY <1>2, <1>7 DEF Newest
<1> QED BY <1>5, <1>6, <1>8 DEF SenderStays

\* The packet sent is the next of the image in hand.
LEMMA WorkerSendsStays ==
  ASSUME EndpointsStay, SenderStays, WorkerSends
  PROVE  SenderStays'
<1> DEFINE n == Len(packets)
           packet == [bytes |-> Packets(hand)[n + 1], to |-> bound["image"]]
<1>1. /\ worker = "send" /\ packets' = Append(packets, packet)
      /\ worker' = (IF n + 1 = Len(Packets(hand)) THEN "wait" ELSE "send")
      /\ UNCHANGED <<bound, pending, given, opens, mark, hand, begun>>
  BY DEF WorkerSends, mailbox
<1>2. /\ hand \in Sizes /\ hand # 0 /\ n < PacketCount(hand)
      /\ packets \in Seq([bytes : 1..MaxPayload, to : Addresses])
      /\ \A k \in DOMAIN packets : /\ packets[k].to = bound["image"]
                                   /\ packets[k].bytes = Bytes(hand, k)
  BY <1>1 DEF SenderStays, SenderTypes, Parts
<1>3. PacketCount(hand) \in Nat /\ n \in Nat /\ n + 1 \in 1..PacketCount(hand)
  BY <1>2, Division
<1>4. /\ Bytes(hand, n + 1) \in 1..MaxPayload /\ Packets(hand)[n + 1] = Bytes(hand, n + 1)
      /\ Len(Packets(hand)) = PacketCount(hand)
  BY <1>2, <1>3, PacketBytes
<1>5. bound["image"] \in Addresses
  BY <1>1 DEF EndpointsStay, EndpointTypes, Worker, Channels
<1>6. /\ packet.bytes = Bytes(hand, n + 1) /\ packet.to = bound["image"]
      /\ packet \in [bytes : 1..MaxPayload, to : Addresses]
  BY <1>4, <1>5
<1> HIDE DEF packet
<1>7. /\ DOMAIN packets = 1..n /\ DOMAIN packets' = 1..(n + 1) /\ Len(packets') = n + 1
      /\ packets' \in Seq([bytes : 1..MaxPayload, to : Addresses])
      /\ packets'[n + 1] = packet /\ \A k \in 1..n : packets'[k] = packets[k]
  BY <1>1, <1>2, <1>6
<1> HIDE DEF n
<1>8. SenderTypes' BY <1>1, <1>7 DEF SenderStays, SenderTypes
<1>9. \A k \in 1..(n + 1) : packets'[k].to = bound["image"] /\ packets'[k].bytes = Bytes(hand, k)
  <2>1. \A k \in 1..(n + 1) : k \in 1..n \/ k = n + 1 BY <1>3
  <2> QED BY <1>2, <1>6, <1>7, <2>1
<1>10. Parts'
  <2>1. \A k : Bytes(hand, k)' = Bytes(hand, k) BY <1>1 DEF Bytes
  <2>2. PacketCount(hand)' = PacketCount(hand) BY <1>1 DEF PacketCount
  <2>3. 1 \in 1..(n + 1) BY <1>3
  <2>4. worker' = "send" => n + 1 < PacketCount(hand) BY <1>1, <1>3, <1>4
  <2>5. worker' # "send" => n + 1 = PacketCount(hand) BY <1>1, <1>4
  <2> QED BY <1>1, <1>2, <1>7, <1>9, <2>1, <2>2, <2>3, <2>4, <2>5 DEF Parts
<1>11. Newest' BY <1>1 DEF SenderStays, Newest, ImagesInOrder
<1> QED BY <1>8, <1>10, <1>11 DEF SenderStays

\* The image given replaces the one that waits.
LEMMA SendImageStays ==
  ASSUME SenderStays, NEW size \in Sizes, SendImage(size)
  PROVE  SenderStays'
<1>1. /\ given < MaxImages /\ given' = given + 1
      /\ pending' = <<[id |-> given + 1, size |-> size]>>
      /\ UNCHANGED <<bound, worker, hand, packets, begun, opens, mark>>
  BY DEF SendImage, sender, sending
<1>2. given \in 0..MaxImages /\ mark \in 0..given /\ begun \in Seq(1..given)
  BY DEF SenderStays, SenderTypes
<1>3. given' \in 0..MaxImages /\ given' # 0 /\ mark' \in 0..given' BY <1>1, <1>2, NetworkAssumption
<1>4. begun' \in Seq(1..given') /\ \A i \in DOMAIN begun' : begun'[i] < given'
  <2>1. \A i \in DOMAIN begun : begun[i] \in 1..given BY <1>2
  <2>2. \A b \in 1..given : b < given + 1 /\ b \in 1..(given + 1) BY <1>2
  <2>3. \A i \in DOMAIN begun : begun[i] \in 1..(given + 1) BY <2>1, <2>2
  <2>4. begun = [i \in 1..Len(begun) |-> begun[i]] /\ Len(begun) \in Nat
        /\ DOMAIN begun = 1..Len(begun)
    BY <1>2
  <2>5. begun \in Seq(1..(given + 1))
    <3> DEFINE l == Len(begun)
    <3> HIDE DEF l
    <3>1. [i \in 1..l |-> begun[i]] \in Seq(1..(given + 1)) BY <2>3, <2>4 DEF l
    <3> QED BY <2>4, <3>1 DEF l
  <2> QED BY <1>1, <2>1, <2>2, <2>5
<1>5. SenderTypes' BY <1>1, <1>3, <1>4 DEF SenderStays, SenderTypes
<1>6. Parts'
  <2>1. \A k : Bytes(hand, k)' = Bytes(hand, k) BY <1>1 DEF Bytes
  <2>2. PacketCount(hand)' = PacketCount(hand) BY <1>1 DEF PacketCount
  <2> QED BY <1>1, <2>1, <2>2 DEF SenderStays, Parts
<1>7. Newest' BY <1>1, <1>3, <1>4 DEF SenderStays, Newest, ImagesInOrder
<1> QED BY <1>5, <1>6, <1>7 DEF SenderStays

\* No step breaks an image off or sends an older image after a newer one.
LEMMA SenderNext == EndpointsStay /\ SenderStays /\ [NetworkNext]_networkVars => SenderStays'
<1> SUFFICES ASSUME EndpointsStay, SenderStays, [NetworkNext]_networkVars PROVE SenderStays' OBVIOUS
<1>0. /\ opens \in 0..MaxOpens /\ mark \in 0..given /\ given \in Nat
      /\ bound \in [Channels -> Addresses \cup {NotBound}]
  <2>1. given \in 0..MaxImages /\ opens \in 0..MaxOpens /\ mark \in 0..given
    BY DEF SenderStays, SenderTypes
  <2>2. given \in Nat BY <2>1, NetworkAssumption
  <2>3. bound \in [Channels -> Addresses \cup {NotBound}] BY DEF EndpointsStay, EndpointTypes
  <2> QED BY <2>1, <2>2, <2>3
<1>1. ASSUME UNCHANGED <<mailbox, sender>>, bound'["image"] = bound["image"] PROVE SenderStays'
  BY <1>0, <1>1, SenderWaits DEF mailbox, sender, sending
<1>2. ASSUME UNCHANGED <<mailbox, mark, opens, sending>>, worker # "send", worker' # "send"
      PROVE  SenderStays'
  BY <1>0, <1>2, SenderWaits DEF mailbox, sending
<1>3. CASE OpenExchange \/ BindGdcl \/ CloseExchange \/ CloseGdcl
  <2>1. bound'["image"] = bound["image"]
    BY <1>0, <1>3 DEF OpenExchange, BindGdcl, CloseExchange, CloseGxtc, CloseGdcl, Channels,
                      Exchange
  <2> QED BY <1>1, <1>3, <2>1 DEF OpenExchange, BindGdcl, CloseExchange, CloseGdcl
<1>4. ASSUME NEW cs, EditExchange(cs) PROVE SenderStays'
  <2>1. bound'["image"] = bound["image"]
    BY <1>0, <1>4 DEF EditExchange, CloseGxtc, Channels, Exchange
  <2> QED BY <1>1, <1>4, <2>1 DEF EditExchange
<1>5. CASE OpenSender
  <2>1. CASE UNCHANGED <<bound, sender>> BY <1>1, <1>5, <2>1 DEF OpenSender
  <2>2. CASE ~UNCHANGED <<bound, sender>>
    <3>1. /\ opens < MaxOpens /\ opens' = opens + 1 /\ mark' = given /\ worker' = "wait"
          /\ UNCHANGED sending /\ UNCHANGED mailbox /\ bound["image"] = NotBound
      BY <1>5, <2>2 DEF OpenSender
    <3>2. worker # "send" BY <3>1 DEF EndpointsStay, Worker
    <3>3. opens' \in 0..MaxOpens /\ mark' \in 0..given BY <1>0, <3>1, NetworkAssumption
    <3> QED BY <3>1, <3>2, <3>3, SenderWaits DEF mailbox, sending
  <2> QED BY <2>1, <2>2
<1>6. CASE CloseSender \/ EditSender
  <2>1. CASE StopSender
    <3>1. UNCHANGED mailbox BY <1>6 DEF CloseSender, EditSender
    <3> QED BY <1>0, <2>1, <3>1, SenderWaits DEF StopSender, mailbox, sending
  <2>2. CASE UNCHANGED <<bound, ui, sender>>
    BY <1>1, <1>6, <2>2 DEF CloseSender, EditSender
  <2> QED BY <1>6, <2>1, <2>2 DEF CloseSender, EditSender
<1>7. CASE JoinSender BY <1>2, <1>7 DEF JoinSender
<1>8. CASE WorkerStops BY <1>2, <1>8 DEF WorkerStops
<1>9. CASE WorkerTakes BY <1>9, WorkerTakesStays
<1>10. CASE WorkerSends BY <1>10, WorkerSendsStays
<1>11. ASSUME NEW size \in Sizes, SendImage(size) PROVE SenderStays' BY <1>11, SendImageStays
<1>12. ASSUME UNCHANGED <<bound, mailbox, sender>> PROVE SenderStays' BY <1>1, <1>12
<1>13. CASE \E m \in Masters \ {NoMaster} : MasterCommand(m) BY <1>12, <1>13 DEF MasterCommand
<1>14. CASE \E ts \in SUBSET TargetNumbers \ {{}} : ResultArrives(ts)
  BY <1>12, <1>14 DEF ResultArrives
<1>15. CASE AskGxtc \/ SendGxtc \/ AskGdcl \/ SendGdcl
  BY <1>12, <1>15 DEF AskGxtc, SendGxtc, AskGdcl, SendGdcl, BridgeFrame
<1>16. CASE UNCHANGED networkVars BY <1>12, <1>16 DEF networkVars
<1> QED BY <1>3, <1>4, <1>5, <1>6, <1>7, <1>8, <1>9, <1>10, <1>11, <1>13, <1>14, <1>15, <1>16
        DEF NetworkNext, UiStep, WorkerStep

\* A set of natural numbers that is not empty has a least element.
LEMMA Least ==
  ASSUME NEW T \in SUBSET Nat, T # {}
  PROVE  \E m \in T : \A n \in T : m <= n
<1> DEFINE R == OpToRel(<, Nat)
<1>1. \E m \in T : \A n \in T : <<n, m>> \notin R
  <2>1. IsWellFoundedOn(R, Nat) BY NatLessThanWellFounded
  <2> HIDE DEF R
  <2> QED BY <2>1, WFMin
<1>2. \A m, n \in T : <<n, m>> \notin R => m <= n BY DEF OpToRel
<1> QED BY <1>1, <1>2

\* The bytes of the first packets
SumsUp(f, n) == \A k \in 0..n : f[k] = IF k = 0 THEN 0 ELSE f[k - 1] + packets[k].bytes

\* Two functions that sum up the packets are the same.
LEMMA SumIsUnique ==
  ASSUME NEW n \in Nat, NEW f, NEW g, SumsUp(f, n), SumsUp(g, n)
  PROVE  f[n] = g[n]
<1> DEFINE Wrong == {k \in 0..n : f[k] # g[k]}
<1> SUFFICES ASSUME Wrong # {} PROVE FALSE OBVIOUS
<1>1. Wrong \in SUBSET Nat OBVIOUS
<1>2. PICK m \in Wrong : \A k \in Wrong : m <= k
  <2> HIDE DEF Wrong
  <2> QED BY <1>1, Least
<1>3. m \in 0..n /\ f[m] # g[m] OBVIOUS
<1>4. CASE m = 0 BY <1>3, <1>4 DEF SumsUp
<1>5. CASE m # 0
  <2>1. m - 1 \in 0..n /\ ~(m <= m - 1) BY <1>3, <1>5
  <2>2. f[m - 1] = g[m - 1] BY <1>2, <2>1
  <2> QED BY <1>3, <1>5, <2>2 DEF SumsUp
<1> QED BY <1>4, <1>5

\* The packets before the last one are full.
LEMMA SumOfPackets ==
  ASSUME NEW n \in Nat \ {0}, NEW size \in Nat, MaxPayload \in Nat \ {0}, HeaderSize \in Nat,
         (n - 1) * MaxPayload < size + HeaderSize,
         \A k \in 1..n : packets[k].bytes = Bytes(size, k)
  PROVE  SumsUp([k \in 0..n |-> Min({k * MaxPayload, size + HeaderSize})], n)
<1> DEFINE total == size + HeaderSize
           all == [k \in 0..n |-> Min({k * MaxPayload, total})]
<1>1. total \in Nat OBVIOUS
<1> SUFFICES ASSUME NEW k \in 0..n
             PROVE  all[k] = IF k = 0 THEN 0 ELSE all[k - 1] + packets[k].bytes
  BY DEF SumsUp
<1>2. CASE k = 0
  <2>1. all[0] = Min({0, total})
    <3>1. 0 * MaxPayload = 0 /\ 0 \in 0..n OBVIOUS
    <3>2. all[0] = Min({0 * MaxPayload, total})
      <4> HIDE DEF total
      <4> QED BY <3>1
    <3> HIDE DEF total, all
    <3> QED BY <3>1, <3>2
  <2> HIDE DEF total, all
  <2>2. 0 \in Int /\ total \in Int /\ 0 <= total BY <1>1
  <2>3. Min({0, total}) = 0 BY <2>2, LeastOfTwo
  <2> QED BY <1>2, <2>1, <2>3
<1>3. CASE k # 0
  <2> DEFINE before == (k - 1) * MaxPayload
  <2>1. k - 1 \in 0..n /\ k \in 1..n BY <1>3
  <2>2. before \in Nat /\ k * MaxPayload = before + MaxPayload BY <2>1
  <2>3. before < total
    <3>1. (n - k) * MaxPayload >= 0 /\ (n - 1) * MaxPayload = before + (n - k) * MaxPayload
      BY <2>1
    <3>2. (n - k) * MaxPayload \in Int /\ (n - 1) * MaxPayload \in Int BY <2>1
    <3> DEFINE rest == (n - k) * MaxPayload  last == (n - 1) * MaxPayload
    <3>3. rest \in Int /\ rest >= 0 /\ last = before + rest /\ last < total BY <3>1, <3>2
    <3> HIDE DEF rest, last, before, total
    <3> QED BY <1>1, <2>2, <3>3
  <2>4. all[k - 1] = Min({before, total}) /\ all[k] = Min({before + MaxPayload, total})
    BY <2>1, <2>2
  <2>5. packets[k].bytes = Min({MaxPayload, total - before}) BY <2>1 DEF Bytes
  <2> HIDE DEF before, total, all
  <2>6. all[k - 1] = before BY <1>1, <2>2, <2>3, <2>4, LeastOfTwo
  <2>7. all[k] = IF before + MaxPayload <= total THEN before + MaxPayload ELSE total
    BY <1>1, <2>2, <2>4, LeastOfTwo
  <2>8. packets[k].bytes = IF MaxPayload <= total - before THEN MaxPayload ELSE total - before
    BY <1>1, <2>2, <2>5, LeastOfTwo
  <2> QED BY <1>1, <1>3, <2>2, <2>6, <2>7, <2>8
<1> QED BY <1>2, <1>3

\* What the packets of a whole image carry is the image and its header.
LEMMA WholeImage == SenderStays => ImagesAreWhole
<1> SUFFICES ASSUME SenderStays PROVE ImagesAreWhole OBVIOUS
<1> DEFINE n == Len(packets)
           Shape(f) == f = [k \in 0..n |-> IF k = 0 THEN 0 ELSE f[k - 1] + packets[k].bytes]
           total == hand + HeaderSize
           all == [k \in 0..n |-> Min({k * MaxPayload, total})]
           sum == CHOOSE f : Shape(f)
<1>1. /\ n \in Nat /\ packets \in Seq([bytes : 1..MaxPayload, to : Addresses])
      /\ DOMAIN packets = 1..n
      /\ \A k \in 1..n : packets[k].bytes = Bytes(hand, k)
      /\ \A k \in 1..n : packets[k].to = packets[1].to
  BY DEF SenderStays, SenderTypes, Parts
<1>2. \A k \in 1..n : packets[k].bytes \in 1..MaxPayload
  <2>1. \A k \in 1..n : packets[k] \in [bytes : 1..MaxPayload, to : Addresses]
    BY <1>1, ElementOfSeq
  <2> HIDE DEF n
  <2> QED BY <2>1
<1>3. ImagesAreWhole <=>
            /\ \A k \in DOMAIN packets : /\ packets[k].bytes \in 1..MaxPayload
                                         /\ packets[k].to = packets[1].to
            /\ (worker # "send" /\ hand # 0) => sum[n] = total
  BY DEF ImagesAreWhole
<1> SUFFICES ASSUME worker # "send", hand # 0 PROVE sum[n] = total
  <2> HIDE DEF sum, total
  <2> QED BY <1>1, <1>2, <1>3
<1>4. n = PacketCount(hand) /\ hand \in Sizes /\ hand \in Nat
  BY NetworkAssumption DEF SenderStays, SenderTypes, Parts
<1>5. /\ n \in Nat \ {0} /\ (n - 1) * MaxPayload < total /\ total <= n * MaxPayload
  <2> HIDE DEF n
  <2> QED BY <1>4, Division
<1>6. SumsUp(all, n)
  <2> HIDE DEF n
  <2> QED BY <1>1, <1>4, <1>5, NetworkAssumption, SumOfPackets
<1>7. Shape(all)
  <2>1. all = [k \in 0..n |-> all[k]] OBVIOUS
  <2> HIDE DEF all, n
  <2> QED BY <1>6, <2>1 DEF SumsUp
<1>8. Shape(sum)
  <2> HIDE DEF Shape, all
  <2> QED BY <1>7
<1>9. SumsUp(sum, n)
  <2> HIDE DEF sum, n
  <2> QED BY <1>8 DEF SumsUp
<1>10. sum[n] = all[n]
  <2> HIDE DEF sum, n, all
  <2> QED BY <1>1, <1>6, <1>9, SumIsUnique
<1>11. all[n] = total
  <2>1. n * MaxPayload \in Int /\ total \in Int /\ n \in 0..n BY <1>4, <1>5, NetworkAssumption
  <2>2. all[n] = Min({n * MaxPayload, total}) BY <2>1
  <2> DEFINE full == n * MaxPayload
  <2>3. full \in Int /\ total <= full BY <1>5, <2>1
  <2> HIDE DEF full, total, all
  <2> QED BY <2>1, <2>2, <2>3, LeastOfTwo DEF full
<1> QED BY <1>10, <1>11

-----------------------------------------------------------------------------
(* NetworkEndpoints: theorems                                               *)

\* Every state has its type, the exchange is bound as a whole, and nothing that is
\* bound between two calls has an address the user has edited since.
THEOREM EndpointsAreWhole == NetworkSpec => []EndpointsInv
<1>1. EndpointsStay /\ BridgeStays /\ SenderStays => EndpointsInv
  <2> SUFFICES ASSUME EndpointsStay, BridgeStays, SenderStays PROVE EndpointsInv OBVIOUS
  <2>1. pending = <<>> \/ pending = <<[id |-> given, size |-> pending[1].size]>>
    <3>1. CASE pending = <<>> BY <3>1
    <3>2. ASSUME NEW size \in Sizes, pending = <<[id |-> given, size |-> size]>>
          PROVE  pending = <<[id |-> given, size |-> pending[1].size]>>
      BY <3>2
    <3> QED BY <3>1, <3>2 DEF SenderStays, SenderTypes
  <2>2. NetworkTypeOK
    BY <2>1 DEF NetworkTypeOK, EndpointsStay, EndpointTypes, BridgeStays, BridgeTypes,
                SenderStays, SenderTypes
  <2>3. ExchangeIsWhole BY DEF ExchangeIsWhole, EndpointsStay, Endpoints
  <2>4. NoOldAddress
    BY DEF NoOldAddress, EndpointsStay, Endpoints, Channels, Exchange
  <2> QED BY <2>2, <2>3, <2>4 DEF EndpointsInv
<1> QED BY <1>1, EndpointsInit, EndpointsNext, BridgeInit, BridgeNext, SenderInit, SenderNext, PTL
        DEF NetworkSpec

\* Both messages about a result follow one state of the master control, and the
\* diagnostics see an error only when the exchange was closed behind the bridge.
THEOREM BridgeAnswers == NetworkSpec => []BridgeInv
<1>1. BridgeStays => BridgeInv
  BY DEF BridgeInv, OneMasterPerResult, NoFalseAlarm, BridgeStays, Answers, Alarms
<1> QED BY <1>1, EndpointsInit, EndpointsNext, BridgeInit, BridgeNext, PTL DEF NetworkSpec

\* An image is sent whole, in packets that fit and to one address, and images are
\* sent in the order in which they were given.
THEOREM ImagesArrive == NetworkSpec => []ImagesInv
<1>1. SenderStays => ImagesInv
  BY WholeImage DEF ImagesInv, SenderStays, Newest
<1> QED BY <1>1, EndpointsInit, EndpointsNext, SenderInit, SenderNext, PTL DEF NetworkSpec

\* After an open at most one image of the time before it is sent, the newest.
THEOREM OneStaleImage == NetworkSpec => StaleImageOnce
<1>1. SenderStays /\ [NetworkNext]_networkVars
        => [(begun' # begun /\ Last(begun') <= mark) => Last(begun') = mark]_networkVars
  <2> SUFFICES ASSUME SenderStays, NetworkNext, begun' # begun, Last(begun') <= mark
               PROVE  Last(begun') = mark
    OBVIOUS
  <2>1. WorkerTakes
    BY DEF NetworkNext, UiStep, WorkerStep, OpenExchange, CloseExchange, OpenSender, CloseSender,
           EditSender,
           StopSender, BindGdcl, CloseGdcl, JoinSender, EditExchange, SendImage, WorkerStops,
           WorkerSends, MasterCommand, ResultArrives, AskGxtc, SendGxtc, AskGdcl, SendGdcl,
           BridgeFrame, sender, sending
  <2>2. PICK size \in Sizes : pending = <<[id |-> given, size |-> size]>>
    BY <2>1 DEF WorkerTakes, SenderStays, SenderTypes
  <2>3. begun' = Append(begun, given) BY <2>1, <2>2 DEF WorkerTakes
  <2>4. Last(begun') = given BY <2>3 DEF SenderStays, SenderTypes, Last
  <2> QED BY <2>4 DEF SenderStays, SenderTypes
<1> QED
  BY <1>1, EndpointsInit, EndpointsNext, SenderInit, SenderNext, PTL DEF NetworkSpec, StaleImageOnce

=============================================================================
