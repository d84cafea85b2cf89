--------------------------- MODULE SessionControl ---------------------------
(***************************************************************************)
(* Who saves what: the master control handler of main_view_model.cpp and   *)
(* the Save box of the control page start and stop both storage backends   *)
(* through storage_view_model.cpp, while frames flow from the source's     *)
(* callback over the frame queue to the tracker, whose results are stored  *)
(* by a subscriber (app/communication_services.cpp).                       *)
(*                                                                         *)
(* Threads: control (the UI thread, or the serial thread that emits        *)
(* MasterControlEvent; their calls are assumed not to overlap), the frame  *)
(* source and the processing thread.  The backends are reduced to whether  *)
(* they run and for which session; their own modules have the rest.        *)
(***************************************************************************)
EXTENDS FiniteSetsExt, SequencesExt

CONSTANTS Targets,       \* the observations the master control can ask for
          Capacity,      \* of the frame queue
          MaxUiSessions, \* bound: times the Save box is checked
          MaxEvents,     \* bound: events of the master control
          MaxFrames,     \* bound: frames delivered by the source
          MaxDays        \* bound: midnights

ASSUME SessionAssumption ==
    /\ Capacity \in Nat \ {0} /\ MaxUiSessions \in Nat /\ MaxEvents \in Nat
    /\ MaxFrames \in Nat /\ MaxDays \in Nat

NoSession == <<>>

\* makeObservationSession(): the id has the day of the event, not of the start.
\* startSaving() of the box takes the time, which differs on every call.
MasterSessions == {"master"} \X (0..MaxDays) \X Targets
UiSessions == {"ui"} \X (1..MaxUiSessions)
Sessions == MasterSessions \cup UiSessions

\* valid: makeObservationSession() accepts the times and the observatory.
Events == [save : BOOLEAN, valid : BOOLEAN, target : Targets, grab : BOOLEAN]

VARIABLES
    saving,      \* m_saving of StorageViewModel
    activeId,    \* m_activeStorageSessionId of MainViewModel
    checked,     \* the Save box, which nothing but the user changes
    image,       \* the image backend: whether it runs, its session
    track,       \* the track backend, and the run it was last started in
    step,        \* where the control thread is inside a call
    caller,      \* who made the last call
    event,       \* the last MasterControlEvent
    naming,      \* the session a call asks for
    source, processor,   \* whether the frame source and the processor run
    delivering,  \* the frame in the source's callback: at most one
    queue,       \* the frames in the channel
    processing,  \* the frame in the processing thread: at most one
    day,         \* the UTC date
    runs,        \* history: times the image backend was started
    uiSessions, events, frames,  \* history: counts for the bounds
    spilled      \* history: results stored in this run whose image is of another

storage == <<image, track, runs>>
control == <<saving, activeId, checked, step, caller, event, naming>>
flow == <<delivering, queue, processing, frames, spilled>>
clocks == <<day, uiSessions, events>>
vars == <<storage, control, flow, clocks, source, processor>>

Init == /\ saving = FALSE /\ activeId = NoSession /\ checked = FALSE
        /\ image = [running |-> FALSE, session |-> NoSession]
        /\ track = [running |-> FALSE, session |-> NoSession, run |-> 0]
        /\ step = "idle" /\ caller = "ui" /\ naming = NoSession
        /\ event \in {e \in Events : ~e.save /\ e.valid /\ ~e.grab}
        /\ source = FALSE /\ processor = FALSE
        /\ delivering = <<>> /\ queue = <<>> /\ processing = <<>> /\ spilled = 0
        /\ day = 0 /\ runs = 0 /\ uiSessions = 0 /\ events = 0 /\ frames = 0

-----------------------------------------------------------------------------
(* The callers                                                              *)

\* The box is checked: startSaving(), whoever is saving already.
CheckBox == /\ step = "idle" /\ ~checked
            /\ uiSessions < MaxUiSessions
            /\ checked' = TRUE
            /\ uiSessions' = uiSessions + 1
            /\ naming' = <<"ui", uiSessions + 1>>
            /\ caller' = "ui" /\ step' = "configure"
            /\ UNCHANGED <<saving, activeId, event, storage, flow, day, events, source, processor>>

\* The box is cleared: stopSaving(), whoever is saving.
ClearBox == /\ step = "idle" /\ checked
            /\ checked' = FALSE
            /\ caller' = "ui" /\ step' = "stop image"
            /\ UNCHANGED <<saving, activeId, event, naming, storage, flow, clocks, source, processor>>

Asked(e) == <<"master", day, e.target>>

\* Mutant: a new session is not noticed while another is being saved
NeedsStartWhenIdle(e) == e.save /\ e.valid /\ ~saving

NeedsStart(e) == e.save /\ e.valid /\ (~saving \/ Asked(e) # activeId)

\* onMasterControl(), up to the first call that takes time
MasterControl(e) ==
    /\ step = "idle" /\ events < MaxEvents
    /\ events' = events + 1
    /\ event' = e /\ caller' = "serial"
    /\ naming' = IF e.save /\ e.valid THEN Asked(e) ELSE NoSession
    /\ step' = IF saving /\ (NeedsStart(e) \/ ~e.save) THEN "stop image"
               ELSE IF NeedsStart(e) THEN "configure" ELSE "grab"
    /\ UNCHANGED <<saving, activeId, checked, storage, flow, day, uiSessions, source, processor>>

\* The start and stop buttons
UiGrab == /\ step = "idle"
          /\ caller' = "ui"
          /\ step' = IF source THEN "stop source" ELSE "start source"
          /\ UNCHANGED <<saving, activeId, checked, event, naming, storage, flow, clocks, source,
                         processor>>

\* Only the start of a call reads the date.
Midnight == /\ step = "idle" /\ day < MaxDays
            /\ day' = day + 1
            /\ UNCHANGED <<control, storage, flow, uiSessions, events, source, processor>>

-----------------------------------------------------------------------------
(* stopSaving() and startSaving()                                           *)

AfterSave == IF caller = "serial" THEN "grab" ELSE "idle"

StopImage == /\ step = "stop image"
             /\ image' = [image EXCEPT !.running = FALSE]
             /\ step' = "stop track"
             /\ UNCHANGED <<saving, activeId, checked, caller, event, naming, track, runs, flow,
                            clocks, source, processor>>

\* The end of stopSaving(), with what its caller does next
StopTrack == /\ step = "stop track"
             /\ track' = [track EXCEPT !.running = FALSE]
             /\ saving' = FALSE
             /\ step' = IF caller = "serial" /\ event.save THEN "configure" ELSE AfterSave
             /\ activeId' = IF caller = "serial" /\ ~event.save THEN NoSession ELSE activeId
             /\ UNCHANGED <<checked, caller, event, naming, image, runs, flow, clocks, source,
                            processor>>

\* Mutant: saving goes on although the track session could not be configured
ConfigureGoesOn ==
    /\ step = "configure" /\ ~image.running
    /\ image' = [image EXCEPT !.session = naming]
    /\ track' \in {[track EXCEPT !.session = s] : s \in {naming, NoSession}}
    /\ step' = "start image"
    /\ UNCHANGED <<saving, activeId, checked, caller, event, naming, runs, flow, clocks, source,
                   processor>>

\* Initialisation and configuration of the backends.  A running backend refuses;
\* a failure of the file system leaves the image session as it was, clears the
\* track session, and leaves what was configured before it.
Configure ==
    /\ step = "configure"
    /\ \/ /\ step' = AfterSave
          /\ UNCHANGED <<image, track>>
       \/ /\ ~image.running
          /\ image' = [image EXCEPT !.session = naming]
          /\ \/ /\ step' = AfterSave
                /\ track' = IF track.running THEN track ELSE [track EXCEPT !.session = NoSession]
             \/ /\ ~track.running
                /\ track' = [track EXCEPT !.session = naming]
                /\ step' = "start image"
    /\ UNCHANGED <<saving, activeId, checked, caller, event, naming, runs, flow, clocks, source,
                   processor>>

\* start() fails only before init(), which the same call has seen succeed: the
\* rollback of line 77 has no step here.
StartImage == /\ step = "start image"
              /\ image' = [image EXCEPT !.running = TRUE]
              /\ runs' = runs + 1
              /\ step' = "start track"
              /\ UNCHANGED <<saving, activeId, checked, caller, event, naming, track, flow, clocks,
                             source, processor>>

StartTrack == /\ step = "start track"
              /\ track' = [track EXCEPT !.running = TRUE, !.run = runs]
              /\ saving' = TRUE
              /\ activeId' = IF caller = "serial" THEN naming ELSE activeId
              /\ step' = AfterSave
              /\ spilled' = 0
              /\ UNCHANGED <<checked, caller, event, naming, image, runs, delivering, queue,
                             processing, frames, clocks, source, processor>>

-----------------------------------------------------------------------------
(* The end of onMasterControl(), startGrab() and stopGrab()                 *)

Grab == /\ step = "grab"
        /\ step' = IF event.grab = source THEN "idle"
                   ELSE IF source THEN "stop source" ELSE "start source"
        /\ UNCHANGED <<saving, activeId, checked, caller, event, naming, storage, flow, clocks,
                       source, processor>>

\* The source may fail to initialise.
StartSource == /\ step = "start source"
               /\ \/ processor' = TRUE /\ source' = TRUE
                  \/ UNCHANGED <<processor, source>>
               /\ step' = "idle"
               /\ UNCHANGED <<saving, activeId, checked, caller, event, naming, storage, flow,
                              clocks>>

\* stop() joins the source's thread, and then the processor's.
StopSource == /\ step = "stop source" /\ delivering = <<>>
              /\ source' = FALSE
              /\ step' = "stop processor"
              /\ UNCHANGED <<saving, activeId, checked, caller, event, naming, storage, flow,
                             clocks, processor>>

\* The frames in the channel stay there.
StopProcessor == /\ step = "stop processor" /\ processing = <<>>
                 /\ processor' = FALSE
                 /\ step' = "idle"
                 /\ UNCHANGED <<saving, activeId, checked, caller, event, naming, storage, flow,
                                clocks, source>>

ControlStep == StopImage \/ StopTrack \/ Configure \/ StartImage \/ StartTrack \/ Grab
                 \/ StartSource \/ StopSource \/ StopProcessor

-----------------------------------------------------------------------------
(* The frames                                                               *)

ImageRun == IF image.running THEN runs ELSE 0

\* The callback gives the frame to the image backend first ...
Deliver == /\ source /\ step # "stop source"
           /\ delivering = <<>> /\ frames < MaxFrames
           /\ frames' = frames + 1
           /\ delivering' = <<ImageRun>>
           /\ UNCHANGED <<control, storage, queue, processing, spilled, clocks, source, processor>>

\* Mutant: a full queue grows
SubmitAlways == /\ delivering # <<>>
                /\ queue' = queue \o delivering
                /\ delivering' = <<>>
                /\ UNCHANGED <<control, storage, processing, frames, spilled, clocks, source,
                               processor>>

\* ... and then to submitFrame(), which a full channel refuses.
Submit == /\ delivering # <<>>
          /\ queue' = IF Len(queue) < Capacity THEN queue \o delivering ELSE queue
          /\ delivering' = <<>>
          /\ UNCHANGED <<control, storage, processing, frames, spilled, clocks, source, processor>>

Take == /\ processor /\ step # "stop processor"
        /\ processing = <<>> /\ queue # <<>>
        /\ processing' = <<Head(queue)>>
        /\ queue' = Tail(queue)
        /\ UNCHANGED <<control, storage, delivering, frames, spilled, clocks, source, processor>>

\* The TrackResultEvent of a frame and its subscriber
Publish == /\ processing # <<>>
           /\ processing' = <<>>
           /\ spilled' = IF track.running /\ Head(processing) \notin {0, track.run}
                         THEN spilled + 1 ELSE spilled
           /\ UNCHANGED <<control, storage, delivering, queue, frames, clocks, source, processor>>

Next == \/ CheckBox \/ ClearBox \/ UiGrab \/ Midnight
        \/ \E e \in {f \in Events : f.save \/ f.valid} : MasterControl(e)
        \/ ControlStep
        \/ Deliver \/ Submit \/ Take \/ Publish

Spec == Init /\ [][Next]_vars
-----------------------------------------------------------------------------
(* Properties                                                               *)

Steps == {"idle", "stop image", "stop track", "configure", "start image", "start track",
          "grab", "start source", "stop source", "stop processor"}

\* Type invariant
TypeOK == /\ saving \in BOOLEAN /\ checked \in BOOLEAN
          /\ activeId \in MasterSessions \cup {NoSession}
          /\ naming \in Sessions \cup {NoSession}
          /\ image \in [running : BOOLEAN, session : Sessions \cup {NoSession}]
          /\ track \in [running : BOOLEAN, session : Sessions \cup {NoSession}, run : Nat]
          /\ step \in Steps /\ caller \in {"ui", "serial"} /\ event \in Events
          /\ source \in BOOLEAN /\ processor \in BOOLEAN
          /\ day \in 0..MaxDays /\ runs \in Nat
          /\ uiSessions \in 0..MaxUiSessions /\ events \in 0..MaxEvents
          /\ frames \in 0..MaxFrames
          /\ \A q \in {delivering, queue, processing} : q \in Seq(Nat)
          /\ Len(delivering) <= 1 /\ Len(processing) <= 1 /\ Len(queue) <= Capacity
          /\ spilled \in Nat

\* Half a storage service is never left behind (docs/module-app.md:267): between
\* two calls both backends run or neither does, as isSaving() says, whatever
\* failed; while both run they write the same session.
BothOrNeither ==
    step = "idle" => /\ saving <=> image.running
                     /\ saving <=> track.running
                     /\ saving => image.session = track.session /\ image.session # NoSession

\* The session that the window shows is the one both backends write.
SavingInv == TypeOK /\ BothOrNeither

\* After an event of the master control that asks for saving, the session it asks
\* for is the one saved, unless the backends failed to start or the Save box
\* has begun a session of its own; after one that does not, nothing is saved.
MasterObeyed ==
    (step = "idle" /\ caller = "serial") =>
        /\ saving => event.save
        /\ (saving /\ event.valid) => image.session \in {naming} \cup UiSessions

\* Nothing clears the channel when the session changes: results of frames saved
\* in an earlier run reach the track file of a later one, but no more of them
\* than fit into the callback, the channel and the processing thread.
SpillBounded == spilled <= Capacity + 2

=============================================================================
