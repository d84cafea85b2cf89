---------------------------- MODULE MCProcessing ----------------------------
(* The processing thread and the tracking strategies.  They meet in one     *)
(* call: ImageProcessor has it as the step of a worker that feeds a tracker, *)
(* under a lock, and Trackers as one frame.  Neither reads the other's       *)
(* state, so the run explores each of them while the other is at rest.       *)
EXTENDS ImageProcessor, MCTrackers

ProcessingInit == Init /\ TrackersInit

ProcessingNext == \/ TrackersInit /\ Next /\ UNCHANGED trackersVars
                  \/ Init /\ TrackersNext /\ UNCHANGED vars

ProcessingSpec == /\ ProcessingInit /\ [][ProcessingNext]_<<vars, trackersVars>>
                  /\ Fairness

=============================================================================
