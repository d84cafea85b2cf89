------------------------- MODULE MCReplayViewModel -------------------------
(* File lists for the run of ReplayViewModel: a list with an unreadable    *)
(* file in its middle, and one with nothing else.                           *)
EXTENDS ReplayViewModel

CONSTANTS a, b, broken

MixedLists == {<<a, broken, b>>, <<broken>>}

=============================================================================
