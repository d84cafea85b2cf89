----------------------------- MODULE MCTrackers -----------------------------
(* Blobs on the even ones of sixteen half pixels.  Two objects approach      *)
(* each other and meet at 8; either may be missing, or all, or a third seen. *)
EXTENDS Trackers

MCViews == {{}, {2, 14}, {4, 12}, {6, 10}, {8}, {10}, {4, 8, 12}}

MCStarMotions == {0}

=============================================================================
