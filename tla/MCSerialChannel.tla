-------------------------- MODULE MCSerialChannel --------------------------
(* Frames of three bytes: a payload that is no delimiter, and one that looks*)
(* like the tail, with which a shifted block can look like a frame.          *)
EXTENDS SerialChannel

CONSTANTS h, t, x

MCPayloads == {<<x>>, <<t>>}

MCBadPayloads == {<<t>>}

=============================================================================
