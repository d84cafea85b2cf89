----------------------------- MODULE FrameCodec -----------------------------
(* include/dss/comm/frame_codec.h: serial frames have a fixed length, begin *)
(* with a header byte and end with a tail byte, and carry no checksum.       *)
EXTENDS Integers, Sequences

CONSTANTS HEADER, TAIL   \* FrameHeader 0x7E and FrameTail 0xE7

\* Mutant: the last byte is not looked at
FailureOfHead(data, expected) ==
    CASE Len(data) # expected      -> "SizeMismatch"
      [] data[1] # HEADER          -> "HeaderMismatch"
      [] OTHER                     -> "None"

Failure(data, expected) ==
    CASE Len(data) # expected      -> "SizeMismatch"
      [] Len(data) < 2             -> "TooShort"
      [] data[1] # HEADER          -> "HeaderMismatch"
      [] data[Len(data)] # TAIL    -> "TailMismatch"
      [] OTHER                     -> "None"

Valid(data, expected) == Failure(data, expected) = "None"

\* Overwrites both ends of a buffer whatever they were; an empty one stays empty.
Wrap(buffer) == IF buffer = <<>> THEN buffer
                ELSE [buffer EXCEPT ![1] = HEADER, ![Len(buffer)] = TAIL]

=============================================================================
