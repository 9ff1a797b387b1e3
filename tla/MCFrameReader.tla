---------------------------- MODULE MCFrameReader ----------------------------
(***************************************************************************)
(* FrameReader on small instances.  The frames are chosen at the edges of  *)
(* each header field and of the 8-bit payload counter.                     *)
(***************************************************************************)
EXTENDS FrameReader

Frame(type, streamID, length) ==
    [type |-> type, flags |-> 1, reserved |-> 0, streamID |-> streamID,
     length |-> length, decodes |-> TRUE]

(* Frames that are read whole: no payload, one byte, sizes around six and  *)
(* the largest payload the counter can count, with stream identifiers that *)
(* use every byte of the field.                                            *)
ReadableFrames ==
    { Frame(DATA, 16909060, 255),
      [Frame(DATA, 2147483647, 1) EXCEPT !.reserved = 1],
      Frame(HEADERS, 65793, 3),
      Frame(SETTINGS, 0, 0),
      Frame(SETTINGS, 0, 6) }

(* Frames that end the connection, one refused by FrameReader::pump and    *)
(* one by FrameReader::frame,                                              *)
UnreadableFrames ==
    { Frame(CONTINUATION, 1, 2),
      [Frame(HEADERS, 1, 2) EXCEPT !.decodes = FALSE] }

(* the SETTINGS frame whose size is no multiple of six, *)
OddSettings == Frame(SETTINGS, 0, 5)

(* and a payload one byte too long for the counter. *)
LongFrame == Frame(DATA, 1, 256)

MCFrames == ReadableFrames \cup UnreadableFrames \cup {OddSettings}
MCLongFrames == {Frame(DATA, 1, 1), LongFrame}
MCPayloadBytes == {0, 77}
=============================================================================
