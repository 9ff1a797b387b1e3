---------------------------- MODULE MCFrameWriter ----------------------------
(***************************************************************************)
(* FrameWriter on the frames the server writes.                            *)
(***************************************************************************)
EXTENDS FrameWriter

Frame(type, flags, streamID, length) ==
    [type |-> type, flags |-> flags, reserved |-> 0, streamID |-> streamID,
     length |-> length, decodes |-> TRUE]

(* SETTINGS of one setting, of two, and its acknowledgement, PING,         *)
(* RST_STREAM, response headers longer than 255 bytes, trailers, a         *)
(* response without a message and the longest message the loop of DATA can *)
(* count.                                                                  *)
MCFrames ==
    { Frame(SETTINGS, 0, 0, 6), Frame(SETTINGS, 0, 0, 12), Frame(SETTINGS, 1, 0, 0),
      Frame(PING, 1, 0, 8), Frame(RST_STREAM, 0, 255, 4), Frame(HEADERS, 4, 1, 300),
      Frame(HEADERS, 5, 255, 14), Frame(DATA, 0, 1, 5), Frame(DATA, 0, 255, 255) }

MCLongFrames == {Frame(DATA, 0, 1, 256)}
=============================================================================
