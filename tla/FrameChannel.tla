---------------------------- MODULE FrameChannel ----------------------------
(***************************************************************************)
(* What the byte pump promises the rest of the program: a reliable, ordered*)
(* channel of whole frames that stops for good at the first frame the      *)
(* program cannot read.  There are no bytes here.                          *)
(***************************************************************************)
EXTENDS Wire

VARIABLES
    sent,       \* the frames the peer has put on the wire
    connState,  \* "Connected", "Failed" or, after a null frame, "Undefined"
    frames      \* the frames handed to the dispatch

vars == <<sent, connState, frames>>

(* The frame the channel has to deal with next. *)
NextNo == Len(frames) + 1

Send(f) ==
    /\ Len(sent) < MaxFrames
    /\ sent' = Append(sent, f)
    /\ UNCHANGED <<connState, frames>>

Deliver ==
    /\ connState = "Connected"
    /\ NextNo <= Len(sent)
    /\ ~Unreadable(sent[NextNo])
    /\ frames' = Append(frames, Whole(NextNo, sent[NextNo]))
    /\ UNCHANGED <<sent, connState>>

(* The first frame the program cannot read; what becomes of it is not for  *)
(* the channel to say.                                                     *)
Stop ==
    /\ connState = "Connected"
    /\ NextNo <= Len(sent)
    /\ Unreadable(sent[NextNo])
    /\ connState' \in {"Failed", "Undefined"}
    /\ UNCHANGED <<sent, frames>>

Init == sent = <<>> /\ connState = "Connected" /\ frames = <<>>

Next == (\E f \in Frames : Send(f)) \/ Deliver \/ Stop

Spec == Init /\ [][Next]_vars
=============================================================================
