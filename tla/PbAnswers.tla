----------------------------- MODULE PbAnswers -----------------------------
(***************************************************************************)
(* The answers of a handler (encodeResponse of the examples): a structure  *)
(* to a buffer, of whatever size the handler has.                          *)
(***************************************************************************)
EXTENDS PbEncode

CONSTANTS
    Framings,     \* flags of pb_encode_ex and pb_decode_ex
    Slack         \* buffers are up to so much larger than the answer

VARIABLES
    type,     \* the type of the messages
    flags,    \* how they are framed
    sent      \* the last encoding: structure, size of the buffer, stream, stream just sizing

ASSUME SlackAssumption == Slack \in Nat

None == [none |-> TRUE]

-----------------------------------------------------------------------------
EncodeAnswer(struct) ==
    /\ \E sizing \in {PbEncodeEx(Sizing, type, struct, flags)} :
          \E bufsize \in 0..(sizing.bytes_written + Slack) :
             \E stream \in {PbEncodeEx(PbOstreamFromBuffer(bufsize), type, struct, flags)} :
                sent' = [struct |-> struct, bufsize |-> bufsize, stream |-> stream,
                         sizing |-> sizing]
    /\ UNCHANGED <<type, flags>>

(* Something else is done. *)
Turn == sent' = None /\ UNCHANGED <<type, flags>>

AnswersInit ==
    /\ type \in DOMAIN Descriptor
    /\ flags \in Framings
    /\ sent = None

AnswersNext == (\E struct \in Structures[type] : EncodeAnswer(struct)) \/ Turn

AnswersSpec == AnswersInit /\ [][AnswersNext]_<<type, flags, sent>>

-----------------------------------------------------------------------------
(* "sizing" is what pb_get_encoded_size computes. *)
ExactlyFits(stream, sizing, bufsize) ==
    /\ stream.bytes_written <= bufsize
    /\ Len(stream.buf) <= bufsize
    /\ sizing.errmsg = "" =>
          /\ stream.errmsg = "" <=> bufsize >= sizing.bytes_written
          /\ stream.errmsg = "" => Len(stream.buf) = sizing.bytes_written
    /\ sizing.errmsg # "" => stream.errmsg # ""

(* A structure that can be encoded is, into any buffer that is as long as  *)
(* pb_get_encoded_size and the framing say, and into no shorter one; the   *)
(* bytes written are those, and never more than the buffer has, also when  *)
(* a submessage, its size or its length do not fit.                        *)
SizesAgree ==
    sent # None =>
        ExactlyFits(sent.stream, sent.sizing, sent.bufsize)
=============================================================================
