# arduino-grpc in TLA+

A verification project for the gRPC server of this repository: models of its
code in TLA+, the instances TLC checks them on, and proofs for TLAPS. Paths are
relative to `src/`; "the peer" is whatever is at the other end of a connection,
"a client" is a peer that keeps to HTTP/2 and to gRPC over it.

## The system

The program is single-threaded. A sketch's `loop()` accepts clients, makes a
`Connection` for each and calls `GRPCServer::runOnce`, which reads bytes from
every connection's transport and *pumps* them into the connection one by one.

| part | state | operations | what makes it correct |
|---|---|---|---|
| `FrameHeaderReader`, `FrameReader` | position, header so far, payload and bytes left | `pump(byte)`, `frame()` | frames come out whole, in order, from their own bytes; the first unreadable one is the last |
| `Connection` | `connState`, `prefacePos`, `prefaceSettingsAckd`, its `Stream` objects | `pump(byte)`, `writeFrame`, the table of streams | nothing is served before the preface and the SETTINGS acknowledgement; the table holds live streams of this connection |
| `GRPCServer`, `GRPCStream` | connections, handlers, one table of calls for all connections | registration, `runOnce`, the three `StreamHandler` callbacks | each request gets one answer, its own, on its own stream; no call outlives its stream |
| `Frame` and its subclasses | the frame | `write(transport)` | the bytes written are the frame, and writing ends |
| HPACK, Huffman, `utils/net` | constant tables | `encodeHeaderFieldsLen`, `encodeHeaderFields`, `decodeHeaderFields` | the two passes of the encoder agree; what is written is a header block of RFC 7541; what a peer writes is read as the RFC says |
| nanopb (`examples/gen/pb_*`) | descriptors, the caller's structure | `pb_encode_ex`, `pb_decode_ex` | sizes agree with what is written; both directions keep to the language guide; nothing is left of the message before |
| the examples' `loop()` and `main()` | the sketch's own list of connections | accept, reap, poll | both lists agree, dead clients go, live ones are polled |

A `Connection` calls the server back (`newStream`, `streamData`, `rstStream`)
in the middle of the byte that completes a frame, and the server writes through
the `Stream` to the `FrameWriter`, which is the connection again. What is hard
here: raw pointers in three tables (`Connection::streams`, `GRPCServer::streams`,
the heap), freed in one and compared in another; the frames of several clients
interleaved; a client that pipelines before its acknowledgement, cancels, or
leaves and is replaced by one at the same address; narrow integers; framing
state that leaks from a frame into the next. There is no timeout, retry or
persistence in the code. Every such place is listed in `PROJECT.json` under
`hazards`, with the properties that watch it.

## Modules

| module | models | extends |
|---|---|---|
| `Http2` | frame types, status codes, conversion to `uint8_t` | |
| `Wire` | frames byte by byte, and what `FrameReader::frame` makes of each | `Http2` |
| `FrameReader` | `FrameHeaderReader::pump`, `FrameReader::pump`, `frame()`, `resetFrame`, one byte per step | `Wire` |
| `FrameChannel` | abstract: a channel of whole frames that stops at the first unreadable one | `Wire` |
| `FrameWriter` | `writeFrame`, `Frame::write` and `writePayload`, one byte per step | `Wire` |
| `Connection` | `Connection::pump` frame by frame, the table of streams, the heap | `Http2` |
| `GRPCServer` | `grpc_server.cpp` and `grpc_stream.cpp`; peers send anything | `Connection` |
| `UnaryCall` | abstract: calls that end once at most, and how they may end | |
| `UnaryClient` | `GRPCServer` with clients that keep to the protocol; implements `UnaryCall` | `GRPCServer` |
| `ServerLoop` | `loop()`, `main()` and `runOnce` in their order, byte by byte, and the network | |
| `NetIntegers` | `utils/net.cpp`, `utils/result.h` | |
| `Huffman` | `huffman.cpp` with the whole code of `tables.cpp` | `NetIntegers` |
| `Hpack` | `hpack.cpp` with the whole static table | `Huffman` |
| `HeaderBlocks` | header blocks of the server and of a peer that keeps to RFC 7541, encoded and decoded field by field | `Hpack` |
| `Pb` | descriptors, structures, the field iterator, words of n bits | `NetIntegers` |
| `PbDecode`, `PbEncode` | `pb_decode.c`, `pb_encode.c` for fields of static allocation | `Pb` |
| `PbAnswers` | a handler's answers: structures to buffers of any size | `PbEncode` |
| `Protobuf` | its requests as well: a peer's messages, and one structure to decode them into | `PbAnswers`, `PbDecode` |
| `FrameReaderProofs`, `FrameWriterProofs` | proofs about the module of that name | |
| `UnaryClientProofs` | proofs about `GRPCServer`, and from them about `UnaryClient` | |
| `ServerLoopProofs`, `HeaderBlocksProofs`, `PbAnswersProofs` | proofs about the module of that name, with instances of `FoldLaws` | |
| `HeaderDecodingProofs` | proofs about the decoder of `HeaderBlocks`, from those about the coders | `HeaderBlocksProofs` |
| `FoldLaws` | induction on naturals over sets, the existence of recursive functions, and the laws of `FoldLeft` for an operator, instantiated per fold | |
| `MC...` | instances for TLC | |

How the state corresponds to the code:

* `FrameReader`. `reader` is `currFrameReader` with its `FrameHeaderReader`
  inside; `reading` stands for the flags `readingHeader` and `readingPayload`.
  Payload bytes are named by the frame and position they come from, so
  `FrameIntegrity` says from which bytes a payload was assembled. A byte of a
  payload that is read as a header has any value of `PayloadBytes`. For a SETTINGS frame of
  odd size the code logs a failure, returns a null frame and dereferences it: the state `Undefined`. `FailsForCause`
  says that such a frame stops the connection, and leaves open which of the two it is.
* `Connection` and `GRPCServer`. `heap` is the memory of the `Stream` objects:
  an address is free (`Null`) or holds one, and `new` takes any free address, so
  reuse of addresses is covered. `connState` is `"Deleted"` at an address without
  a `Connection`. `prefaceSettingsAckd` is the set of connections whose flag is
  true, `connections` a set (the code adds each object once and the order of
  polling is not modelled here). `written` is what the step wrote, `called` the
  handler call it made. `Disconnected` is never assigned by the code and does not
  occur. A peer's frames include the SETTINGS of odd size (`sixes`): `NullFrame` makes the
  connection `Undefined`, and since the program may do anything from there, the model stops (`Defined`).
* One step of `GRPCServer` is one byte of the preface or one whole frame.
  Bytes inside a frame change only the `FrameReader`, and `FrameReader`
  implements `FrameChannel`: that is why the wire of `UnaryClient` is a queue of
  frames. A header block is one that decodes, with or without `:path`, or one
  that does not; a peer may send each at any time, so a frame whose padding or
  priority fields the code misreads as HPACK is among them.
* `UnaryClient` adds what each client did (`call`) and the frames it was sent (`received`).
  `RefinesCalls` maps them (`Outcome`) to `UnaryCall`, which knows no frame, stream or table:
  every step of the server is a step of the calls or none. `Unserved` names what a client may use by the
  protocol and the server does not read: a header block that refers to the dynamic table, sent before the server's
  SETTINGS was seen, or has a priority (`"reference"`), one that goes on in a CONTINUATION frame, and GOAWAY. The first such frame
  fails the connection, in front of the gate of `connection.cpp:67` as behind it, and what the client sends after it is
  discarded; the properties of a call hold of these clients too, but nobody settles their calls.
* `ServerLoop`. `platform` chooses the program: the sketch, whose `accept()` does
  not wait and which reaps, or the unix server, whose `accept()` waits and is
  called once. `pc` is the place in `loop()`, `polled` the iterator of `runOnce`.
  `connections` is the sketch's list and `served` the server's. Each statement that changes one of them is a
  step: `RemoveDead`, `Delete` and `Erase` (`server.ino:81` to `84`), `Add` and `Serve` (`89` to `91`); the
  two deletes of lines 82 and 83 are one, and `ListsAgree` says by which connection the lists differ in between.
  Of a `Connection` the model keeps what decides `pump`'s result: whether
  the preface is complete, the place in the frame, and `Failed`. The network
  moves between any two steps of the program. A peer is `away`, `waiting` to be accepted or `open`.
  A socket whose client has gone may be given to a new one while a connection still has it, as `EthernetServer` may and
  `server.ino:78` gives it the time to: `reused` remembers these sockets. The old connection is then
  `connected()` again and takes part of the new client's bytes, so `InStep` and `GoneAreReaped`, which cannot
  hold of such connections, except them; `TypeOK`, `ListsAgree` and `EveryonePolled` do not. On unix a socket stays open, and
  is not given out again.
* `HeaderBlocks`. One step encodes or decodes one field. `meant` is what the
  block stands for, worked out from the RFC (`Ref...`, `Meaning`) and not from
  `hpack.cpp`; the only thing both share is the table of the code, which is data.
* `Protobuf`. `dest` is the structure a handler decodes into, used again for
  each request; `sent.bufsize` (in `PbAnswers`) takes every value from 0 to one more than the
  message needs. An integer of the C program is the sequence of its bits, so casts and
  overflow are those of C. What a message says (`RefContents`), and whether it is one
  (`RefValid`), is defined from the language guide as a map from tags to values; a bool of more than
  32 bits is one if they are those of a smaller number, zero or sign extended, which is where the code refuses it and the guide does not say.
* `FrameWriter` uses `Wire` with the server as the sender. `f.length` is the length that HTTP/2 gives the contents of a frame;
  `PayloadLength` is what the header says, by the class of the frame, and `Turns` and `TurnSize` are what the loop of its `writePayload`
  writes, a byte per step: that the two functions agree is part of `InStep`. Identifiers are
  narrowed where the frame is constructed (`Out` in `Connection`). Of padding, which no caller sets, the code counts one byte of length
  and would write four (`data_frame.cpp:13`); `ServerFramesAssumption` has none.

A definition `Name_What` before a definition `Name` is a variant of it with a bug that
a change could bring in; nothing uses it. With `Name` replaced by it, the property named for the pair
in `PROJECT.json` under `mutants` fails, which shows that the property depends on
that line of the code:

| variant | the bug | noticed by |
|---|---|---|
| `U8_SevenBits`, `U8_OneMore` | a count too small, too large | `FrameIntegrity`; `Delivered` |
| `NewHeader_Dirty`, `NewReader_Skewed` | a reader that does not start from zero | `FrameReader`'s `TypeOK`; `FailsForCause` |
| `ResetFrame_Forgotten` | the reader is not replaced | `Aligned`, `RefinesChannel` |
| `InPayload_OneMore`, `NextTurn_Stuck`, `OutHeaderByte_Short` | `<=` in the loop, no increment, a byte of the length lost | `FrameWriter`'s `TypeOK`; `WritesEnd`; `RefinesChannel` |
| `PayloadLength_ShortSetting` | a setting counted as five bytes and written as six | `FrameWriter`'s `InStep` |
| `AllocateStream_NoWriter` | the constructor forgets `frameWriter` | the other `TypeOK`s |
| `DeallocateStream_NoErase`, `DeallocateStream_NoDelete` | the pointer stays, the object stays | `StreamOwnership`; `LostOnlyWithConnection` |
| `Dispatched_Unacknowledged` | no gate | `NothingBeforeAck`, `RefinesCalls` |
| `RemoveConnection_NoErase` | the deleted connection stays listed | `ListsAgree` |
| `FindStream_ById` | calls found by identifier, not by pointer | `WritesToLive`, `Isolation`, `AnswerMatchesRequest` |
| `NewStream_NoReturn`, `NewStream_Silent` | an unknown method gets a call all the same; gets no error | `OneOutcome`; `CallsSettle` |
| `ResetStream_Forgotten`, `Data_NoEnd` | the end of a stream is ignored | `CallsLive`; `TableMatchesCalls` |
| `NextPlace_NoReset` | the place in the frame is not reset | `ServerLoop`'s `TypeOK` |
| `PollByte_Twice` | a second byte is read and dropped | `ServerLoop`'s `InStep` |
| `MoreAfter_Always` | `pump` asks for more after every byte | `EveryonePolled` |
| `Reap_WhenAsked` | the scan runs only for a new client | `GoneAreReaped` |
| `HuffmanEncodeLength_Down`, `HuffmanEncode_NoEOS` | bits rounded down to bytes; no padding | `FitsBuffer`; `PeerReads` |
| `GetIndexedField_OffByOne` | a table counted from 0 read from 1 | `HeaderBlocks`' `DecodesMeaning` |
| `PbWrite_Overrun` | the space left is checked without the bytes to come | `SizesAgree` |
| `PbEncVarint_Unextended` | a negative integer is not extended to 64 bits | `WritesMeaning` |
| `PbFieldSetToDefault_Stale` | `has_` keeps its value | `Protobuf`'s `DecodesMeaning` |

## Runs

| run | bounds | shows |
|---|---|---|
| `frame_reader` | 8 frames at the edges of every field, 3 sent | refinement of `FrameChannel`, alignment, delivery |
| `frame_writer` | 9 frames of the kinds the server writes, 2 in a row | the peer reads what was written; writing ends |
| `grpc_server` | 2 connections, 3 addresses, identifiers 0 and 257, any frames | pointer and isolation properties |
| `unary_client` | 1 address for connections, 2 connections made, calls 1 and 3, GOAWAY, handlers succeed or fail | what a client sees; refinement of `UnaryCall` |
| `unary_peers` | 2 connections made at 2 addresses, call 1 on each, of one method, header blocks the server does not read among them, handlers succeed | the answers of two clients, and that every request settles |
| `server_loop` | both programs, 2 sockets and 2 addresses (`Room`: a client comes when there is an address left for it), a preface of 1 byte, frames of 2, 2 bytes unread at a socket | the two lists, no byte lost, nobody starves, who is reaped when |
| `hpack` | the server's fields of every kind with every byte but zero and every pair of code lengths as values, and strings around the lengths at which integers grow; a peer's blocks of every form and index, 1 to 62, of which the decoder may refuse 61 and 62 | header blocks in both directions |
| `protobuf` | the example's message and four types that have each kind of field, 2 messages in a row, every pair of a peer's records, 3 framings | messages in both directions |

The bounds are enough because the code compares addresses, identifiers and
names for equality only and each error needs few of them: two streams to
confuse, a third address so that one is free while both are in use, one
connection made at the address of another. Three frames suffice for framing
because a reader carries nothing further than into the next frame (`Aligned`).
The preface is cut to one or two bytes: its only states are "not finished" and
"finished". `MaxFrames`, `MaxConnects`, the addresses (no `HEADERS` when the
heap is full) and the single registration of each handler are the bounds in guards.
Symmetry permutes connection and Stream addresses, which the code only compares,
and is not used where liveness is checked.

The coders carry no state from one field to the next but the bytes left, so a
header block of a few fields is enough once each field is at the edges: all
lengths of code, all bytes, all indices, lengths at 126 to 128 and 254 to 256
where an integer takes a byte more, and 201 to 206, where the Huffman code of
five-bit letters crosses 127 bytes. In `protobuf` the second message of a row finds the structure as
the first left it, with everything set (`Early`), and pairs of records are what
merging, overriding, the switch of a oneof and the split of a packed array need.
Two sockets in `ServerLoop` make the older and the younger connection of every
question about order; with two bytes per frame a client can stop in the middle.

Deadlock is checked in `server_loop`. In `grpc_server` the model stops at a null pointer, and in the other runs the
bounded peers stop sending, so those configurations turn it off.

**Fairness.** `WF_vars(Pump)`, `WF_vars(Write)` and `WF_allVars(Serve(c))` for each
connection: `loop()` runs for ever, `runOnce` visits every connection and reads if a
byte is available, and `writeFrame` waits for nothing. No fairness is assumed
of a peer. In `ServerLoop` it is `WF_vars(Loop)`: the Arduino core calls `loop()`
again and again, `main()` has a loop of its own, and when `main()` waits in
`accept()` the step is not enabled. That `runOnce` is reached again presupposes that handlers return and
that writes end, which `WritesEnd` checks.

### Disagreements

Four runs find the code at odds with what it or its documentation says; each checks one property
and is expected to fail. `PROJECT.json` quotes the lines.

| run | what happens |
|---|---|
| `frame_reader_long` | the payload length is counted in 8 bits: a 256-byte payload loses the frame boundary |
| `frame_writer_long` | the loop of `DataFrame::writePayload` counts in 8 bits: 256 bytes are written for ever |
| `unary_wide_id` | output frames carry 8 bits of the stream identifier: the answer on stream 257 goes to stream 1 |
| `unary_halves` | every DATA frame is taken for a whole request: two frames, two answers; the second may be empty, and its length less the prefix wraps |

The passing runs exclude exactly these inputs: payloads and responses of up to 255 bytes,
identifiers below 256 for the answers, one DATA frame per request.

What the models show besides, at the lines `PROJECT.json` lists under `hazards`:
a SETTINGS frame of odd size is logged as a failure and returned as a null
frame, which is dereferenced (`Undefined`); frames before the
acknowledgement are decoded before they are dropped, so a client that indexes
header fields before it has seen the server's SETTINGS fails its own connection
(`Unserved` of `UnaryClient`); a client given the socket of a dead connection that is not reaped yet shares its bytes
with it (`reused` of `ServerLoop`); a connection in `Failed` returns true for every byte, so a
client that goes on sending keeps `runOnce` to itself (`HeldByFailed`, the condition in the
two liveness properties of `ServerLoop`); the unix server never reaps; index 61
of the static table is refused (`DecodesMeaning` allows for it, so it shows what is wrong next to that index and not the refusal); and a fixed
count array that a message does not have keeps what the structure held before, also
after the defaults are set, where `pb_decode.h:62` says that `pb_decode` initializes
all fields of the destination structure (`Untouched`).

## Proofs

`FrameReaderProofs` proves, for any set of frames under the assumption
`Countable` (payloads of at most 255 bytes, the bound `frame_reader_long` shows to be
necessary) and any number of them:

* `Integrity`, `StaysAligned`, `FailsOnlyForCause`, `TypeCorrect`: `FrameIntegrity`, `Aligned`,
  `FailsForCause` and `TypeOK` are invariants. `FrameIntegrity` is not inductive; `Aligned` is
  what it needs: the header so far is the prefix of the one on the wire, and the counter is the
  number of bytes still to come. The header of an incomplete frame is described by
  `HeaderPrefix`, and one lemma per byte position says that `PumpHeader` extends it.
* `Refinement`: `FrameReader` implements `FrameChannel`. A byte that completes a
  readable frame is `Deliver`, one that fails the connection is `Stop`, the
  others stutter.

The first part of `UnaryClientProofs` proves, for any connections, addresses, identifiers,
handlers and frames, the invariants `TypeOK`, `StreamOwnership`, `NothingBeforeAck` and `CallsLive` of `GRPCServer`, and the action property
`WritesToLive`. Together with `PrefaceUnfinished` (a connection in `Started` has
bytes of the preface to come) and `ServedAreLive` (the server's list is the connections that exist) they are inductive; singly they are not: that
closing a stream leaves no dangling `GRPCStream` (`CallsLive`) needs that the
stream found is in its connection's table and nowhere else
(`StreamOwnership`), and `WritesToLive` needs the `frameWriter` of the stream
found. The argument follows the code: `GetStreamFacts` and `FindStreamFacts` say what the
searches return, `AllocateTables`, `NewStreamTables` and `CloseTables` what opening and
closing a stream do to the three tables, and then there is a lemma per action.

It adds the action properties `Isolation` and
`LostOnlyWithConnection`, from one lemma per action (`NextShape` joins them): a step
changes what is kept for one connection at most. That the view
of every other connection stays as it was needs `StreamOwnership` for the heap
and `CallsLive` for the vector of calls, which all connections share: erasing one entry
moves the others, and `HandlerIn` of any other stream is the same before and after.

`FrameWriterProofs` proves `InStep`, `TypeOK` and the refinement of `FrameChannel` for any
frames under `Countable` (DATA of up to 255 bytes; `frame_writer_long` shows what happens
else) and, for the refinement, `AllReadable`: the server writes only types the channel
delivers. The inductive invariant says that while a frame is under way the peer holds exactly
its first `pos` header bytes or all of the header and what the first `i` turns and `part` more bytes are of its payload
(`UnderWay`), and that after the last of them it holds the frame (`Arrived`). `Sizes` says that `payloadLength` counts what the
loop of `writePayload` writes, for every kind of frame, and `TurnsFill` that the payload is whole when the loop is at its end and not before.

`ServerLoopProofs` proves `TypeOK` and `ListsAgree` for both programs, any sockets and addresses, and
any behaviour of the network, sockets given out again included. There is a lemma for each of the statements, and what joins them is
that something is in the list to be removed or has just been made (`InHandIsThere`) and that only the sketch comes to the
reaping scan (`OnlyArduinoReaps`). For the second part the same invariant holds, unless the socket is in `reused`, that it belongs to one
live object (`Taken`) and that the client just accepted has none yet (`ClientIsNew`).

That part proves `InStep`, for sockets that hold any number of bytes. `InStep` speaks of served
objects only; the invariant `StepInv` adds that the socket of a client without one holds
all it has sent (`Unread`), from before `accept()` until the object is made, and says nothing of `reused` sockets. The place after
the bytes on a socket is a fold: `PlaceLaws` gives what it is for one byte more at either end. That a byte
given to one object leaves every other as it was follows from `Taken`: two live objects read two sockets, or
one that is in `reused`.

`HeaderBlocksProofs` proves, for any fields, `FitsBuffer` and `PeerReads`, from the bottom up:

* `VarIntSizes`, `IntegersMatch`: `writeVarInt` writes as many bytes as `varIntSize` counts, and the RFC's
  integer. The loop that shifts by seven is a recursive function (`Sevens`); the RFC's digits are a closed form.
* `AppendBitsValue`: what `appendByteToHuffmanCode` adds is the bits of the code, byte by
  byte, wherever in its last byte the encoder is. `HighByteAt` and `LowByteAt` say which eight bits the two shifts keep.
* `HoldsSteps`, `EncodingHolds`: the encoder's invariant. The bytes so far are the bits so far (`RefBits`), with
  `rembits` zeros at the end; the step over a string is the one over a byte, by the laws of the fold.
* `HuffmanEncodeValue`, `EncodeStringValue`, `EncodeHeaderFieldValue`: the code, the string and the field are the
  RFC's and have the length that was counted for them.
* `SizeInv` (bytes written plus those counted for the fields to come are the buffer) and `BlockInv` (what is
  written is the RFC's block of the fields done; those to come are the rest of `meant`) are inductive.

The fields are those of `FieldListsAssumption`: names and values of fewer than 2^30 bytes, so that no length
leaves the `uint32_t` it is kept in, and none of them zero, which would end the C string. The sum over all fields is
kept in a `uint32_t` too; blocks of 4 GB are outside the model.

It goes on to the Huffman decoder, for strings of bytes of any length:

* `CodesBetween`, `CodesRanked`, `EndsGrow`: the code is canonical. Sorted by length, each code is the next number, doubled where
  the length grows (`Ends` is one past the last of each length, `Ranked` the bytes in that order). From
  this alone follows `PrefixFree`: no code is the beginning of another.
* `TreeLeaf`, `TreeInside`: the eight bits of a code that are next find the child on the code's way, and its last bits its
  leaf, whatever follows them. The leaf found is a `CHOOSE` over the leaves written to that place; that
  there is no other is `PrefixFree` (`OnlyOne`). The shifts of the tree and of the decoder are `OctetRange` and `ShiftIn`.
* `GoodAt`: the decoder's invariant. After `k` bytes it has put out the first `j` bytes of the string, is `e` nodes
  down the way of the next, and `cur` ends in the bits it has not used, whose place in the sent bits is the `j`th
  entry of `IsLayout` and `8 * e` bits more. `GoodFeedTurn` and `GoodFlushTurn` keep it turn by turn, `GoodTakenIn` byte by
  byte. Eight turns are as many as the loops of the code can make for a byte, since each turn uses a bit (`FeedType`).
* `OnesSent`, `Padding`: after the last code only ones are left, up to seven, and they are the beginning of a longer code, so
  `GoodFinish` ends with the string and without an error: `StringsAreDecoded`, and with the encoder's half `HuffmanRoundTrip`.

`HeaderDecodingProofs` proves `DecodesMeaning`, for any fields of the server and any representations of a peer:

* `IntegersAreRead`: what `RefInteger` writes after any flags is read by `readVarInt`, which leaves the bytes after it.
  The sum of the digits is a fold (`DigitSum`): after each of them what is missing is a multiple of the next weight.
* `ReadStringValue`: `readString` finds a string, coded or not, and leaves what follows.
* `DecodeDispatch`, `Dispatching`: the first byte chooses the parser the RFC means.
* `RepresentationUnderstood`, `FieldUnderstood`: each item of a block, a representation of a peer or a field of the server, is
  *understood*: whatever bytes follow, one turn of the loop of `decodeHeaderFields` adds the field it stands for, or none for a
  resize, and leaves those bytes; or it is refused, and then its index is past 60.
* `DecodingInv`: `DecodesMeaning` is not inductive, because it says nothing of the bytes still to be read. The invariant says
  that the block written so far is made of understood items, those of the list still to come make the rest of `meant` (`BeforeReading`), and
  that while it is read, `decoded` are the fields of the items read and `rest` the bytes of the others (`AfterReading`).

The peer's representations are those of `PeerListsAssumption`: indices and sizes of 31 bits, an indexed field with an
index other than 0 (RFC 7541 has no other), strings as above.

**Induction over data.** The induction theorems of the library take an operator as a parameter, which the
provers cannot instantiate. `FoldLaws` states what is needed over sets and functions instead:
`LeastNat` follows from the library's fact that the naturals are well-founded, `NatSetInduction` and
`NatSetStrongInduction` take a set in place of a predicate, and `RecursiveFunction` gives a function that satisfies its
recursive definition, so that the `CHOOSE` behind `f[n \in Nat] == ...` is known to find one.
The operator of a fold is a constant of the module, so that an `INSTANCE` of it is the laws of one fold
(`FoldEmpty`, `FoldAppend`, `FoldCons`, `FoldType`, `FoldWalk`); those of the numbers are cited from the instance for sums (`Adding`).

`UnaryClientProofs` then composes: `ServerOfClients` says that `UnarySpec` implements
`GRPCServer`'s `Spec`, so every theorem above about the server holds of the server these
clients talk to. Its invariant `UInv` adds to that of `GRPCServer` that the queues hold frames these clients can
send, none of them a SETTINGS of odd size, so that the server stays `Defined`; `UnaryTypeOK` is its second result.

From there it proves `OneOutcome`, `AnswerMatchesRequest` and `TableMatchesCalls` for
any number of clients, calls, handlers and frames under way, assuming what two of the disagreements
below the runs show to be necessary: identifiers of one byte (`OneByte`; `unary_wide_id` has one of two) and
requests of one DATA frame (`WholeRequests`; `unary_halves` has two). None of the three is
inductive. The invariant `OutcomeInv` relates, for each connection, the frames under way, the client's record of
its calls, what it has received, and the server's rows (a `Stream` with the handler of its `GRPCStream`):

* `QueueInv`, `HeadInv`: a frame under way says of its call what the client recorded, and
  before the HEADERS of a call there is nothing of it, neither in the queue nor at the server;
* `AckOnItsWay`, `EarlyBefore`, `EarlyUnlessAcked`: the acknowledgement is at the client, at the server or
  in the queue once, between the calls opened before and those opened after it. Refusals
  rest on this: a call is refused frame by frame or not at all;
* `TableInv`, `EndInv`: a row is of a call opened after the acknowledgement and has the handler of its method and
  no answer yet, and the frame that ends it is in the queue or the client has not sent it;
* `ReplyInv`: what is received is one of four shapes.

A failed connection discards what arrives, so the queue no longer says what became of a call. `ConnInv` therefore claims these facts of *some* queue,
which is the real one until the connection fails: the frame that fails it stays in it, and the client goes on adding to it what the server
will never read. What the server has and what the client was told fit that queue for ever.

`TakeRefused`, `TakeHeaders`, `TakeEnd` and `TakeSettings` say that the frame at the head of the queue keeps
all of it, on sequences alone; `HeadersRows`, `CloseRows` and `DataRows` what the
server's handlers do to the rows; `ServeFrameOwn` joins the two.

Last, it proves, from `OutcomeInv` and under the same assumptions, `RefinesCalls`: the whole
server with its clients implements `UnaryCall`. `FrameServed` says that the frame the server takes tells
nobody anything, or tells one call that it is refused (`Refuses`), that its method is
unknown (`Denies`) or its answer (`Answers`), and that the method is at that moment registered
or not, as `UnaryCall` asks. A refusal is a step `End` or, for the later frames of a refused
call, a stutter; the others are `End`. `CallsLive` gives that the handler of a `GRPCStream` is registered.

The assumptions are those named in the modules: `Null` is no address and no object,
identifiers are naturals, the preface is not empty, each handler has a name and `nullptr` is none; a
request is cut into at least one DATA frame, is not `Null`, and calls use identifiers other than 0; a frame
has two bytes at least and no socket is `NoClient`; the descriptors are of finitely many types that do not contain themselves and the structures fit them; the server makes no padded frame; the header fields of server and peer are C strings that 32 bits can count.
TLC evaluates them in the runs.

`PbAnswersProofs` proves `AnswersFit` (`SizesAgree`), for any descriptors, structures and buffers. It compares a stream that only counts with one that
writes, step by step (`Agree`): as long as both are without an error the second has written what the first has
counted; when the buffer is full the first is past its size already, and stays past it; any other error comes to both.

* Each operation keeps `Agree`: `WriteAgrees`, and from it a lemma per encoder up to `BasicAgrees`, on any value the field may hold (`Holds`).
* An array is the fold of its items. Where the size of a packed one is computed in a first pass, `PackedCounts` has what that pass counts.
* A submessage is encoded twice, into a counting stream and into a substream of the size counted: `SubmessageExact` says that
  where the first pass has no error the second has none and writes exactly that size, so `"submsg size changed"` never occurs.
* `MessagesKeep` is the induction on how deep messages nest (`IsDepth`, from `DescriptorAssumption`: a structure is no part of itself). `PbEncode` is a
  recursive function on types; `EncoderExists` gives one that satisfies its definition, one depth after the other, by the laws of a fold.
* `FramedAgrees` adds the three framings.

Only model-checked:

* `WritesMeaning` and `DecodesMeaning` of `Protobuf`: the decoder and the reading of a message are recursive operators, which the prover
  does not take.
* Liveness under fairness, out of its reach.

## Not modelled

* nanopb: callback and extension fields and pointer fields (the generated
  messages have none, and without `PB_ENABLE_MALLOC` the last are compiled out), conversion
  of floats, UTF-8 validation, streams with callbacks of their own. What the
  bytes of a oneof's storage hold after a member of another kind is not read.
* HPACK: a string whose length runs past the end of its block, and a Huffman
  string that is no code. The code reads, or writes, past a buffer there, and the outcome is whatever the
  memory holds. The decoder's error returns are in `Huffman` and not reached.
* Frames of fixed size (PRIORITY, PING, RST_STREAM, WINDOW_UPDATE) have that
  size (`FixedSize`): the code does not look at the length, and what it reads of a shorter
  one is outside the model.
* Flow control: the code has no state about it.
* Errors of sockets, logging, memory measurement, `setup()`.
* The writers of the frames the server never writes.

## Plan

Done: the modules of the table above, with every component that has behaviour of its own,
and the proofs of the section before, which cover every safety property of the frame layer, the
server, its loop, its clients, its header blocks in both directions and the sizes of its messages. What is left is what "Only model-checked"
and "Not modelled" name. Of it `WritesMeaning` comes first: with the meaning of a message as a recursive function on its depth, as the
encoder is now, it would be within reach of the same laws.
