----------------------------- MODULE ServerLoop -----------------------------
(***************************************************************************)
(* The loop of the examples: server.ino's loop() accepts one client, reaps *)
(* connections whose client is gone, makes a Connection for the accepted   *)
(* one and calls GRPCServer::runOnce; unix/server.cpp's main() accepts one *)
(* client and calls runOnce for ever.  The network changes between any two *)
(* steps.  Of Connection only what pump() returns is kept, byte by byte:   *)
(* Connection and FrameReader model the rest.                              *)
(***************************************************************************)
EXTENDS Integers, SequencesExt

CONSTANTS
    Sockets,      \* the sockets clients connect by
    Conn,         \* addresses at which the program creates Connection objects
    NoClient,     \* an EthernetClient that converts to false
    PrefaceBytes, \* bytes of the preface
    FrameBytes,   \* bytes of a frame
    Window        \* bound on the bytes a socket holds unread

ASSUME NoClientAssumption == NoClient \notin Sockets
ASSUME PrefaceBytesAssumption == PrefaceBytes \in Nat \ {0}
ASSUME FrameBytesAssumption == FrameBytes \in Nat \ {0, 1}
ASSUME WindowAssumption == Window \in Nat \ {0}

(* A byte is good, or the one at which the preface or the frame it belongs *)
(* to is found to be none.                                                 *)
Bytes == {"ok", "bad"}

VARIABLES
    platform,     \* "arduino" or "unix": which of the two programs runs
    peer,         \* [Sockets -> what is at the other end]
    sent,         \* [Sockets -> where the next byte of the peer belongs]
    pending,      \* [Sockets -> the bytes unread]
    reused,       \* history: the sockets whose client came when a connection
                  \* still had them
    pc,           \* what the program does next
    client,       \* the local variable of loop()
    connections,  \* the sketch's list, Seq(Conn)
    served,       \* GRPCServer::connections, Seq(Conn)
    object,       \* [Conn -> the Connection object there]
    polled        \* position of runOnce in served

networkVars == <<peer, sent, pending, reused>>
programVars == <<pc, client, connections, served, object, polled>>
vars == <<platform, networkVars, programVars>>

-----------------------------------------------------------------------------
(* Places in what a peer sends, and so in what pump() has been given:      *)
(* 0..PrefaceBytes-1 in the preface, from PrefaceBytes on in a frame.      *)

Start == 0
Boundary == PrefaceBytes
Places == 0..(PrefaceBytes + FrameBytes - 1)

NextPlace_NoReset(place) == place + 1

NextPlace(place) ==
    IF place = PrefaceBytes + FrameBytes - 1 THEN Boundary ELSE place + 1

Deleted == [state |-> "Deleted", place |-> Start, transport |-> NoClient]

New(s) == [state |-> "Started", place |-> Start, transport |-> s]

(* Connection::pump of a byte, what the object is afterwards: a byte that  *)
(* completes the preface makes it Connected, a bad one Failed, and its     *)
(* place matters no longer.                                                *)
Pumped(k, byte) ==
    LET place == NextPlace(k.place)
    IN CASE k.state = "Failed" -> k
         [] k.state # "Failed" /\ byte = "bad" ->
               [k EXCEPT !.state = "Failed", !.place = Start]
         [] OTHER -> [k EXCEPT !.place = place,
                               !.state = IF place < Boundary THEN "Started" ELSE "Connected"]

MoreAfter_Always(k, byte) == k.state = "Failed" \/ byte = "ok"

(* and what it returns: true for a byte that belongs to the preface, that  *)
(* completes a frame, or that finds the connection failed already.         *)
MoreAfter(k, byte) ==
    \/ k.state = "Failed"
    \/ byte = "ok" /\ (k.state = "Started" \/ NextPlace(k.place) = Boundary)

-----------------------------------------------------------------------------
(* The network.                                                            *)

InUse(s) == client = s \/ \E k \in Conn : object[k].transport = s

(* A bound: clients come only while there is an address left for each.     *)
Room ==
    Cardinality({k \in Conn : object[k].state # "Deleted"})
      + Cardinality({s \in Sockets : peer[s] = "waiting"})
      + Cardinality({s \in Sockets : client = s}) < Cardinality(Conn)

(* A client connects.  EthernetServer gives out again a socket whose client *)
(* is gone, whether or not the sketch has reaped the connection that reads  *)
(* from it; the sockets of the unix server stay open.                       *)
Connect(s) ==
    /\ peer[s] = "away"
    /\ pending[s] = <<>>
    /\ platform = "unix" => ~InUse(s)
    /\ Room
    /\ peer' = [peer EXCEPT ![s] = "waiting"]
    /\ reused' = IF InUse(s) THEN reused \cup {s} ELSE reused \ {s}
    /\ UNCHANGED <<platform, sent, pending, programVars>>

Send(s, byte) ==
    /\ peer[s] \in {"waiting", "open"}
    /\ Len(pending[s]) < Window
    /\ pending' = [pending EXCEPT ![s] = Append(@, byte)]
    /\ sent' = [sent EXCEPT ![s] = NextPlace(@)]
    /\ UNCHANGED <<platform, peer, reused, programVars>>

(* A client leaves: in order, its last bytes still to be read, or abruptly.*)
Leave(s, inOrder) ==
    /\ peer[s] = "open"
    /\ peer' = [peer EXCEPT ![s] = "away"]
    /\ sent' = [sent EXCEPT ![s] = Start]
    /\ pending' = [pending EXCEPT ![s] = IF inOrder THEN @ ELSE <<>>]
    /\ UNCHANGED <<platform, reused, programVars>>

(* It gives up before it is accepted. *)
GiveUp(s) ==
    /\ peer[s] = "waiting"
    /\ peer' = [peer EXCEPT ![s] = "away"]
    /\ sent' = [sent EXCEPT ![s] = Start]
    /\ pending' = [pending EXCEPT ![s] = <<>>]
    /\ UNCHANGED <<platform, reused, programVars>>

(* EthernetClient: connected() while there is a peer, accepted or not, and *)
(* until nothing is left to read.  SocketTransport's is always true.       *)
Connected(s) ==
    platform = "unix" \/ peer[s] # "away" \/ pending[s] # <<>>

Available(s) == pending[s] # <<>>

-----------------------------------------------------------------------------
(* The program.                                                            *)

(* server.accept() returns a new client or none; acceptor.accept() waits.  *)
Accept ==
    /\ pc = "accept"
    /\ \/ \E s \in Sockets :
             /\ peer[s] = "waiting"
             /\ peer' = [peer EXCEPT ![s] = "open"]
             /\ client' = s
       \/ /\ platform = "arduino"
          /\ \A s \in Sockets : peer[s] # "waiting"
          /\ client' = NoClient
          /\ UNCHANGED peer
    /\ pc' = IF platform = "unix" THEN "add" ELSE "reap"
    /\ UNCHANGED <<platform, sent, pending, reused, connections, served, object, polled>>

RemoveConnection_NoErase(k) == UNCHANGED served

(* GRPCServer::removeConnection: erase(remove(..)) takes out every copy of *)
(* the pointer; ListsAgree has it that there is only one.                  *)
RemoveConnection(k) == served' = RemoveFirst(served, k)

(* transport->connected() is false for the first in the sketch's list. *)
FirstIsDead ==
    connections # <<>> /\ ~Connected(object[Head(connections)].transport)

Reap_WhenAsked ==
    /\ pc = "reap"
    /\ pc' = IF FirstIsDead /\ client # NoClient THEN "remove" ELSE "add"
    /\ UNCHANGED <<platform, networkVars, client, connections, served, object, polled>>

(* A turn of the scan that removes connections: it breaks at the first     *)
(* whose client is there, so what it removes is the first of the list.     *)
Reap ==
    /\ pc = "reap"
    /\ pc' = IF FirstIsDead THEN "remove" ELSE "add"
    /\ UNCHANGED <<platform, networkVars, client, connections, served, object, polled>>

RemoveDead ==
    /\ pc = "remove"
    /\ RemoveConnection(Head(connections))
    /\ pc' = "delete"
    /\ UNCHANGED <<platform, networkVars, client, connections, object, polled>>

(* The transport and the Connection; the pointer is still in the list. *)
Delete ==
    /\ pc = "delete"
    /\ object' = [object EXCEPT ![Head(connections)] = Deleted]
    /\ pc' = "erase"
    /\ UNCHANGED <<platform, networkVars, client, connections, served, polled>>

Erase ==
    /\ pc = "erase"
    /\ connections' = Tail(connections)
    /\ pc' = "reap"
    /\ UNCHANGED <<platform, networkVars, client, served, object, polled>>

(* A Connection for the accepted client, at any free address: push_back to *)
(* the sketch's list.  main() keeps no list, and adds it to the server's.  *)
Add ==
    /\ pc = "add"
    /\ \/ /\ client = NoClient
          /\ pc' = "run"
          /\ UNCHANGED <<connections, served, object>>
       \/ /\ client # NoClient
          /\ \E k \in Conn :
                /\ object[k].state = "Deleted"
                /\ object' = [object EXCEPT ![k] = New(client)]
                /\ \/ /\ platform = "arduino"
                      /\ connections' = Append(connections, k)
                      /\ pc' = "serve"
                      /\ UNCHANGED served
                   \/ /\ platform = "unix"
                      /\ served' = Append(served, k)
                      /\ pc' = "run"
                      /\ UNCHANGED connections
    /\ client' = NoClient
    /\ UNCHANGED <<platform, networkVars, polled>>

(* GRPCServer::addConnection in the sketch. *)
Serve ==
    /\ pc = "serve"
    /\ served' = Append(served, Last(connections))
    /\ pc' = "run"
    /\ UNCHANGED <<platform, networkVars, client, connections, object, polled>>

PollByte_Twice(k, s) ==
    /\ Available(s)
    /\ pending' = [pending EXCEPT ![s] = IF Len(@) > 1 THEN Tail(Tail(@)) ELSE <<>>]
    /\ object' = [object EXCEPT ![k] = Pumped(@, Head(pending[s]))]
    /\ polled' = IF MoreAfter(object[k], Head(pending[s])) THEN polled ELSE polled + 1

(* One turn of the inner loop of runOnce: a byte, and whether to go on.    *)
PollByte(k, s) ==
    /\ Available(s)
    /\ pending' = [pending EXCEPT ![s] = Tail(@)]
    /\ object' = [object EXCEPT ![k] = Pumped(@, Head(pending[s]))]
    /\ polled' = IF MoreAfter(object[k], Head(pending[s])) THEN polled ELSE polled + 1

Poll ==
    /\ pc = "run"
    /\ polled <= Len(served)
    /\ LET k == served[polled]
           s == object[k].transport
       IN \/ PollByte(k, s)
          \/ /\ ~Available(s)
             /\ polled' = polled + 1
             /\ UNCHANGED <<pending, object>>
    /\ UNCHANGED <<platform, peer, sent, reused, pc, client, connections, served>>

(* runOnce returns; main() calls it again at once. *)
Return ==
    /\ pc = "run"
    /\ polled > Len(served)
    /\ pc' = IF platform = "unix" THEN "run" ELSE "accept"
    /\ polled' = 1
    /\ UNCHANGED <<platform, networkVars, client, connections, served, object>>

Loop == Accept \/ Reap \/ RemoveDead \/ Delete \/ Erase \/ Add \/ Serve \/ Poll \/ Return

Init ==
    /\ platform \in {"arduino", "unix"}
    /\ peer = [s \in Sockets |-> "away"]
    /\ sent = [s \in Sockets |-> Start]
    /\ pending = [s \in Sockets |-> <<>>]
    /\ reused = {}
    /\ pc = "accept"
    /\ client = NoClient
    /\ connections = <<>>
    /\ served = <<>>
    /\ object = [k \in Conn |-> Deleted]
    /\ polled = 1

Next ==
    \/ Loop
    \/ \E s \in Sockets :
          \/ Connect(s)
          \/ GiveUp(s)
          \/ \E byte \in Bytes : Send(s, byte)
          \/ \E inOrder \in BOOLEAN : Leave(s, inOrder)

Spec == Init /\ [][Next]_vars

(* The program runs for ever: the Arduino core calls loop() again and      *)
(* again, main() has its own loop.  Nothing obliges a client to act.       *)
FairSpec == Spec /\ WF_vars(Loop)

-----------------------------------------------------------------------------
(* The properties.                                                         *)

TypeOK ==
    /\ platform \in {"arduino", "unix"}
    /\ peer \in [Sockets -> {"away", "waiting", "open"}]
    /\ sent \in [Sockets -> Places]
    /\ pending \in [Sockets -> Seq(Bytes)]
    /\ reused \subseteq Sockets
    /\ pc \in {"accept", "reap", "remove", "delete", "erase", "add", "serve", "run"}
    /\ client \in Sockets \cup {NoClient}
    /\ connections \in Seq(Conn)
    /\ served \in Seq(Conn)
    /\ object \in [Conn ->
          [state : {"Deleted", "Started", "Connected", "Failed"}, place : Places,
           transport : Sockets \cup {NoClient}]]
    /\ polled \in Nat \ {0}

(* The connection that loop() is about to delete, or has just made. *)
InHand ==
    CASE pc = "delete" -> {Head(connections)}
      [] pc = "serve" -> {Last(connections)}
      [] OTHER -> {}

(* The sketch and the server keep a list each, changed by one statement    *)
(* after the other: they name the same connections in the same order but   *)
(* for the one in hand.  The server's has each of its connections once and *)
(* live, so that runOnce polls no deleted object, and no live one is       *)
(* forgotten.                                                              *)
ListsAgree ==
    /\ platform = "arduino" =>
          CASE pc \in {"delete", "erase"} -> connections # <<>> /\ served = Tail(connections)
            [] pc = "serve" -> connections # <<>> /\ served = Front(connections)
            [] OTHER -> served = connections
    /\ ToSet(served) = {k \in Conn : object[k].state # "Deleted"} \ InHand
    /\ \A i, j \in 1..Len(served) : served[i] = served[j] => i = j

(* While its client is there, and none came by its socket before it was    *)
(* reaped, a connection has been given exactly the bytes its client has    *)
(* sent and the socket does not hold, wherever its object was allocated    *)
(* and whatever was served there or came by its socket before.             *)
InStep ==
    \A i \in 1..Len(served) :
        LET k == object[served[i]]
        IN k.state # "Failed" /\ peer[k.transport] = "open" /\ k.transport \notin reused =>
              FoldLeft(LAMBDA place, byte : NextPlace(place),
                       k.place, pending[k.transport]) = sent[k.transport]

Polling(k) == pc = "run" /\ polled <= Len(served) /\ served[polled] = k

(* A failed connection whose client goes on sending keeps runOnce reading. *)
HeldByFailed ==
    <>[](\E k \in Conn : Polling(k) /\ object[k].state = "Failed")

(* Unless a failed connection holds it, runOnce comes back to every        *)
(* connection for as long as it is served: a client that always has bytes  *)
(* ready, or stops in the middle of a frame, does not keep it from others. *)
EveryonePolled ==
    \/ HeldByFailed
    \/ \A k \in Conn :
          (k \in ToSet(served)) ~> (Polling(k) \/ k \notin ToSet(served))

(* The connection at position i, and those before it, have lost their      *)
(* clients; and another came by the socket of one of them.                 *)
Gone == {s \in Sockets : peer[s] = "away"}
GoneUpTo(i) == \A j \in 1..i : object[connections[j]].transport \in Gone
ReusedUpTo(i) == \E j \in 1..i : object[connections[j]].transport \in reused

(* The connection of a client that left is removed, unless a failed one    *)
(* holds the loop, once the clients that came before it have left: the     *)
(* scan stops at the first that has not.  A client that comes by the       *)
(* socket of one of them meanwhile keeps it, and what is behind it.        *)
GoneAreReaped ==
    \/ HeldByFailed
    \/ \A k \in Conn :
          (\E i \in 1..Len(connections) : connections[i] = k /\ GoneUpTo(i))
             ~> \/ object[k].state = "Deleted"
                \/ \E i \in 1..Len(connections) : connections[i] = k /\ ReusedUpTo(i)
=============================================================================
