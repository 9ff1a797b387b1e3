----------------------------- MODULE UnaryCall -----------------------------
(***************************************************************************)
(* What the server promises each client of a unary method, without frames, *)
(* streams or tables: a call comes to one end at most, and stays there.  A *)
(* call opened before the client has acknowledged the server's SETTINGS    *)
(* can only be refused.  After that it never is: if nobody registered its  *)
(* method it may be told so, else its request may be answered by a handler *)
(* of the method, from that very request.  The calls of a client are       *)
(* forgotten when it leaves.                                               *)
(***************************************************************************)
CONSTANTS Conn, CallIDs, Names, Messages, Null

VARIABLES
    acked,    \* the connections whose client has acknowledged the SETTINGS
    call,     \* [Conn -> [CallIDs -> what the client did]]
    outcome,  \* [Conn -> [CallIDs -> how the call ended]]
    methods   \* the names registered so far

vars == <<acked, call, outcome, methods>>

Open == "open"
Sent == "sent"
Idle == [phase |-> "idle", path |-> Null, message |-> Null, early |-> FALSE]

None == <<>>
Refused == <<"refused">>
Unimplemented == <<"unimplemented">>
Answer(path, message) == <<"answer", path, message>>

Init ==
    /\ acked = {}
    /\ call = [c \in Conn |-> [id \in CallIDs |-> Idle]]
    /\ outcome = [c \in Conn |-> [id \in CallIDs |-> None]]
    /\ methods = {}

Register(name) ==
    /\ methods' = methods \cup {name}
    /\ UNCHANGED <<acked, call, outcome>>

(* The client of c connects or leaves. *)
Renew(c) ==
    /\ acked' \in {acked, acked \ {c}}
    /\ call' = [call EXCEPT ![c] = [id \in CallIDs |-> Idle]]
    /\ outcome' = [outcome EXCEPT ![c] = [id \in CallIDs |-> None]]
    /\ UNCHANGED methods

Acknowledge(c) ==
    /\ acked' = acked \cup {c}
    /\ UNCHANGED <<call, outcome, methods>>

(* The client opens a call, sends its request, or gives up on it. *)
Advance(c, id) ==
    /\ \/ /\ call[c][id].phase = "idle"
          /\ \E path \in Names :
                call' = [call EXCEPT ![c][id].phase = Open, ![c][id].path = path,
                                     ![c][id].early = c \notin acked]
       \/ /\ call[c][id].phase = Open
          /\ \E message \in Messages :
                call' = [call EXCEPT ![c][id].phase = Sent, ![c][id].message = message]
       \/ /\ call[c][id].phase \in {Open, Sent}
          /\ call' = [call EXCEPT ![c][id].phase = "cancelled"]
    /\ UNCHANGED <<acked, outcome, methods>>

(* How a call can end. *)
Ends(k) ==
    CASE k.early -> {Refused}
      [] ~k.early /\ k.path \notin methods -> {Unimplemented}
      [] ~k.early /\ k.path \in methods ->
            IF k.message = Null THEN {} ELSE {Answer(k.path, k.message)}

(* The server ends a call that the client has opened and that has no end.  *)
End(c, id) ==
    /\ call[c][id].phase # "idle"
    /\ outcome[c][id] = None
    /\ \E end \in Ends(call[c][id]) : outcome' = [outcome EXCEPT ![c][id] = end]
    /\ UNCHANGED <<acked, call, methods>>

Next ==
    \/ \E name \in Names : Register(name)
    \/ \E c \in Conn :
          \/ Renew(c)
          \/ Acknowledge(c)
          \/ \E id \in CallIDs : Advance(c, id) \/ End(c, id)

Spec == Init /\ [][Next]_vars
=============================================================================
