-------------------------- MODULE ServerLoopProofs --------------------------
(***************************************************************************)
(* Proofs about ServerLoop, for any number of clients and of addresses,    *)
(* and any length of the preface and of frames.                            *)
(***************************************************************************)
EXTENDS ServerLoop, SequenceTheorems, TLAPS

Objects == [state : {"Deleted", "Started", "Connected", "Failed"}, place : Places,
            transport : Sockets \cup {NoClient}]

Live(k) == object[k].state # "Deleted"

-----------------------------------------------------------------------------
(* The inductive invariant.  A socket that has been accepted has one        *)
(* connection and no other client, unless a client has come by it again    *)
(* before that connection was reaped.                                      *)
Taken ==
    \A k \in Conn : Live(k) =>
        /\ object[k].transport \in Sockets
        /\ object[k].transport \notin reused =>
              /\ peer[object[k].transport] # "waiting"
              /\ \A j \in Conn : Live(j) /\ object[j].transport = object[k].transport => j = k

(* The client accepted in this call of loop() has no connection yet. *)
ClientIsNew ==
    client # NoClient =>
        /\ pc \in {"reap", "remove", "delete", "erase", "add"}
        /\ client \notin reused =>
              /\ peer[client] # "waiting"
              /\ \A k \in Conn : Live(k) => object[k].transport # client

OnlyArduinoReaps ==
    pc \in {"reap", "remove", "delete", "erase", "serve"} => platform = "arduino"

(* There is a connection to remove, and the one just made is live. *)
InHandIsThere ==
    /\ pc = "remove" => connections # <<>>
    /\ pc = "serve" => Live(Last(connections))

IInv ==
    TypeOK /\ ListsAgree /\ Taken /\ ClientIsNew /\ OnlyArduinoReaps /\ InHandIsThere

-----------------------------------------------------------------------------
LEMMA NextPlaceType ==
    ASSUME NEW place \in Places
    PROVE  NextPlace(place) \in Places
  BY PrefaceBytesAssumption, FrameBytesAssumption, SMT DEF NextPlace, Places, Boundary

LEMMA NewObjects ==
    /\ Deleted \in Objects /\ Deleted.state = "Deleted"
    /\ \A s \in Sockets : /\ New(s) \in Objects
                          /\ New(s).state # "Deleted" /\ New(s).transport = s
  <1>1. 0 \in Places
    BY PrefaceBytesAssumption, FrameBytesAssumption, SMT DEF Places
  <1> QED BY <1>1 DEF Deleted, New, Objects, Start

LEMMA StartPlace == Start \in Places
  BY PrefaceBytesAssumption, FrameBytesAssumption, SMT DEF Places, Start

(* pump() neither deletes the object nor changes its transport. *)
LEMMA PumpedFacts ==
    ASSUME NEW k \in Objects, k.state # "Deleted", NEW byte
    PROVE  /\ Pumped(k, byte) \in Objects
           /\ Pumped(k, byte).state # "Deleted"
           /\ Pumped(k, byte).transport = k.transport
  <1> DEFINE place == NextPlace(k.place)
  <1>1. place \in Places
    BY NextPlaceType DEF Objects
  <1>2. CASE k.state = "Failed"
    BY <1>2 DEF Pumped
  <1>3. CASE k.state # "Failed" /\ byte = "bad"
    BY <1>3, StartPlace DEF Pumped, Objects
  <1>4. CASE k.state # "Failed" /\ byte # "bad"
    <2> HIDE DEF place
    <2>1. Pumped(k, byte)
            = [k EXCEPT !.place = place,
                        !.state = IF place < Boundary THEN "Started" ELSE "Connected"]
      BY <1>4 DEF Pumped, place
    <2> QED BY <1>1, <2>1 DEF Objects
  <1> QED BY <1>2, <1>3, <1>4

LEMMA RemoveHead ==
    ASSUME NEW S, NEW s \in Seq(S), s # <<>>
    PROVE  RemoveFirst(s, Head(s)) = Tail(s)
  <1> DEFINE I == {i \in 1..Len(s) : s[i] = Head(s)}
  <1>1. 1 \in I /\ \A i \in I : i \in Nat /\ 1 <= i
    BY SMT
  <1>2. SelectInSeq(s, LAMBDA v : v = Head(s)) = 1
    <2>1. SelectInSeq(s, LAMBDA v : v = Head(s)) = IF I # {} THEN Min(I) ELSE 0
      BY Zenon DEF SelectInSeq
    <2> HIDE DEF I
    <2>2. Min(I) \in I /\ \A i \in I : Min(I) <= i
      BY <1>1 DEF Min
    <2>3. Min(I) = 1
      BY <1>1, <2>2, SMT
    <2> QED BY <1>1, <2>1, <2>3
  <1>3. RemoveFirst(s, Head(s)) = RemoveAt(s, 1)
    <2>1. \E i \in 1..Len(s) : s[i] = Head(s)
      BY <1>1
    <2> QED BY <1>2, <2>1 DEF RemoveFirst
  <1>4. RemoveAt(s, 1) = Tail(s)
    <2>1. RemoveAt(s, 1) = SubSeq(s, 1, 0) \o SubSeq(s, 2, Len(s))
      BY SMT DEF RemoveAt
    <2>2. SubSeq(s, 1, 0) = <<>>
      BY SMT
    <2>3. SubSeq(s, 2, Len(s)) = Tail(s)
      BY TailIsSubSeq
    <2> QED BY <2>1, <2>2, <2>3, HeadTailProperties, ConcatEmptySeq
  <1> QED BY <1>3, <1>4

-----------------------------------------------------------------------------
(* Lists whose elements are distinct.                                      *)

Distinct(s) == \A i, j \in 1..Len(s) : s[i] = s[j] => i = j

LEMMA TailOfDistinct ==
    ASSUME NEW S, NEW s \in Seq(S), s # <<>>, Distinct(s)
    PROVE  /\ Tail(s) \in Seq(S) /\ Distinct(Tail(s))
           /\ ToSet(Tail(s)) = ToSet(s) \ {Head(s)}
  <1> DEFINE r == Tail(s)
  <1>1. /\ r \in Seq(S) /\ Len(r) = Len(s) - 1 /\ Head(s) = s[1]
        /\ \A i \in 1..Len(r) : r[i] = s[i + 1]
        /\ Len(s) \in Nat
    BY SMT
  <1> HIDE DEF r
  <1>2. /\ \A i \in 1..Len(r) : i + 1 \in 1..Len(s) /\ i + 1 # 1
        /\ \A i \in 1..Len(s) : i # 1 => i - 1 \in 1..Len(r) /\ (i - 1) + 1 = i
        /\ \A i, j \in 1..Len(r) : i + 1 = j + 1 => i = j
        /\ 1 \in 1..Len(s) \/ Len(s) = 0
    BY <1>1, SMT
  <1>3. Distinct(r)
    BY <1>1, <1>2 DEF Distinct
  <1>4. 1 \in 1..Len(s)
    BY SMT
  <1>5. ASSUME NEW x \in ToSet(r) PROVE x \in ToSet(s) /\ x # Head(s)
    <2>1. PICK i \in 1..Len(r) : x = r[i]
      BY <1>1, <1>5 DEF ToSet
    <2>2. i + 1 \in 1..Len(s) /\ i + 1 # 1 /\ x = s[i + 1]
      BY <1>1, <1>2, <2>1
    <2> QED BY <1>1, <1>4, <2>2 DEF ToSet, Distinct
  <1>6. ASSUME NEW x \in ToSet(s), x # Head(s) PROVE x \in ToSet(r)
    <2>1. PICK i \in 1..Len(s) : x = s[i]
      BY <1>6 DEF ToSet
    <2>2. i - 1 \in 1..Len(r) /\ r[i - 1] = x
      BY <1>1, <1>2, <1>6, <2>1
    <2> QED BY <1>1, <2>2 DEF ToSet
  <1>7. ToSet(r) = ToSet(s) \ {Head(s)}
    BY <1>5, <1>6
  <1> QED BY <1>1, <1>3, <1>7 DEF r

LEMMA Appended ==
    ASSUME NEW S, NEW s \in Seq(S), NEW x \in S
    PROVE  /\ Append(s, x) \in Seq(S) /\ Append(s, x) # <<>>
           /\ Last(Append(s, x)) = x /\ Front(Append(s, x)) = s
           /\ ToSet(Append(s, x)) = ToSet(s) \cup {x}
           /\ Distinct(s) /\ x \notin ToSet(s) => Distinct(Append(s, x))
  <1> DEFINE r == Append(s, x)
             n == Len(s) + 1
  <1>1. /\ r \in Seq(S) /\ r # <<>> /\ Len(r) = n /\ r[n] = x
        /\ \A i \in 1..Len(s) : i \in 1..Len(r) /\ r[i] = s[i]
        /\ \A i \in 1..Len(r) : i \in 1..Len(s) \/ i = n
        /\ n \in 1..Len(r) /\ n \in Nat
    <2>1. /\ r \in Seq(S) /\ Len(r) = n /\ r[n] = x /\ Len(s) \in Nat
          /\ \A i \in 1..Len(s) : r[i] = s[i]
      BY AppendProperties
    <2>2. n = Len(s) + 1
      OBVIOUS
    <2>3. n \in Nat /\ n # 0 /\ n \in 1..n /\ (\A i \in 1..n : i \in 1..Len(s) \/ i = n)
          /\ \A i \in 1..Len(s) : i \in 1..n
      BY ONLY <2>1, <2>2, SMT
    <2>4. r # <<>>
      BY AppendProperties
    <2> HIDE DEF r, n
    <2> QED BY <2>1, <2>3, <2>4
  <1>2. Front(r) = s
    <2>1. Front(r) = SubSeq(r, 1, Len(s))
      BY <1>1 DEF Front
    <2>2. /\ SubSeq(r, 1, Len(s)) \in Seq(S) /\ Len(SubSeq(r, 1, Len(s))) = Len(s)
          /\ \A i \in 1..Len(s) : SubSeq(r, 1, Len(s))[i] = s[i]
      BY <1>1, SMT
    <2> QED BY <2>1, <2>2, SeqEqual
  <1> HIDE DEF r, n
  <1>3. Last(r) = x
    BY <1>1 DEF Last
  <1>4. ToSet(r) = ToSet(s) \cup {x}
    <2>1. ASSUME NEW y \in ToSet(r) PROVE y \in ToSet(s) \/ y = x
      <3>1. PICK i \in 1..Len(r) : y = r[i]
        BY <2>1 DEF ToSet
      <3> QED BY <1>1, <3>1 DEF ToSet
    <2>2. ASSUME NEW y \in ToSet(s) PROVE y \in ToSet(r)
      <3>1. PICK i \in 1..Len(s) : y = s[i]
        BY <2>2 DEF ToSet
      <3> QED BY <1>1, <3>1 DEF ToSet
    <2>3. x \in ToSet(r)
      BY <1>1 DEF ToSet
    <2> QED BY <2>1, <2>2, <2>3
  <1>5. ASSUME Distinct(s), x \notin ToSet(s) PROVE Distinct(r)
    <2>1. \A i \in 1..Len(s) : s[i] # x
      BY <1>5 DEF ToSet
    <2> QED BY <1>1, <1>5, <2>1 DEF Distinct
  <1> QED BY <1>1, <1>2, <1>3, <1>4, <1>5 DEF r

LEMMA FrontLast ==
    ASSUME NEW S, NEW s \in Seq(S), s # <<>>
    PROVE  Append(Front(s), Last(s)) = s /\ Last(s) \in S
  BY SMT DEF Front, Last

-----------------------------------------------------------------------------
(* Each action keeps the invariant.                                        *)

LEMMA Lists ==
    ASSUME IInv
    PROVE  /\ served \in Seq(Conn) /\ connections \in Seq(Conn) /\ Distinct(served)
           /\ object \in [Conn -> Objects] /\ polled \in Nat \ {0}
           /\ peer \in [Sockets -> {"away", "waiting", "open"}]
           /\ sent \in [Sockets -> Places]
           /\ pending \in [Sockets -> Seq(Bytes)]
           /\ reused \subseteq Sockets
           /\ platform \in {"arduino", "unix"}
           /\ client \in Sockets \cup {NoClient}
  BY DEF IInv, TypeOK, Objects, ListsAgree, Distinct

(* What is served: live objects, with sockets to read from. *)
LEMMA ServedFacts ==
    ASSUME IInv, NEW i \in 1..Len(served)
    PROVE  /\ served[i] \in Conn /\ Live(served[i])
           /\ object[served[i]] \in Objects
           /\ object[served[i]].transport \in Sockets
  <1>1. served[i] \in Conn
    BY Lists
  <1>2. Live(served[i])
    <2>1. served[i] \in ToSet(served)
      BY DEF ToSet
    <2> QED BY <2>1 DEF IInv, ListsAgree, Live
  <1> QED BY <1>1, <1>2, Lists DEF IInv, Taken

(* What the steps of the network, and those of the program, change of the  *)
(* sockets that are taken.                                                 *)
LEMMA NetworkStep ==
    ASSUME IInv, UNCHANGED programVars, UNCHANGED platform,
           peer' \in [Sockets -> {"away", "waiting", "open"}],
           sent' \in [Sockets -> Places],
           pending' \in [Sockets -> Seq(Bytes)],
           reused' \subseteq Sockets,
           \A t \in Sockets : t \notin reused' /\ InUse(t) =>
              t \notin reused /\ (peer'[t] = "waiting" => peer[t] = "waiting")
    PROVE  IInv'
  <1>1. UNCHANGED <<pc, client, connections, served, object, polled, platform>>
    BY DEF programVars
  <1>2. TypeOK'
    BY <1>1 DEF IInv, TypeOK
  <1>3. ListsAgree' /\ OnlyArduinoReaps' /\ InHandIsThere'
    BY <1>1 DEF IInv, ListsAgree, InHand, OnlyArduinoReaps, InHandIsThere, Live
  <1>4. \A k \in Conn : object[k].transport \in Sockets => InUse(object[k].transport)
    BY DEF InUse
  <1>5. client \in Sockets => InUse(client)
    BY DEF InUse
  <1>6. Taken'
    BY <1>1, <1>4 DEF IInv, Taken, Live
  <1>7. ClientIsNew'
    BY <1>1, <1>5, Lists DEF IInv, ClientIsNew, Live
  <1> QED BY <1>2, <1>3, <1>6, <1>7 DEF IInv

LEMMA ProgramStep ==
    ASSUME IInv, UNCHANGED <<peer, reused>>,
           \A j \in Conn : Live(j)' => Live(j) /\ object'[j].transport = object[j].transport
    PROVE  /\ Taken'
           /\ client' = client /\ pc' \in {"reap", "remove", "delete", "erase", "add"}
                 => ClientIsNew'
           /\ client' = NoClient => ClientIsNew'
  BY DEF IInv, Taken, ClientIsNew

LEMMA NetworkKeeps ==
    ASSUME IInv, NEW s \in Sockets,
           \/ Connect(s)
           \/ GiveUp(s)
           \/ \E byte \in Bytes : Send(s, byte)
           \/ \E inOrder \in BOOLEAN : Leave(s, inOrder)
    PROVE  IInv'
  <1>1. /\ peer \in [Sockets -> {"away", "waiting", "open"}]
        /\ sent \in [Sockets -> Places]
        /\ pending \in [Sockets -> Seq(Bytes)]
        /\ reused \subseteq Sockets
    BY Lists
  <1>2. CASE Connect(s)
    <2>1. /\ peer' = [peer EXCEPT ![s] = "waiting"]
          /\ reused' = IF InUse(s) THEN reused \cup {s} ELSE reused \ {s}
          /\ UNCHANGED <<platform, sent, pending, programVars>>
      BY <1>2 DEF Connect
    <2>2. /\ peer' \in [Sockets -> {"away", "waiting", "open"}]
          /\ \A t \in Sockets : t # s => peer'[t] = peer[t]
          /\ reused' \subseteq Sockets
      BY <1>1, <2>1
    <2>3. \A t \in Sockets : t \notin reused' /\ InUse(t) =>
             t \notin reused /\ (peer'[t] = "waiting" => peer[t] = "waiting")
      BY <2>1, <2>2
    <2> QED BY <1>1, <2>1, <2>2, <2>3, NetworkStep
  <1>3. CASE GiveUp(s)
    <2>1. /\ peer' = [peer EXCEPT ![s] = "away"] /\ sent' = [sent EXCEPT ![s] = Start]
          /\ pending' = [pending EXCEPT ![s] = <<>>]
          /\ UNCHANGED <<platform, reused, programVars>>
      BY <1>3 DEF GiveUp
    <2> QED BY <1>1, <2>1, StartPlace, NetworkStep
  <1>4. ASSUME NEW byte \in Bytes, Send(s, byte) PROVE IInv'
    <2>1. pending' \in [Sockets -> Seq(Bytes)]
          /\ UNCHANGED <<platform, peer, reused, programVars>>
      BY <1>1, <1>4 DEF Send
    <2>2. sent' \in [Sockets -> Places]
      BY <1>1, <1>4, NextPlaceType DEF Send
    <2> QED BY <1>1, <2>1, <2>2, NetworkStep
  <1>5. ASSUME NEW inOrder \in BOOLEAN, Leave(s, inOrder) PROVE IInv'
    <2>1. /\ peer' = [peer EXCEPT ![s] = "away"] /\ sent' = [sent EXCEPT ![s] = Start]
          /\ pending' \in [Sockets -> Seq(Bytes)]
          /\ UNCHANGED <<platform, reused, programVars>>
      BY <1>1, <1>5 DEF Leave
    <2> QED BY <1>1, <2>1, StartPlace, NetworkStep
  <1> QED BY <1>2, <1>3, <1>4, <1>5

LEMMA AcceptKeeps ==
    ASSUME IInv, Accept
    PROVE  IInv'
  <1>1. /\ pc = "accept"
        /\ UNCHANGED <<platform, sent, pending, reused, connections, served, object, polled>>
        /\ pc' = IF platform = "unix" THEN "add" ELSE "reap"
    BY DEF Accept
  <1>2. peer \in [Sockets -> {"away", "waiting", "open"}]
        /\ platform \in {"arduino", "unix"}
    BY Lists
  <1>3. ListsAgree' /\ OnlyArduinoReaps' /\ InHandIsThere'
    BY <1>1, <1>2 DEF IInv, ListsAgree, InHand, OnlyArduinoReaps, InHandIsThere
  <1>4. CASE client' = NoClient /\ UNCHANGED peer
    <2>1. TypeOK'
      BY <1>1, <1>2, <1>4 DEF IInv, TypeOK
    <2>2. Taken' /\ ClientIsNew'
      BY <1>1, <1>4, ProgramStep DEF Live
    <2> QED BY <1>3, <2>1, <2>2 DEF IInv
  <1>5. ASSUME NEW s \in Sockets, peer[s] = "waiting",
               peer' = [peer EXCEPT ![s] = "open"], client' = s
        PROVE  IInv'
    <2>1. TypeOK'
      BY <1>1, <1>2, <1>5 DEF IInv, TypeOK
    <2>2. peer'[s] = "open" /\ \A t \in Sockets : peer'[t] = "waiting" => peer[t] = "waiting"
      BY <1>2, <1>5
    <2>3. s \notin reused => \A k \in Conn : Live(k) => object[k].transport # s
      BY <1>5 DEF IInv, Taken
    <2>4. Taken'
      BY <1>1, <2>2 DEF IInv, Taken, Live
    <2>5. ClientIsNew'
      BY <1>1, <1>2, <1>5, <2>2, <2>3 DEF ClientIsNew, Live
    <2> QED BY <1>3, <2>1, <2>4, <2>5 DEF IInv
  <1> QED BY <1>4, <1>5 DEF Accept

LEMMA ReapKeeps ==
    ASSUME IInv, Reap
    PROVE  IInv'
  <1>1. /\ pc = "reap" /\ pc' \in {"remove", "add"}
        /\ pc' = "remove" => connections # <<>>
        /\ UNCHANGED <<platform, networkVars, client, connections, served, object, polled>>
    BY DEF Reap, FirstIsDead
  <1>2. TypeOK'
    BY <1>1 DEF IInv, TypeOK, networkVars
  <1>3. ListsAgree' /\ OnlyArduinoReaps' /\ InHandIsThere'
    BY <1>1 DEF IInv, ListsAgree, InHand, OnlyArduinoReaps, InHandIsThere
  <1>4. Taken' /\ ClientIsNew'
    BY <1>1, ProgramStep DEF networkVars, Live
  <1> QED BY <1>2, <1>3, <1>4 DEF IInv

(* The connection that is no longer served is the one in hand. *)
LEMMA RemoveKeeps ==
    ASSUME IInv, RemoveDead
    PROVE  IInv'
  <1>1. /\ pc = "remove" /\ pc' = "delete"
        /\ UNCHANGED <<platform, networkVars, client, connections, object, polled>>
        /\ served' = RemoveFirst(served, Head(connections))
    BY DEF RemoveDead, RemoveConnection
  <1>2. /\ platform = "arduino" /\ served = connections /\ served # <<>>
        /\ ToSet(served) = {k \in Conn : Live(k)}
    BY <1>1 DEF IInv, OnlyArduinoReaps, InHandIsThere, ListsAgree, InHand, Live
  <1>3. served' = Tail(served)
    BY <1>1, <1>2, Lists, RemoveHead
  <1>4. /\ served' \in Seq(Conn) /\ Distinct(served')
        /\ ToSet(served') = ToSet(served) \ {Head(connections)}
    BY <1>2, <1>3, Lists, TailOfDistinct
  <1>5. TypeOK'
    BY <1>1, <1>4 DEF IInv, TypeOK, networkVars
  <1>6. ListsAgree'
    BY <1>1, <1>2, <1>3, <1>4 DEF ListsAgree, InHand, Live, Distinct
  <1>7. Taken' /\ ClientIsNew'
    BY <1>1, ProgramStep DEF networkVars, Live
  <1> QED BY <1>1, <1>2, <1>5, <1>6, <1>7 DEF IInv, OnlyArduinoReaps, InHandIsThere

(* The connection that is deleted is no longer served. *)
LEMMA DeleteKeeps ==
    ASSUME IInv, Delete
    PROVE  IInv'
  <1>1. /\ pc = "delete" /\ pc' = "erase"
        /\ UNCHANGED <<platform, networkVars, client, connections, served, polled>>
    BY DEF Delete
  <1>2. /\ platform = "arduino" /\ connections # <<>> /\ served = Tail(connections)
        /\ ToSet(served) = {k \in Conn : Live(k)} \ {Head(connections)}
    BY <1>1 DEF IInv, OnlyArduinoReaps, ListsAgree, InHand, Live
  <1>3. PICK h \in Conn : h = Head(connections) /\ object' = [object EXCEPT ![h] = Deleted]
    <2>1. connections[1] \in Conn /\ Head(connections) = connections[1]
      BY <1>2, Lists
    <2>2. object' = [object EXCEPT ![Head(connections)] = Deleted]
      BY DEF Delete
    <2> QED BY <2>1, <2>2
  <1>4. /\ object' \in [Conn -> Objects] /\ ~Live(h)'
        /\ \A j \in Conn : j # h => object'[j] = object[j] /\ (Live(j)' <=> Live(j))
    BY <1>1, <1>3, Lists, NewObjects DEF Live
  <1>5. TypeOK'
    BY <1>1, <1>4 DEF IInv, TypeOK, networkVars, Objects
  <1>6. ListsAgree'
    <2>1. ToSet(served) = {k \in Conn : object'[k].state # "Deleted"} \ {}
      BY <1>2, <1>3, <1>4 DEF Live
    <2> QED BY <1>1, <1>2, <2>1, Lists DEF ListsAgree, InHand, Distinct
  <1>7. Taken' /\ ClientIsNew'
    <2>1. \A j \in Conn : Live(j)' => Live(j) /\ object'[j].transport = object[j].transport
      BY <1>4
    <2> QED BY <1>1, <2>1, ProgramStep DEF networkVars
  <1> QED BY <1>1, <1>2, <1>5, <1>6, <1>7 DEF IInv, OnlyArduinoReaps, InHandIsThere

LEMMA EraseKeeps ==
    ASSUME IInv, Erase
    PROVE  IInv'
  <1>1. /\ pc = "erase" /\ pc' = "reap" /\ connections' = Tail(connections)
        /\ UNCHANGED <<platform, networkVars, client, served, object, polled>>
    BY DEF Erase
  <1>2. platform = "arduino" /\ served = connections' /\ connections' \in Seq(Conn)
    BY <1>1, Lists DEF IInv, OnlyArduinoReaps, ListsAgree
  <1>3. TypeOK'
    BY <1>1, <1>2 DEF IInv, TypeOK, networkVars
  <1>4. ListsAgree'
    BY <1>1, <1>2 DEF IInv, ListsAgree, InHand
  <1>5. Taken' /\ ClientIsNew'
    BY <1>1, ProgramStep DEF networkVars, Live
  <1> QED BY <1>1, <1>2, <1>3, <1>4, <1>5 DEF IInv, OnlyArduinoReaps, InHandIsThere

(* A new connection is in hand until it is served. *)
LEMMA AddKeeps ==
    ASSUME IInv, Add
    PROVE  IInv'
  <1>1. /\ pc = "add" /\ client' = NoClient
        /\ UNCHANGED <<platform, peer, sent, pending, reused, polled>>
    BY DEF Add, networkVars
  <1>2. /\ ToSet(served) = {j \in Conn : Live(j)}
        /\ platform = "arduino" => served = connections
    BY <1>1 DEF IInv, ListsAgree, InHand, Live
  <1>3. CASE pc' = "run" /\ UNCHANGED <<connections, served, object>>
    <2>1. TypeOK' /\ ListsAgree' /\ OnlyArduinoReaps' /\ InHandIsThere'
      BY <1>1, <1>3 DEF IInv, TypeOK, ListsAgree, InHand, OnlyArduinoReaps, InHandIsThere
    <2>2. Taken' /\ ClientIsNew'
      BY <1>1, <1>3, ProgramStep DEF Live
    <2> QED BY <2>1, <2>2 DEF IInv
  <1>4. ASSUME client # NoClient, NEW k \in Conn, object[k].state = "Deleted",
               object' = [object EXCEPT ![k] = New(client)],
               \/ /\ platform = "arduino" /\ pc' = "serve"
                  /\ connections' = Append(connections, k) /\ served' = served
               \/ /\ platform = "unix" /\ pc' = "run"
                  /\ connections' = connections /\ served' = Append(served, k)
        PROVE  IInv'
    <2>1. PICK s \in Sockets : s = client
      BY <1>4, Lists
    <2>2. /\ New(s) \in Objects /\ New(s).state # "Deleted" /\ New(s).transport = s
          /\ s \notin reused => /\ peer[s] # "waiting"
                                /\ \A j \in Conn : Live(j) => object[j].transport # s
      BY <1>4, <2>1, NewObjects DEF IInv, ClientIsNew
    <2>3. /\ object' \in [Conn -> Objects]
          /\ object'[k] = New(s) /\ Live(k)' /\ ~Live(k)
          /\ \A j \in Conn : j # k => object'[j] = object[j] /\ (Live(j)' <=> Live(j))
      BY <1>4, <2>1, <2>2, Lists DEF Live
    <2>4. {j \in Conn : object'[j].state # "Deleted"} = ToSet(served) \cup {k}
          /\ k \notin ToSet(served)
      BY <1>2, <2>3 DEF Live
    <2>5. /\ \A q \in Seq(Conn) : /\ Append(q, k) \in Seq(Conn) /\ Append(q, k) # <<>>
                                  /\ Last(Append(q, k)) = k /\ Front(Append(q, k)) = q
                                  /\ ToSet(Append(q, k)) = ToSet(q) \cup {k}
                                  /\ Distinct(q) /\ k \notin ToSet(q) => Distinct(Append(q, k))
      BY Appended
    <2>6. TypeOK'
      <3>1. connections' \in Seq(Conn) /\ served' \in Seq(Conn)
        BY <1>4, <2>5, Lists
      <3> QED BY <1>1, <1>4, <2>3, <3>1 DEF IInv, TypeOK, Objects
    <2>7. ListsAgree' /\ InHandIsThere' /\ OnlyArduinoReaps'
      <3>1. CASE platform = "arduino" /\ pc' = "serve"
        <4>1. /\ connections' # <<>> /\ Last(connections') = k /\ served' = Front(connections')
              /\ served' = served
          BY <1>2, <1>4, <2>5, <3>1, Lists
        <4>2. ToSet(served') = {j \in Conn : object'[j].state # "Deleted"} \ {k}
          BY <2>4, <4>1
        <4> QED BY <1>1, <2>3, <3>1, <4>1, <4>2, Lists
                DEF ListsAgree, InHand, InHandIsThere, OnlyArduinoReaps, Distinct
      <3>2. CASE platform = "unix" /\ pc' = "run"
        <4>1. /\ ToSet(served') = {j \in Conn : object'[j].state # "Deleted"} \ {}
              /\ Distinct(served')
          BY <1>4, <2>4, <2>5, <3>2, Lists
        <4> QED BY <1>1, <3>2, <4>1
                DEF ListsAgree, InHand, InHandIsThere, OnlyArduinoReaps, Distinct
      <3> QED BY <1>4, <3>1, <3>2
    <2>8. Taken'
      <3>1. ASSUME NEW j \in Conn, Live(j)'
            PROVE  /\ object'[j].transport \in Sockets
                   /\ object'[j].transport \notin reused =>
                         /\ peer[object'[j].transport] # "waiting"
                         /\ \A i \in Conn : Live(i)' /\ object'[i].transport = object'[j].transport
                               => i = j
        <4>1. CASE j = k
          BY <2>2, <2>3, <4>1
        <4>2. CASE j # k
          BY <2>2, <2>3, <3>1, <4>2 DEF IInv, Taken
        <4> QED BY <4>1, <4>2
      <3> QED BY <1>1, <3>1 DEF Taken
    <2>9. ClientIsNew'
      BY <1>1 DEF ClientIsNew
    <2> QED BY <2>6, <2>7, <2>8, <2>9 DEF IInv
  <1> QED BY <1>3, <1>4 DEF Add

LEMMA ServeKeeps ==
    ASSUME IInv, Serve
    PROVE  IInv'
  <1>1. /\ pc = "serve" /\ pc' = "run" /\ served' = Append(served, Last(connections))
        /\ UNCHANGED <<platform, networkVars, client, connections, object, polled>>
    BY DEF Serve
  <1>2. /\ connections # <<>> /\ served = Front(connections) /\ client = NoClient
        /\ ToSet(served) = {k \in Conn : Live(k)} \ {Last(connections)}
        /\ Live(Last(connections)) /\ platform = "arduino"
    BY <1>1 DEF IInv, OnlyArduinoReaps, InHandIsThere, ListsAgree, InHand, ClientIsNew, Live
  <1>3. served' = connections /\ Last(connections) \in Conn
    BY <1>1, <1>2, Lists, FrontLast
  <1>4. ToSet(served') = {k \in Conn : Live(k)} /\ Distinct(served')
    BY <1>1, <1>2, <1>3, Lists, Appended
  <1>5. TypeOK'
    BY <1>1, <1>3, Lists DEF IInv, TypeOK, networkVars
  <1>6. ListsAgree'
    BY <1>1, <1>3, <1>4 DEF ListsAgree, InHand, Live, Distinct
  <1>7. Taken' /\ ClientIsNew'
    BY <1>1, <1>2, ProgramStep DEF networkVars, Live
  <1> QED BY <1>1, <1>5, <1>6, <1>7 DEF IInv, OnlyArduinoReaps, InHandIsThere

LEMMA PollKeeps ==
    ASSUME IInv, Poll
    PROVE  IInv'
  <1>1. /\ pc = "run" /\ polled <= Len(served)
        /\ UNCHANGED <<platform, peer, sent, reused, pc, client, connections, served>>
    BY DEF Poll
  <1>2. /\ polled \in Nat \ {0} /\ served \in Seq(Conn)
        /\ object \in [Conn -> Objects]
        /\ pending \in [Sockets -> Seq(Bytes)]
    BY Lists
  <1>3. polled \in 1..Len(served) /\ polled + 1 \in Nat \ {0}
    BY <1>1, <1>2, SMT
  <1>4. PICK k \in Conn : k = served[polled] /\ Live(k) /\ object[k].transport \in Sockets
    BY <1>3, ServedFacts
  <1>5. PICK s \in Sockets : s = object[k].transport
    BY <1>4
  <1>6. /\ polled' \in Nat \ {0}
        /\ pending' \in [Sockets -> Seq(Bytes)]
        /\ \/ UNCHANGED object
           \/ object' = [object EXCEPT ![k] = Pumped(object[k], Head(pending[s]))]
    <2>1. CASE PollByte(k, s)
      <3>1. Tail(pending[s]) \in Seq(Bytes)
        <4>1. pending[s] # <<>> /\ pending[s] \in Seq(Bytes)
          BY <1>2, <2>1 DEF PollByte, Available
        <4> QED BY <4>1, HeadTailProperties
      <3> QED BY <1>2, <1>3, <2>1, <3>1 DEF PollByte
    <2>2. CASE polled' = polled + 1 /\ UNCHANGED <<pending, object>>
      BY <1>2, <1>3, <2>2
    <2> QED BY <1>4, <1>5, <2>1, <2>2 DEF Poll
  <1>7. /\ object' \in [Conn -> Objects]
        /\ \A j \in Conn : object'[j].transport = object[j].transport
                           /\ (object'[j].state = "Deleted" <=> object[j].state = "Deleted")
    <2> DEFINE k2 == Pumped(object[k], Head(pending[s]))
    <2>1. /\ k2 \in Objects /\ k2.state # "Deleted"
          /\ k2.transport = object[k].transport
      BY <1>2, <1>4, PumpedFacts DEF Live
    <2> HIDE DEF k2
    <2>2. UNCHANGED object \/ object' = [object EXCEPT ![k] = k2]
      BY <1>6 DEF k2
    <2> QED BY <1>2, <1>4, <2>1, <2>2 DEF Live
  <1>8. TypeOK'
    BY <1>1, <1>6, <1>7 DEF IInv, TypeOK, Objects
  <1>9. ListsAgree'
    <2>1. {j \in Conn : object'[j].state # "Deleted"} = {j \in Conn : object[j].state # "Deleted"}
      BY <1>7
    <2> QED BY <1>1, <2>1 DEF IInv, ListsAgree, InHand
  <1>10. Taken'
    BY <1>1, <1>7, ProgramStep DEF Live
  <1>11. ClientIsNew' /\ OnlyArduinoReaps' /\ InHandIsThere'
    BY <1>1 DEF IInv, ClientIsNew, OnlyArduinoReaps, InHandIsThere
  <1> QED BY <1>8, <1>9, <1>10, <1>11 DEF IInv

LEMMA ReturnKeeps ==
    ASSUME IInv, Return
    PROVE  IInv'
  <1>1. /\ pc = "run" /\ pc' \in {"run", "accept"} /\ polled' = 1
        /\ UNCHANGED <<platform, networkVars, client, connections, served, object>>
    BY DEF Return
  <1>2. TypeOK' /\ ListsAgree' /\ OnlyArduinoReaps' /\ InHandIsThere'
    BY <1>1 DEF IInv, TypeOK, ListsAgree, InHand, OnlyArduinoReaps, InHandIsThere, networkVars
  <1>3. client = NoClient
    BY <1>1 DEF IInv, ClientIsNew
  <1>4. Taken' /\ ClientIsNew'
    BY <1>1, <1>3, ProgramStep DEF networkVars, Live
  <1> QED BY <1>2, <1>4 DEF IInv

-----------------------------------------------------------------------------
LEMMA InitIInv == Init => IInv
  <1> SUFFICES ASSUME Init PROVE IInv
    OBVIOUS
  <1>1. \A k \in Conn : object[k] = Deleted /\ ~Live(k)
    BY NewObjects DEF Init, Live
  <1>2. Start \in Places
    BY PrefaceBytesAssumption, FrameBytesAssumption, SMT DEF Places, Start
  <1>3. TypeOK
    BY <1>2, NewObjects DEF Init, TypeOK, Objects
  <1>4. 1..Len(<<>>) = {}
    BY SMT
  <1>5. ListsAgree
    <2>1. ToSet(<<>>) = {}
      BY <1>4 DEF ToSet
    <2>2. {k \in Conn : object[k].state # "Deleted"} = {}
      BY <1>1 DEF Live
    <2> QED BY <1>4, <2>1, <2>2 DEF Init, ListsAgree, InHand
  <1>6. Taken /\ ClientIsNew /\ OnlyArduinoReaps /\ InHandIsThere
    BY <1>1 DEF Init, Taken, ClientIsNew, OnlyArduinoReaps, InHandIsThere
  <1> QED BY <1>3, <1>5, <1>6 DEF IInv

LEMMA StutterIInv == IInv /\ UNCHANGED vars => IInv'
  BY DEF vars, networkVars, programVars, IInv, TypeOK, ListsAgree, InHand, Taken, ClientIsNew,
         OnlyArduinoReaps, InHandIsThere, Live

LEMMA NextIInv == IInv /\ Next => IInv'
  BY NetworkKeeps, AcceptKeeps, ReapKeeps, RemoveKeeps, DeleteKeeps, EraseKeeps, AddKeeps,
     ServeKeeps, PollKeeps, ReturnKeeps DEF Next, Loop

LEMMA Invariance == Spec => []IInv
  <1>1. IInv /\ [Next]_vars => IInv'
    BY NextIInv, StutterIInv
  <1> QED BY InitIInv, <1>1, PTL DEF Spec

-----------------------------------------------------------------------------
(* InStep.  The place after some bytes is a fold, whose laws are these.    *)

PlaceAfter(place, byte) == NextPlace(place)

InPlace == INSTANCE FoldLaws WITH V <- Places, B <- Bytes, op <- PlaceAfter

Place(start, bytes) == FoldLeft(LAMBDA place, byte : NextPlace(place), start, bytes)

LEMMA PlaceLaws ==
    ASSUME NEW start \in Places, NEW bytes \in Seq(Bytes)
    PROVE  /\ Place(start, <<>>) = start
           /\ \A b \in Bytes : Place(start, Append(bytes, b)) = NextPlace(Place(start, bytes))
           /\ bytes # <<>> => Place(start, bytes) = Place(NextPlace(start), Tail(bytes))
  <1>1. \A p, q : InPlace!Fold(p, q) = Place(p, q)
    BY DEF InPlace!Fold, Place, PlaceAfter, InPlace!FoldLeft, FoldLeft,
           InPlace!MapThenFoldSet, MapThenFoldSet, InPlace!Max, Max
  <1>2. InPlace!Closed
    BY NextPlaceType DEF InPlace!Closed, PlaceAfter
  <1>3. Place(start, <<>>) = start
    BY <1>1, <1>2, InPlace!FoldEmpty
  <1>4. ASSUME NEW b \in Bytes
        PROVE  Place(start, Append(bytes, b)) = NextPlace(Place(start, bytes))
    BY <1>1, <1>2, InPlace!FoldAppend DEF PlaceAfter
  <1>5. ASSUME bytes # <<>> PROVE Place(start, bytes) = Place(NextPlace(start), Tail(bytes))
    BY <1>1, <1>2, <1>5, InPlace!FoldCons DEF PlaceAfter
  <1> QED BY <1>3, <1>4, <1>5

(* A connection that has not failed follows the client it reads from. *)
Follows(k) ==
    /\ object[k].state # "Failed"
    /\ object[k].transport \notin reused
    /\ peer[object[k].transport] = "open"
    => Place(object[k].place, pending[object[k].transport]) = sent[object[k].transport]

(* What a client without a connection has sent is unread from the start. *)
Unread(s) ==
    /\ peer[s] = "away" => sent[s] = Start
    /\ s \notin reused /\ (peer[s] = "waiting" \/ (peer[s] = "open" /\ s = client))
          => Place(Start, pending[s]) = sent[s]

StepInv == (\A k \in Conn : Live(k) => Follows(k)) /\ (\A s \in Sockets : Unread(s))

(* A step of the network changes one socket. *)
LEMMA StepInvNetwork ==
    ASSUME IInv, StepInv, NEW s \in Sockets,
           \/ Connect(s)
           \/ GiveUp(s)
           \/ \E byte \in Bytes : Send(s, byte)
           \/ \E inOrder \in BOOLEAN : Leave(s, inOrder)
    PROVE  StepInv'
  <1>1. /\ peer \in [Sockets -> {"away", "waiting", "open"}]
        /\ sent \in [Sockets -> Places]
        /\ pending \in [Sockets -> Seq(Bytes)]
        /\ object \in [Conn -> Objects]
    BY Lists
  <1>2. UNCHANGED <<object, client>>
    BY DEF Connect, GiveUp, Send, Leave, programVars
  <1>3. \A k \in Conn : Live(k)' <=> Live(k)
    BY <1>2 DEF Live
  <1>4. \A t \in Sockets \ {s} : /\ peer'[t] = peer[t] /\ sent'[t] = sent[t]
                                 /\ pending'[t] = pending[t]
                                 /\ t \in reused' <=> t \in reused
    BY <1>1 DEF Connect, GiveUp, Send, Leave
  <1>5. \A k \in Conn : Live(k) => object[k].transport \in Sockets
    BY DEF IInv, Taken
  <1>6. SUFFICES /\ \A k \in Conn : Live(k) /\ object[k].transport = s => Follows(k)'
                 /\ Unread(s)'
    <2>1. ASSUME NEW k \in Conn, Live(k), object[k].transport # s PROVE Follows(k)'
      <3>1. object[k].transport \in Sockets \ {s} /\ Follows(k)
        BY <1>5, <2>1 DEF StepInv
      <3> QED BY <1>2, <1>4, <3>1 DEF Follows
    <2>2. ASSUME NEW t \in Sockets \ {s} PROVE Unread(t)'
      <3>1. Unread(t)
        BY DEF StepInv
      <3> QED BY <1>2, <1>4, <3>1 DEF Unread
    <2> QED BY <1>3, <2>1, <2>2 DEF StepInv
  <1>7. CASE Connect(s)
    <2>1. /\ peer[s] = "away" /\ peer'[s] = "waiting" /\ pending'[s] = <<>>
          /\ sent'[s] = sent[s]
      BY <1>1, <1>7 DEF Connect
    <2>2. sent[s] = Start /\ Place(Start, <<>>) = Start
      BY <2>1, PlaceLaws, StartPlace, EmptySeq DEF StepInv, Unread
    <2> QED BY <1>2, <2>1, <2>2 DEF Unread, Follows
  <1>8. CASE GiveUp(s)
    <2>1. peer'[s] = "away" /\ sent'[s] = Start
      BY <1>1, <1>8 DEF GiveUp
    <2> QED BY <1>2, <2>1 DEF Unread, Follows
  <1>9. ASSUME NEW byte \in Bytes, Send(s, byte)
        PROVE  (\A k \in Conn : Live(k) /\ object[k].transport = s => Follows(k)') /\ Unread(s)'
    <2>1. /\ UNCHANGED <<peer, reused>> /\ peer[s] # "away"
          /\ pending'[s] = Append(pending[s], byte)
          /\ sent'[s] = NextPlace(sent[s])
          /\ pending[s] \in Seq(Bytes)
      BY <1>1, <1>9 DEF Send
    <2>2. \A p \in Places : Place(p, pending'[s]) = NextPlace(Place(p, pending[s]))
      BY <2>1, PlaceLaws
    <2>3. ASSUME NEW k \in Conn, Live(k), object[k].transport = s PROVE Follows(k)'
      <3>1. Follows(k) /\ object[k].place \in Places
        BY <1>1, <2>3 DEF StepInv, Objects
      <3> QED BY <1>2, <2>1, <2>2, <2>3, <3>1 DEF Follows
    <2>4. Unread(s)'
      <3>1. Unread(s)
        BY DEF StepInv
      <3> QED BY <1>2, <2>1, <2>2, <3>1, StartPlace DEF Unread
    <2> QED BY <2>3, <2>4
  <1>10. ASSUME NEW inOrder \in BOOLEAN, Leave(s, inOrder)
         PROVE  (\A k \in Conn : Live(k) /\ object[k].transport = s => Follows(k)') /\ Unread(s)'
    <2>1. peer'[s] = "away" /\ sent'[s] = Start
      BY <1>1, <1>10 DEF Leave
    <2> QED BY <1>2, <2>1 DEF Follows, Unread
  <1> QED BY <1>7, <1>8, <1>9, <1>10

LEMMA StepInvAccept ==
    ASSUME IInv, StepInv, Accept
    PROVE  StepInv'
  <1>1. UNCHANGED <<sent, pending, reused, object>> /\ pc = "accept"
    BY DEF Accept
  <1>2. peer \in [Sockets -> {"away", "waiting", "open"}] /\ client = NoClient
    BY <1>1, Lists DEF IInv, ClientIsNew
  <1>3. \A k \in Conn : Live(k) =>
            /\ object[k].transport \in Sockets
            /\ object[k].transport \notin reused => peer[object[k].transport] # "waiting"
    BY DEF IInv, Taken
  <1>4. CASE client' = NoClient /\ UNCHANGED peer
    BY <1>1, <1>2, <1>4 DEF StepInv, Follows, Unread, Live
  <1>5. ASSUME NEW s \in Sockets, peer[s] = "waiting",
               peer' = [peer EXCEPT ![s] = "open"], client' = s
        PROVE  StepInv'
    <2>1. peer'[s] = "open" /\ \A t \in Sockets \ {s} : peer'[t] = peer[t]
      BY <1>2, <1>5
    <2>2. ASSUME NEW k \in Conn, Live(k) PROVE Follows(k)'
      <3>1. CASE object[k].transport \in reused
        BY <1>1, <3>1 DEF Follows
      <3>2. CASE object[k].transport \notin reused
        <4>1. object[k].transport \in Sockets \ {s} /\ Follows(k)
          BY <1>3, <1>5, <2>2, <3>2 DEF StepInv
        <4> QED BY <1>1, <2>1, <4>1 DEF Follows
      <3> QED BY <3>1, <3>2
    <2>3. ASSUME NEW t \in Sockets PROVE Unread(t)'
      <3>1. Unread(t) /\ Unread(s)
        BY DEF StepInv
      <3> QED BY <1>1, <1>5, <2>1, <3>1 DEF Unread
    <2> QED BY <1>1, <2>2, <2>3 DEF StepInv, Live
  <1> QED BY <1>4, <1>5 DEF Accept

(* Removing a connection changes nothing for those that stay. *)
LEMMA StepInvDelete ==
    ASSUME IInv, StepInv, Delete
    PROVE  StepInv'
  <1>1. UNCHANGED <<networkVars, client>> /\ object' = [object EXCEPT ![Head(connections)] = Deleted]
    BY DEF Delete
  <1>2. \A j \in Conn : Live(j)' => object'[j] = object[j] /\ Live(j)
    BY <1>1, Lists, NewObjects DEF Live
  <1>3. ASSUME NEW j \in Conn, Live(j)' PROVE Follows(j)'
    <2>1. object'[j] = object[j] /\ Follows(j)
      BY <1>2, <1>3 DEF StepInv
    <2> QED BY <1>1, <2>1 DEF Follows, networkVars
  <1>4. ASSUME NEW s \in Sockets PROVE Unread(s)'
    <2>1. Unread(s)
      BY DEF StepInv
    <2> QED BY <1>1, <2>1 DEF Unread, networkVars
  <1> QED BY <1>3, <1>4 DEF StepInv

LEMMA StepInvAdd ==
    ASSUME IInv, StepInv, Add
    PROVE  StepInv'
  <1>1. UNCHANGED <<peer, sent, pending, reused>> /\ client' = NoClient
    BY DEF Add, networkVars
  <1>2. ASSUME NEW s \in Sockets PROVE Unread(s)'
    <2>1. Unread(s) /\ s # NoClient
      BY NoClientAssumption DEF StepInv
    <2> QED BY <1>1, <2>1 DEF Unread
  <1>3. CASE UNCHANGED object
    BY <1>1, <1>2, <1>3 DEF StepInv, Follows, Live
  <1>4. ASSUME client # NoClient, NEW k \in Conn, object' = [object EXCEPT ![k] = New(client)]
        PROVE  StepInv'
    <2>1. PICK s \in Sockets : s = client
      BY <1>4, Lists
    <2>2. object \in [Conn -> Objects] /\ Unread(s)
      BY Lists DEF StepInv
    <2>3. /\ object'[k].place = Start /\ object'[k].transport = s
          /\ \A j \in Conn \ {k} : object'[j] = object[j]
      BY <1>4, <2>1, <2>2 DEF New
    <2>4. Follows(k)'
      BY <1>1, <2>1, <2>2, <2>3 DEF Follows, Unread
    <2>5. ASSUME NEW j \in Conn, j # k, Live(j)' PROVE Follows(j)'
      <3>1. object'[j] = object[j] /\ Follows(j)
        BY <2>3, <2>5 DEF StepInv, Live
      <3> QED BY <1>1, <3>1 DEF Follows
    <2> QED BY <1>2, <2>4, <2>5 DEF StepInv
  <1> QED BY <1>3, <1>4 DEF Add

(* A connection that is given a byte goes to the next place of its client. *)
LEMMA StepInvPoll ==
    ASSUME IInv, StepInv, Poll
    PROVE  StepInv'
  <1>1. pc = "run" /\ polled <= Len(served) /\ UNCHANGED <<peer, sent, reused, client>>
    BY DEF Poll
  <1>2. /\ polled \in Nat \ {0} /\ served \in Seq(Conn)
        /\ object \in [Conn -> Objects]
        /\ pending \in [Sockets -> Seq(Bytes)]
        /\ client = NoClient
    BY <1>1, Lists DEF IInv, ClientIsNew
  <1>3. polled \in 1..Len(served)
    BY <1>1, <1>2, SMT
  <1>4. PICK k \in Conn :
            /\ k = served[polled] /\ Live(k) /\ object[k].transport \in Sockets
            /\ object[k].transport \notin reused =>
                  /\ peer[object[k].transport] # "waiting"
                  /\ \A j \in Conn : Live(j) /\ object[j].transport = object[k].transport => j = k
    BY <1>3, ServedFacts DEF IInv, Taken
  <1>5. PICK s \in Sockets : s = object[k].transport
    BY <1>4
  <1>6. CASE UNCHANGED <<pending, object>>
    BY <1>1, <1>6 DEF StepInv, Follows, Unread, Live
  <1>7. CASE PollByte(k, s)
    <2> DEFINE k2 == Pumped(object[k], Head(pending[s]))
    <2>1. /\ pending[s] # <<>> /\ pending[s] \in Seq(Bytes)
          /\ pending' = [pending EXCEPT ![s] = Tail(pending[s])]
          /\ object' = [object EXCEPT ![k] = k2]
      BY <1>2, <1>7 DEF PollByte, Available
    <2>2. object[k] \in Objects /\ object[k].state # "Deleted" /\ object[k].place \in Places
      BY <1>2, <1>4 DEF Live, Objects
    <2>3. k2.transport = s
      BY <1>5, <2>2, PumpedFacts
    <2>4. k2.state # "Failed" => /\ object[k].state # "Failed"
                                 /\ k2.place = NextPlace(object[k].place)
      <3>1. CASE object[k].state = "Failed"
        BY <3>1 DEF Pumped
      <3>2. CASE object[k].state # "Failed" /\ Head(pending[s]) = "bad"
        BY <2>2, <3>2 DEF Pumped, Objects
      <3>3. CASE object[k].state # "Failed" /\ Head(pending[s]) # "bad"
        <4> DEFINE place == NextPlace(object[k].place)
        <4> HIDE DEF place
        <4>1. k2 = [object[k] EXCEPT !.place = place,
                        !.state = IF place < Boundary THEN "Started" ELSE "Connected"]
          BY <3>3 DEF Pumped, place
        <4>2. k2.place = place
          BY <2>2, <4>1 DEF Objects
        <4> QED BY <3>3, <4>2 DEF place
      <3> QED BY <3>1, <3>2, <3>3
    <2> HIDE DEF k2
    <2>5. /\ pending'[s] = Tail(pending[s]) /\ \A t \in Sockets \ {s} : pending'[t] = pending[t]
          /\ object'[k] = k2 /\ \A j \in Conn \ {k} : object'[j] = object[j]
      BY <1>2, <2>1
    <2>6. Place(object[k].place, pending[s]) = Place(NextPlace(object[k].place), Tail(pending[s]))
      BY <2>1, <2>2, PlaceLaws
    <2>7. Follows(k)'
      <3>1. Follows(k)
        BY <1>4 DEF StepInv
      <3> QED BY <1>1, <1>5, <2>3, <2>4, <2>5, <2>6, <3>1 DEF Follows
    <2>8. ASSUME NEW j \in Conn, j # k, Live(j)' PROVE Follows(j)'
      <3>1. object'[j] = object[j] /\ Live(j) /\ Follows(j) /\ object[j].transport \in Sockets
        BY <2>5, <2>8 DEF StepInv, Live, IInv, Taken
      <3>2. object[j].transport = s => s \in reused
        BY <1>4, <1>5, <2>8, <3>1
      <3> QED BY <1>1, <2>5, <3>1, <3>2 DEF Follows
    <2>9. ASSUME NEW t \in Sockets PROVE Unread(t)'
      <3>1. Unread(t) /\ t # NoClient
        BY NoClientAssumption DEF StepInv
      <3> QED BY <1>1, <1>2, <1>4, <1>5, <2>5, <3>1 DEF Unread
    <2> QED BY <2>7, <2>8, <2>9 DEF StepInv
  <1> QED BY <1>4, <1>5, <1>6, <1>7 DEF Poll

LEMMA StepInvInvariance == Spec => [](IInv /\ StepInv)
  <1>1. Init => IInv /\ StepInv
    <2> SUFFICES ASSUME Init PROVE StepInv
      BY InitIInv
    <2>1. \A k \in Conn : ~Live(k)
      BY NewObjects DEF Init, Live
    <2>2. \A s \in Sockets : Unread(s)
      BY DEF Init, Unread
    <2> QED BY <2>1, <2>2 DEF StepInv
  <1>2. IInv /\ StepInv /\ [Next]_vars => (IInv /\ StepInv)'
    <2> SUFFICES ASSUME IInv, StepInv, [Next]_vars PROVE StepInv'
      BY NextIInv, StutterIInv
    <2>1. CASE UNCHANGED vars
      BY <2>1 DEF vars, networkVars, programVars, StepInv, Follows, Unread, Live
    <2>2. CASE Reap \/ RemoveDead \/ Erase \/ Serve \/ Return
      <3>1. UNCHANGED <<networkVars, client, object>>
        BY <2>2 DEF Reap, RemoveDead, Erase, Serve, Return
      <3> QED BY <3>1 DEF networkVars, StepInv, Follows, Unread, Live
    <2> QED BY <2>1, <2>2, StepInvNetwork, StepInvAccept, StepInvDelete, StepInvAdd, StepInvPoll
            DEF Next, Loop
  <1> QED BY <1>1, <1>2, PTL DEF Spec

-----------------------------------------------------------------------------
(* The results.                                                            *)

(* The variables of loop() and runOnce stay in their types, whatever the   *)
(* clients do: no position before the list, no transport that is none.     *)
THEOREM TypeCorrect == Spec => []TypeOK
  <1>1. IInv => TypeOK
    BY DEF IInv
  <1> QED BY Invariance, <1>1, PTL

(* The list of server.ino's loop() and GRPCServer::connections name the    *)
(* same connections, in the same order, at every statement that accepts,   *)
(* removes, deletes, adds or polls: they differ by the connection that is  *)
(* being removed or added, and no deleted object is polled.                *)
THEOREM ListsNeverPart == Spec => []ListsAgree
  <1>1. IInv => ListsAgree
    BY DEF IInv
  <1> QED BY Invariance, <1>1, PTL

(* runOnce gives each connection the bytes of its own client, each of them *)
(* once and in order: however the statements of the loop and the clients'  *)
(* steps interleave, wherever objects are allocated, and whatever sockets  *)
(* carried before.  It is said of the connections whose socket has not     *)
(* been given to a new client before they were reaped.                     *)
THEOREM AlwaysInStep == Spec => []InStep
  <1>1. IInv /\ StepInv => InStep
    <2> SUFFICES ASSUME IInv, StepInv, NEW i \in 1..Len(served),
                        object[served[i]].state # "Failed",
                        object[served[i]].transport \notin reused,
                        peer[object[served[i]].transport] = "open"
                 PROVE  FoldLeft(LAMBDA place, byte : NextPlace(place), object[served[i]].place,
                                 pending[object[served[i]].transport])
                          = sent[object[served[i]].transport]
      BY DEF InStep
    <2>1. served[i] \in Conn /\ Live(served[i])
      BY ServedFacts
    <2>2. Follows(served[i])
      BY <2>1 DEF StepInv
    <2> QED BY <2>2 DEF Follows, Place
  <1> QED BY StepInvInvariance, <1>1, PTL
=============================================================================
