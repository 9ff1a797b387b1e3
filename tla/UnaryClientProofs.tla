------------------------- MODULE UnaryClientProofs -------------------------
(***************************************************************************)
(* Proofs about GRPCServer, for every set of connections, addresses,       *)
(* identifiers and handlers, and any frames.                               *)
(*                                                                         *)
(* Then about UnaryClient: all of that holds of the server these clients   *)
(* talk to, whether or not their connections fail; what the clients are    *)
(* told; and that all of it implements UnaryCall.                          *)
(***************************************************************************)
EXTENDS UnaryClient, WellFoundedInduction, TLAPS

-----------------------------------------------------------------------------
(* Searching and erasing in the server's vectors.                          *)

LEMMA FirstIndexIn ==
    ASSUME NEW I, I \subseteq Nat, I # {}
    PROVE  FirstIndex(I) \in I
  <1>1. PICK i \in I : \A j \in I : ~(<<j, i>> \in OpToRel(<, Nat))
    BY NatLessThanWellFounded, WFMin
  <1>2. ASSUME NEW j \in I PROVE i <= j
    <2>1. <<j, i>> \in OpToRel(<, Nat) <=> j < i
      <3>1. <<j, i>> \in Nat \X Nat /\ <<j, i>>[1] = j /\ <<j, i>>[2] = i
        OBVIOUS
      <3> QED BY <3>1, Zenon DEF OpToRel
    <2>2. ~(j < i)
      BY <1>1, <2>1
    <2> QED BY <2>2, SMT
  <1> QED BY <1>2 DEF FirstIndex

(* Erasing position i: every element left was there, at another position. *)
LEMMA Erased ==
    ASSUME NEW S, NEW s \in Seq(S), NEW i \in 1..Len(s)
    PROVE  /\ RemoveAt(s, i) \in Seq(S)
           /\ Len(RemoveAt(s, i)) = Len(s) - 1
           /\ \A j \in 1..(Len(s) - 1) :
                 RemoveAt(s, i)[j] = s[IF j < i THEN j ELSE j + 1]
  <1> DEFINE front == SubSeq(s, 1, i - 1)
             back == SubSeq(s, i + 1, Len(s))
  <1>1. front \in Seq(S) /\ Len(front) = i - 1
        /\ \A j \in 1..(i - 1) : front[j] = s[j]
    BY SMT
  <1>2. back \in Seq(S) /\ Len(back) = Len(s) - i
        /\ \A j \in 1..(Len(s) - i) : back[j] = s[i + j]
    BY SMT
  <1>3. RemoveAt(s, i) = front \o back
    BY DEF RemoveAt
  <1> HIDE DEF front, back
  <1>4. Len(front \o back) = Len(s) - 1 /\ front \o back \in Seq(S)
    BY <1>1, <1>2, SMT
  <1>5. \A j \in 1..(Len(s) - 1) :
           (front \o back)[j] = IF j < i THEN front[j] ELSE back[j - (i - 1)]
    BY <1>1, <1>2, SMT
  <1>6. \A j \in 1..(Len(s) - 1) :
           (front \o back)[j] = s[IF j < i THEN j ELSE j + 1]
    BY <1>1, <1>2, <1>5, SMT
  <1> QED BY <1>3, <1>4, <1>6

-----------------------------------------------------------------------------
(* The inductive invariant.  The server's list holds the connections that  *)
(* exist, so that one it pumps is there to be written to.  The preface of  *)
(* a connection in Started is incomplete, so its position stays in range.  *)
ServedAreLive == connections = {c \in Conn : connState[c] # "Deleted"}

PrefaceUnfinished ==
    \A c \in Conn : connState[c] = "Started" => prefacePos[c] < CONNECTION_PREFACE_SIZE

IInv ==
    /\ TypeOK
    /\ ServedAreLive
    /\ StreamOwnership
    /\ NothingBeforeAck
    /\ CallsLive
    /\ PrefaceUnfinished

(* What getStream returns: nullptr, or a pointer of the connection's table *)
(* to a live Stream object that writes to the connection.                  *)
LEMMA GetStreamFacts ==
    ASSUME IInv, NEW c \in Conn, NEW id, GetStream(c, id) # Null
    PROVE  /\ \E i \in 1..Len(streams[c]) : streams[c][i] = GetStream(c, id)
           /\ GetStream(c, id) \in Addr
           /\ heap[GetStream(c, id)] # Null
           /\ heap[GetStream(c, id)].frameWriter = c
  <1> DEFINE I == {i \in 1..Len(streams[c]) : heap[streams[c][i]].id = id}
  <1>1. streams[c] \in Seq(Addr)
    BY DEF IInv, TypeOK, ConnectionTypeOK
  <1>2. I # {} /\ GetStream(c, id) = streams[c][FirstIndex(I)]
    BY DEF GetStream
  <1>3. FirstIndex(I) \in I
    <2>1. I \subseteq Nat
      BY <1>1
    <2> QED BY <1>2, <2>1, FirstIndexIn
  <1>4. FirstIndex(I) \in 1..Len(streams[c])
    BY <1>3
  <1> HIDE DEF I
  <1>5. streams[c][FirstIndex(I)] \in Addr
    BY <1>1, <1>4
  <1> QED BY <1>2, <1>4, <1>5 DEF IInv, StreamOwnership

(* What findStream returns: 0 if the Stream has no GRPCStream, or the      *)
(* position of one it has.                                                 *)
LEMMA FindStreamFacts ==
    ASSUME IInv, NEW stream
    PROVE  /\ FindStream(stream) = 0 =>
                 \A i \in 1..Len(grpcStreams) : grpcStreams[i].stream # stream
           /\ FindStream(stream) # 0 =>
                 /\ FindStream(stream) \in 1..Len(grpcStreams)
                 /\ grpcStreams[FindStream(stream)].stream = stream
  <1> DEFINE I == {i \in 1..Len(grpcStreams) : grpcStreams[i].stream = stream}
  <1>1. Len(grpcStreams) \in Nat
    BY DEF IInv, TypeOK
  <1>2. CASE I = {}
    <2>1. FindStream(stream) = 0
      BY <1>2 DEF FindStream
    <2>2. \A i \in 1..Len(grpcStreams) : grpcStreams[i].stream # stream
      BY <1>2
    <2> HIDE DEF I
    <2> QED BY <2>1, <2>2, Zenon
  <1>3. CASE I # {}
    <2>1. FirstIndex(I) \in I
      BY <1>1, <1>3, FirstIndexIn
    <2>2. FindStream(stream) = FirstIndex(I)
      BY <1>3 DEF FindStream
    <2> HIDE DEF I
    <2>3. I \subseteq 1..Len(grpcStreams) /\ \A i \in I : grpcStreams[i].stream = stream
      BY DEF I
    <2>4. FindStream(stream) \in 1..Len(grpcStreams)
      BY <2>1, <2>2, <2>3
    <2>5. FindStream(stream) # 0
      BY <1>1, <2>4
    <2> QED BY <2>1, <2>2, <2>3, <2>4, <2>5, Zenon
  <1> QED BY <1>2, <1>3

LEMMA GRPCStreamType ==
    ASSUME NEW g \in Seq([stream : Addr, handler : Handlers]), NEW i \in 1..Len(g)
    PROVE  g[i].stream \in Addr /\ g[i].handler \in Handlers
  <1>1. ASSUME NEW S, NEW s \in Seq(S), NEW j \in 1..Len(s) PROVE s[j] \in S
    OBVIOUS
  <1>2. g[i] \in [stream : Addr, handler : Handlers]
    BY <1>1, Zenon
  <1> QED BY <1>2

-----------------------------------------------------------------------------
(* A stream ends: its GRPCStream goes first, then its Stream object.       *)

LEMMA CloseTables ==
    ASSUME IInv, NEW c \in Conn, NEW id,
           ResetStream(GetStream(c, id)), DeallocateStream(c, id),
           UNCHANGED unaryMethods
    PROVE  /\ streams' \in [Conn -> Seq(Addr)]
           /\ heap' \in [Addr -> Stream \cup {Null}]
           /\ grpcStreams' \in Seq([stream : Addr, handler : Handlers])
           /\ StreamOwnership'
           /\ CallsLive'
           /\ \A d \in Conn : streams[d] = <<>> => streams'[d] = <<>>
  <1> DEFINE a == GetStream(c, id)
             k == FindStream(a)
  <1>1. /\ streams \in [Conn -> Seq(Addr)]
        /\ heap \in [Addr -> Stream \cup {Null}]
        /\ grpcStreams \in Seq([stream : Addr, handler : Handlers])
    BY DEF IInv, TypeOK, ConnectionTypeOK
  <1>2. StreamOwnership /\ CallsLive
    BY DEF IInv
  <1>0. \A i \in 1..Len(grpcStreams) : grpcStreams[i].stream \in Addr
    BY <1>1, GRPCStreamType
  <1>3. CASE a = Null
    <2>1. UNCHANGED <<heap, streams>>
      BY <1>3 DEF DeallocateStream
    <2>2. \A i \in 1..Len(grpcStreams) : grpcStreams[i].stream # a
      BY <1>0, <1>3, NullAssumption
    <2>3. k = 0
      BY <2>2, FindStreamFacts
    <2>4. UNCHANGED grpcStreams
      BY <2>3 DEF ResetStream
    <2> QED BY <1>1, <1>2, <2>1, <2>4 DEF StreamOwnership, CallsLive
  <1>4. CASE a # Null
    <2> DEFINE I == {i \in 1..Len(streams[c]) : streams[c][i] = a}
               n == FirstIndex(I)
               s == streams[c]
    <2>1. /\ a \in Addr /\ heap[a] # Null /\ heap[a].frameWriter = c
          /\ \E i \in 1..Len(s) : s[i] = a
      BY <1>4, GetStreamFacts
    <2>2. s \in Seq(Addr)
      BY <1>1
    <2>3. n \in 1..Len(s) /\ s[n] = a
      <3>1. I # {} /\ I \subseteq Nat
        BY <2>1, <2>2
      <3>2. n \in I
        BY <3>1, FirstIndexIn
      <3> QED BY <3>2
    <2>4. /\ heap' = [heap EXCEPT ![a] = Null]
          /\ streams' = [streams EXCEPT ![c] = RemoveAt(s, n)]
      BY <1>4 DEF DeallocateStream
    <2>5. /\ RemoveAt(s, n) \in Seq(Addr)
          /\ Len(RemoveAt(s, n)) = Len(s) - 1
          /\ \A j \in 1..(Len(s) - 1) :
                RemoveAt(s, n)[j] = s[IF j < n THEN j ELSE j + 1]
      BY <2>2, <2>3, Erased
    <2> HIDE DEF n, a, k
    <2>6. /\ streams' \in [Conn -> Seq(Addr)]
          /\ heap' \in [Addr -> Stream \cup {Null}]
          /\ streams'[c] = RemoveAt(s, n)
          /\ \A d \in Conn : d # c => streams'[d] = streams[d]
          /\ heap'[a] = Null
          /\ \A b \in Addr : b # a => heap'[b] = heap[b]
      BY <1>1, <2>1, <2>4, <2>5
    <2>7. StreamOwnership'
      <3>1. ASSUME NEW d \in Conn, NEW i \in 1..Len(streams'[d])
            PROVE  heap'[streams'[d][i]] # Null /\ heap'[streams'[d][i]].frameWriter = d
        <4>1. CASE d # c
          <5>1. streams'[d] = streams[d] /\ i \in 1..Len(streams[d])
            BY <2>6, <3>1, <4>1
          <5>2. /\ streams[d][i] \in Addr /\ heap[streams[d][i]] # Null
                /\ heap[streams[d][i]].frameWriter = d
            BY <1>1, <1>2, <5>1 DEF StreamOwnership
          <5>3. streams[d][i] # a
            BY <2>1, <4>1, <5>2
          <5> QED BY <2>6, <5>1, <5>2, <5>3
        <4>2. CASE d = c
          <5>1. PICK j \in 1..Len(s) : j # n /\ streams'[c][i] = s[j]
            <6>1. i \in 1..(Len(s) - 1) /\ streams'[c] = RemoveAt(s, n)
              BY <2>5, <2>6, <3>1, <4>2
            <6>2. (IF i < n THEN i ELSE i + 1) \in 1..Len(s) \ {n}
              BY <2>2, <2>3, <6>1, SMT
            <6> QED BY <2>5, <6>1, <6>2
          <5>2. s[j] # a
            BY <1>2, <2>3, <5>1 DEF StreamOwnership
          <5>3. s[j] \in Addr /\ heap[s[j]] # Null /\ heap[s[j]].frameWriter = c
            BY <1>1, <1>2, <5>1 DEF StreamOwnership
          <5> QED BY <2>6, <4>2, <5>1, <5>2, <5>3
        <4> QED BY <4>1, <4>2
      <3>2. ASSUME NEW d \in Conn, NEW i \in 1..Len(streams'[d]),
                   NEW j \in 1..Len(streams'[d]), streams'[d][i] = streams'[d][j]
            PROVE  i = j
        <4>1. CASE d # c
          BY <1>2, <2>6, <3>2, <4>1 DEF StreamOwnership
        <4>2. CASE d = c
          <5>1. i \in 1..(Len(s) - 1) /\ j \in 1..(Len(s) - 1)
            BY <2>5, <2>6, <3>2, <4>2
          <5> DEFINE p(x) == IF x < n THEN x ELSE x + 1
          <5>2. /\ p(i) \in 1..Len(s) /\ p(j) \in 1..Len(s)
                /\ p(i) = p(j) => i = j
            BY <2>2, <2>3, <5>1, SMT
          <5>3. s[p(i)] = s[p(j)]
            BY <2>5, <2>6, <3>2, <4>2, <5>1
          <5> QED BY <1>2, <5>2, <5>3 DEF StreamOwnership
        <4> QED BY <4>1, <4>2
      <3> QED BY <3>1, <3>2 DEF StreamOwnership
    <2>8. /\ grpcStreams' \in Seq([stream : Addr, handler : Handlers])
          /\ CallsLive'
      <3>1. CASE k = 0
        <4>1. UNCHANGED grpcStreams
          BY <3>1 DEF ResetStream, k, a
        <4>2. \A i \in 1..Len(grpcStreams) : grpcStreams[i].stream # a
          BY <3>1, FindStreamFacts DEF k
        <4>3. \A i \in 1..Len(grpcStreams) : heap'[grpcStreams[i].stream] # Null
          BY <1>0, <1>2, <2>6, <4>2 DEF CallsLive
        <4> QED BY <1>1, <1>2, <4>1, <4>3 DEF CallsLive
      <3>2. CASE k # 0
        <4> DEFINE g == grpcStreams
                   r == RemoveAt(g, k)
        <4>1. k \in 1..Len(g) /\ g[k].stream = a
          BY <3>2, FindStreamFacts DEF k
        <4>2. grpcStreams' = r
          BY <3>2 DEF ResetStream, k, a
        <4>3. /\ r \in Seq([stream : Addr, handler : Handlers])
              /\ Len(r) = Len(g) - 1
              /\ \A j \in 1..(Len(g) - 1) : r[j] = g[IF j < k THEN j ELSE j + 1]
          BY <1>1, <4>1, Erased
        <4> DEFINE p(x) == IF x < k THEN x ELSE x + 1
        <4>4. ASSUME NEW i \in 1..Len(r)
              PROVE  p(i) \in 1..Len(g) /\ p(i) # k /\ r[i] = g[p(i)]
          BY <1>1, <4>1, <4>3, SMT
        <4>5. ASSUME NEW i \in 1..Len(r), NEW j \in 1..Len(r), p(i) = p(j)
              PROVE  i = j
          BY <1>1, <4>1, <4>3, <4>5, SMT
        <4> HIDE DEF p, r
        <4>6. ASSUME NEW i \in 1..Len(r)
              PROVE  /\ heap'[r[i].stream] # Null
                     /\ r[i].handler \in ToSet(unaryMethods)
          <5>1. g[p(i)].stream # a
            BY <1>2, <4>1, <4>4 DEF CallsLive
          <5>2. g[p(i)].stream \in Addr
            BY <1>0, <4>4
          <5> QED BY <1>2, <2>6, <4>4, <5>1, <5>2 DEF CallsLive
        <4>7. ASSUME NEW i \in 1..Len(r), NEW j \in 1..Len(r), r[i].stream = r[j].stream
              PROVE  i = j
          BY <1>2, <4>4, <4>5, <4>7 DEF CallsLive
        <4> QED BY <4>2, <4>3, <4>6, <4>7 DEF CallsLive
      <3> QED BY <3>1, <3>2
    <2>9. \A d \in Conn : streams[d] = <<>> => streams'[d] = <<>>
      <3>1. streams[c] # <<>>
        BY <2>3
      <3> QED BY <2>6, <3>1
    <2> QED BY <2>6, <2>7, <2>8, <2>9
  <1> QED BY <1>3, <1>4

-----------------------------------------------------------------------------
(* A stream begins, at an address that was free: no pointer of a table and *)
(* no GRPCStream refers to it yet.                                         *)
LEMMA AllocateTables ==
    ASSUME IInv, NEW c \in Conn, NEW id \in IDs, NEW stream \in Addr,
           AllocateStream(c, id, stream), UNCHANGED unaryMethods
    PROVE  /\ streams' \in [Conn -> Seq(Addr)]
           /\ heap' \in [Addr -> Stream \cup {Null}]
           /\ StreamOwnership'
           /\ \A i \in 1..Len(grpcStreams) :
                 /\ grpcStreams[i].stream # stream
                 /\ heap'[grpcStreams[i].stream] # Null
           /\ heap'[stream] # Null
           /\ \A d \in Conn \ {c} : streams'[d] = streams[d]
  <1> DEFINE s == streams[c]
             object == [frameWriter |-> c, id |-> id]
  <1>1. /\ streams \in [Conn -> Seq(Addr)]
        /\ heap \in [Addr -> Stream \cup {Null}]
        /\ grpcStreams \in Seq([stream : Addr, handler : Handlers])
        /\ s \in Seq(Addr)
    BY DEF IInv, TypeOK, ConnectionTypeOK
  <1>2. StreamOwnership /\ CallsLive
    BY DEF IInv
  <1>3. object \in Stream /\ object.frameWriter = c /\ object # Null
    BY NullAssumption DEF Stream
  <1>4. /\ heap[stream] = Null
        /\ heap' = [heap EXCEPT ![stream] = object]
        /\ streams' = [streams EXCEPT ![c] = Append(s, stream)]
    BY DEF AllocateStream
  <1> HIDE DEF object
  <1>5. /\ heap' \in [Addr -> Stream \cup {Null}]
        /\ heap'[stream] = object
        /\ \A b \in Addr : b # stream => heap'[b] = heap[b]
    BY <1>1, <1>3, <1>4
  <1>6. /\ Append(s, stream) \in Seq(Addr)
        /\ Len(Append(s, stream)) = Len(s) + 1
        /\ Append(s, stream)[Len(s) + 1] = stream
        /\ \A i \in 1..Len(s) : Append(s, stream)[i] = s[i]
    BY <1>1, SMT
  <1>7. /\ streams' \in [Conn -> Seq(Addr)]
        /\ streams'[c] = Append(s, stream)
        /\ \A d \in Conn \ {c} : streams'[d] = streams[d]
    BY <1>1, <1>4, <1>6
  <1>8. ASSUME NEW d \in Conn, NEW i \in 1..Len(streams[d])
        PROVE  /\ streams[d][i] \in Addr /\ streams[d][i] # stream
               /\ heap'[streams[d][i]] # Null /\ heap'[streams[d][i]].frameWriter = d
    <2>1. streams[d][i] \in Addr
      BY <1>1
    <2>2. heap[streams[d][i]] # Null /\ heap[streams[d][i]].frameWriter = d
      BY <1>2 DEF StreamOwnership
    <2> QED BY <1>4, <1>5, <2>1, <2>2
  <1>9. \A i \in 1..Len(s) + 1 : i \in 1..Len(s) \/ i = Len(s) + 1
    BY <1>1, SMT
  <1>10. StreamOwnership'
    <2>1. ASSUME NEW d \in Conn, NEW i \in 1..Len(streams'[d])
          PROVE  heap'[streams'[d][i]] # Null /\ heap'[streams'[d][i]].frameWriter = d
      <3>1. CASE d # c
        BY <1>7, <1>8, <2>1, <3>1
      <3>2. CASE d = c
        BY <1>3, <1>5, <1>6, <1>7, <1>8, <1>9, <2>1, <3>2
      <3> QED BY <3>1, <3>2
    <2>2. ASSUME NEW d \in Conn, NEW i \in 1..Len(streams'[d]),
                 NEW j \in 1..Len(streams'[d]), streams'[d][i] = streams'[d][j]
          PROVE  i = j
      <3>1. CASE d # c
        BY <1>2, <1>7, <2>2, <3>1 DEF StreamOwnership
      <3>2. CASE d = c
        BY <1>2, <1>6, <1>7, <1>8, <1>9, <2>2, <3>2 DEF StreamOwnership
      <3> QED BY <3>1, <3>2
    <2> QED BY <2>1, <2>2 DEF StreamOwnership
  <1>11. ASSUME NEW i \in 1..Len(grpcStreams)
         PROVE  /\ grpcStreams[i].stream # stream
                /\ heap'[grpcStreams[i].stream] # Null
    <2>1. grpcStreams[i].stream \in Addr
      BY <1>1, GRPCStreamType
    <2>2. heap[grpcStreams[i].stream] # Null
      BY <1>2 DEF CallsLive
    <2> QED BY <1>4, <1>5, <2>1, <2>2
  <1> QED BY <1>3, <1>5, <1>7, <1>10, <1>11

(* findMethod returns nullptr or a registered handler. *)
LEMMA FindMethodFacts ==
    ASSUME IInv, NEW path, FindMethod(path) # Null
    PROVE  FindMethod(path) \in Handlers /\ FindMethod(path) \in ToSet(unaryMethods)
  <1> DEFINE I == {i \in 1..Len(unaryMethods) : NameOf[unaryMethods[i]] = path}
  <1>1. unaryMethods \in Seq(Handlers)
    BY DEF IInv, TypeOK
  <1>2. I # {} /\ FindMethod(path) = unaryMethods[FirstIndex(I)]
    BY DEF FindMethod
  <1>3. FirstIndex(I) \in I
    <2>1. I \subseteq Nat
      BY <1>1
    <2> QED BY <1>2, <2>1, FirstIndexIn
  <1>4. FirstIndex(I) \in 1..Len(unaryMethods)
    BY <1>3
  <1> HIDE DEF I
  <1> QED BY <1>1, <1>2, <1>4 DEF ToSet

(* newStream, on the Stream just allocated. *)
LEMMA NewStreamTables ==
    ASSUME IInv, NEW c \in Conn, NEW id \in IDs, NEW stream \in Addr, NEW path,
           AllocateStream(c, id, stream), NewStream(stream, [frameWriter |-> c, id |-> id], path),
           UNCHANGED unaryMethods
    PROVE  /\ grpcStreams' \in Seq([stream : Addr, handler : Handlers])
           /\ CallsLive'
  <1> DEFINE g == grpcStreams
             handler == FindMethod(path)
             new == [stream |-> stream, handler |-> handler]
  <1>1. g \in Seq([stream : Addr, handler : Handlers]) /\ CallsLive
    BY DEF IInv, TypeOK
  <1>2. /\ heap'[stream] # Null
        /\ \A i \in 1..Len(g) : g[i].stream # stream /\ heap'[g[i].stream] # Null
    BY AllocateTables
  <1>3. CASE UNCHANGED grpcStreams
    BY <1>1, <1>2, <1>3 DEF CallsLive
  <1>4. CASE handler # Null /\ grpcStreams' = Append(g, new)
    <2>1. new \in [stream : Addr, handler : Handlers] /\ new.stream = stream
          /\ new.handler \in ToSet(unaryMethods)
      BY <1>4, FindMethodFacts
    <2> HIDE DEF new
    <2>2. /\ grpcStreams' \in Seq([stream : Addr, handler : Handlers])
          /\ Len(grpcStreams') = Len(g) + 1
          /\ grpcStreams'[Len(g) + 1] = new
          /\ \A i \in 1..Len(g) : grpcStreams'[i] = g[i]
          /\ \A i \in 1..Len(g) + 1 : i \in 1..Len(g) \/ i = Len(g) + 1
      BY <1>1, <1>4, <2>1, SMT
    <2> DEFINE g2 == grpcStreams'
    <2>3. \A i \in 1..Len(g2) : i \in 1..Len(g) \/ i = Len(g) + 1
      BY <2>2
    <2> HIDE DEF g2
    <2>4. ASSUME NEW i \in 1..Len(g2)
          PROVE  heap'[g2[i].stream] # Null /\ g2[i].handler \in ToSet(unaryMethods)
      <3>1. CASE i \in 1..Len(g)
        BY <1>1, <1>2, <2>2, <3>1 DEF CallsLive, g2
      <3>2. CASE i = Len(g) + 1
        BY <1>2, <2>1, <2>2, <3>2 DEF g2
      <3> QED BY <2>3, <3>1, <3>2
    <2>5. ASSUME NEW i \in 1..Len(g2), NEW j \in 1..Len(g2), g2[i].stream = g2[j].stream
          PROVE  i = j
      <3>1. \A k \in 1..Len(g) : g2[k].stream = g[k].stream /\ g[k].stream # stream
        BY <1>2, <2>2 DEF g2
      <3>2. g2[Len(g) + 1].stream = stream
        BY <2>1, <2>2 DEF g2
      <3>3. CASE i \in 1..Len(g) /\ j \in 1..Len(g)
        BY <1>1, <2>5, <3>1, <3>3 DEF CallsLive
      <3> QED BY <2>3, <2>5, <3>1, <3>2, <3>3
    <2>6. CallsLive'
      BY <2>4, <2>5 DEF CallsLive, g2
    <2> QED BY <2>2, <2>6
  <1> QED BY <1>3, <1>4 DEF NewStream

-----------------------------------------------------------------------------
(* What a step writes. *)

AllTo(c, frames) ==
    \A i \in 1..Len(frames) :
        frames[i].to = c /\ frames[i].streamID = frames[1].streamID

LEMMA Addressed ==
    ASSUME NEW c, NEW type, NEW flags, NEW id, NEW content
    PROVE  AllTo(c, <<Out(c, type, flags, id, content)>>) /\ AllTo(c, <<>>)
  <1>1. Out(c, type, flags, id, content).to = c
    BY DEF Out
  <1> HIDE DEF Out
  <1> QED BY <1>1 DEF AllTo

LEMMA ResponsesAddressed ==
    ASSUME NEW s, NEW handler, NEW message, NEW code
    PROVE  /\ AllTo(s.frameWriter, WriteResponse(s, handler, message))
           /\ AllTo(s.frameWriter, WriteResponseError(s, code))
  <1> DEFINE d == Out(s.frameWriter, DATA, {}, s.id, <<handler, message>>)
  <1>1. /\ \A k : Trailers(s, k).to = s.frameWriter /\ Trailers(s, k).streamID = U8(s.id)
        /\ ResponseHeaders(s).to = s.frameWriter /\ d.to = s.frameWriter
        /\ ResponseHeaders(s).streamID = U8(s.id) /\ d.streamID = U8(s.id)
    BY DEF ResponseHeaders, Trailers, Out
  <1>2. /\ WriteResponse(s, handler, message) = <<ResponseHeaders(s), d, Trailers(s, OK)>>
        /\ WriteResponseError(s, code) = <<ResponseHeaders(s), Trailers(s, code)>>
    BY DEF WriteResponse, WriteResponseError
  <1> HIDE DEF d
  <1> QED BY <1>1, <1>2, SMT DEF AllTo

(* The frames of the step are for a stream of a connection that is served  *)
(* and past its preface. *)
LiveWrites ==
    \A i \in 1..Len(written') :
        /\ written'[i].to = written'[1].to
        /\ written'[i].streamID = written'[1].streamID
        /\ written'[i].to \in connections'
        /\ connState'[written'[i].to] = "Connected"

LEMMA WrittenToOne ==
    ASSUME NEW c \in connections', AllTo(c, written'), connState'[c] = "Connected"
    PROVE  LiveWrites
  <1> SUFFICES ASSUME NEW i \in 1..Len(written')
               PROVE  /\ written'[i].to = c /\ written'[1].to = c
                      /\ written'[i].streamID = written'[1].streamID
    BY DEF LiveWrites
  <1>1. Len(written') \in Nat => 1 \in 1..Len(written')
    BY SMT
  <1> QED BY <1>1 DEF AllTo

LEMMA NothingWritten ==
    ASSUME written' = <<>>
    PROVE  LiveWrites
  BY SMT DEF LiveWrites

-----------------------------------------------------------------------------
(* Each action keeps the inductive invariant and writes to a live          *)
(* connection only.                                                        *)

LEMMA TablesKept ==
    ASSUME IInv, UNCHANGED <<streams, heap, grpcStreams>>,
           \A h \in ToSet(unaryMethods) : h \in ToSet(unaryMethods')
    PROVE  StreamOwnership' /\ CallsLive'
  BY DEF IInv, StreamOwnership, CallsLive

LEMMA RegisterStep ==
    ASSUME IInv, NEW h \in Handlers, RegisterUnaryMethod(h)
    PROVE  IInv' /\ LiveWrites
  <1> DEFINE u == unaryMethods
  <1>1. u \in Seq(Handlers)
    BY DEF IInv, TypeOK
  <1>2. u' = Append(u, h)
    BY DEF RegisterUnaryMethod
  <1>3. u' \in Seq(Handlers)
    BY <1>1, <1>2
  <1>4. \A i \in 1..Len(u) : i \in 1..Len(u') /\ u'[i] = u[i]
    BY <1>1, <1>2, SMT
  <1> HIDE DEF u
  <1>5. \A g \in ToSet(u) : g \in ToSet(u')
    BY <1>4 DEF ToSet
  <1>6. UNCHANGED <<connState, prefacePos, prefaceSettingsAckd, streams, heap,
                    connections, grpcStreams>> /\ written' = <<>>
    BY DEF RegisterUnaryMethod
  <1>7. StreamOwnership' /\ CallsLive'
    BY <1>5, <1>6, TablesKept DEF u
  <1>8. TypeOK'
    BY <1>3, <1>6 DEF IInv, TypeOK, ConnectionTypeOK, u
  <1>9. ServedAreLive' /\ NothingBeforeAck' /\ PrefaceUnfinished'
    BY <1>6 DEF IInv, ServedAreLive, NothingBeforeAck, PrefaceUnfinished
  <1> QED BY <1>6, <1>7, <1>8, <1>9, NothingWritten DEF IInv

LEMMA AddStep ==
    ASSUME IInv, NEW c \in Conn, AddConnection(c)
    PROVE  IInv' /\ LiveWrites
  <1>1. /\ connState[c] = "Deleted"
        /\ connState' = [connState EXCEPT ![c] = "Started"]
        /\ prefacePos' = [prefacePos EXCEPT ![c] = 0]
        /\ prefaceSettingsAckd' = prefaceSettingsAckd \ {c}
        /\ streams' = [streams EXCEPT ![c] = <<>>]
        /\ connections' = connections \cup {c}
        /\ written' = <<>>
        /\ UNCHANGED <<heap, unaryMethods, grpcStreams>>
    BY DEF AddConnection, NewConnection
  <1>2. streams[c] = <<>>
    BY <1>1 DEF IInv, NothingBeforeAck
  <1>3. UNCHANGED streams
    BY <1>1, <1>2 DEF IInv, TypeOK, ConnectionTypeOK
  <1>4. StreamOwnership' /\ CallsLive'
    BY <1>1, <1>3, TablesKept
  <1>5. TypeOK' /\ PrefaceUnfinished'
    BY <1>1, <1>3, PrefaceAssumption
    DEF IInv, TypeOK, ConnectionTypeOK, PrefaceUnfinished
  <1>6. ServedAreLive'
    BY <1>1 DEF IInv, TypeOK, ConnectionTypeOK, ServedAreLive
  <1>7. NothingBeforeAck'
    BY <1>1, <1>2, <1>3 DEF IInv, TypeOK, ConnectionTypeOK, NothingBeforeAck
  <1> QED BY <1>1, <1>4, <1>5, <1>6, <1>7, NothingWritten DEF IInv

LEMMA RemoveStep ==
    ASSUME IInv, NEW c \in Conn, RemoveConnection(c)
    PROVE  IInv' /\ LiveWrites
  <1>1. /\ connState' = [connState EXCEPT ![c] = "Deleted"]
        /\ streams' = [streams EXCEPT ![c] = <<>>]
        /\ connections' = connections \ {c}
        /\ written' = <<>>
        /\ UNCHANGED <<prefacePos, prefaceSettingsAckd, heap, unaryMethods, grpcStreams>>
    BY DEF RemoveConnection, DeleteConnection
  <1>2. TypeOK' /\ PrefaceUnfinished'
    BY <1>1 DEF IInv, TypeOK, ConnectionTypeOK, PrefaceUnfinished
  <1>3. CallsLive'
    BY <1>1 DEF IInv, CallsLive
  <1>4. /\ streams'[c] = <<>>
        /\ \A d \in Conn : d # c => streams'[d] = streams[d]
        /\ 1..Len(<<>>) = {}
    BY <1>1, SMT DEF IInv, TypeOK, ConnectionTypeOK
  <1>5. StreamOwnership'
    BY <1>1, <1>4 DEF IInv, StreamOwnership
  <1>6. ServedAreLive'
    BY <1>1 DEF IInv, TypeOK, ConnectionTypeOK, ServedAreLive
  <1>7. NothingBeforeAck'
    BY <1>1 DEF IInv, TypeOK, ConnectionTypeOK, NothingBeforeAck
  <1> QED BY <1>1, <1>2, <1>3, <1>5, <1>6, <1>7, NothingWritten DEF IInv

(* A byte or a frame that opens and ends no stream. *)
LEMMA NoStreamStep ==
    ASSUME IInv,
           UNCHANGED <<streams, heap, grpcStreams, connections, unaryMethods>>,
           connState' \in [Conn -> {"Deleted", "Started", "Connected", "Failed",
                            "Undefined"}],
           \A c \in Conn : connState'[c] = "Deleted" <=> connState[c] = "Deleted",
           \A c \in Conn : connState[c] \in {"Connected", "Failed", "Undefined"}
                              => connState'[c] \in {"Connected", "Failed", "Undefined"},
           prefaceSettingsAckd \subseteq prefaceSettingsAckd',
           prefaceSettingsAckd' \subseteq Conn,
           prefacePos' \in [Conn -> 0..CONNECTION_PREFACE_SIZE],
           PrefaceUnfinished'
    PROVE  IInv'
  <1>1. StreamOwnership' /\ CallsLive'
    BY TablesKept
  <1>2. TypeOK'
    BY DEF IInv, TypeOK, ConnectionTypeOK
  <1>3. ServedAreLive' /\ NothingBeforeAck'
    BY DEF IInv, ServedAreLive, NothingBeforeAck
  <1> QED BY <1>1, <1>2, <1>3 DEF IInv

LEMMA PrefaceByteStep ==
    ASSUME IInv, NEW c \in Conn, c \in connections, NEW matches \in BOOLEAN,
           PrefaceByte(c, matches), NoCallback, UNCHANGED <<connections, unaryMethods>>
    PROVE  IInv' /\ LiveWrites
  <1> DEFINE size == CONNECTION_PREFACE_SIZE
             pos == prefacePos[c] + 1
  <1>1. /\ connState \in [Conn -> {"Deleted", "Started", "Connected", "Failed",
                            "Undefined"}]
        /\ prefacePos \in [Conn -> 0..size]
        /\ prefaceSettingsAckd \subseteq Conn
        /\ size \in Nat
        /\ PrefaceUnfinished
    BY PrefaceAssumption DEF IInv, TypeOK, ConnectionTypeOK
  <1>2. /\ connState[c] = "Started"
        /\ UNCHANGED <<prefaceSettingsAckd, streams, heap, grpcStreams,
                       connections, unaryMethods>>
    BY DEF PrefaceByte, NoCallback
  <1>3. prefacePos[c] < size /\ pos \in 0..size
    BY <1>1, <1>2 DEF PrefaceUnfinished
  <1>4. CASE connState' = [connState EXCEPT ![c] = "Failed"]
             /\ written' = <<>> /\ UNCHANGED prefacePos
    <2>1. PrefaceUnfinished'
      BY <1>1, <1>4 DEF PrefaceUnfinished
    <2> QED BY <1>1, <1>2, <1>4, <2>1, NoStreamStep, NothingWritten
  <1>5. CASE prefacePos' = [prefacePos EXCEPT ![c] = pos] /\ pos # size
             /\ written' = <<>> /\ UNCHANGED connState
    <2>1. PrefaceUnfinished'
      BY <1>1, <1>3, <1>5 DEF PrefaceUnfinished
    <2>2. prefacePos' \in [Conn -> 0..size]
      BY <1>1, <1>3, <1>5
    <2> QED BY <1>1, <1>2, <1>5, <2>1, <2>2, NoStreamStep, NothingWritten
  <1>6. CASE prefacePos' = [prefacePos EXCEPT ![c] = pos]
             /\ connState' = [connState EXCEPT ![c] = "Connected"]
             /\ written' = <<Out(c, SETTINGS, {}, 0, <<"HEADER_TABLE_SIZE=0">>)>>
    <2>1. PrefaceUnfinished'
      BY <1>1, <1>3, <1>6 DEF PrefaceUnfinished
    <2>2. prefacePos' \in [Conn -> 0..size]
      BY <1>1, <1>3, <1>6
    <2>3. connState'[c] = "Connected" /\ c \in connections'
      BY <1>1, <1>2, <1>6
    <2>4. LiveWrites
      BY <1>6, <2>3, Addressed, WrittenToOne
    <2> QED BY <1>1, <1>2, <1>6, <2>1, <2>2, <2>4, NoStreamStep
  <1> QED BY <1>4, <1>5, <1>6 DEF PrefaceByte

LEMMA PumpByteStep ==
    ASSUME IInv, NEW c \in Conn, PumpByte(c)
    PROVE  IInv' /\ LiveWrites
  <1>1. c \in connections /\ NoCallback /\ UNCHANGED <<connections, unaryMethods>>
    BY DEF PumpByte
  <1>2. CASE \E matches \in BOOLEAN : PrefaceByte(c, matches)
    BY <1>1, <1>2, PrefaceByteStep
  <1>3. CASE DiscardByte(c)
    <2>1. UNCHANGED <<connState, prefacePos, prefaceSettingsAckd, streams, heap,
                      grpcStreams, connections, unaryMethods>> /\ written' = <<>>
      BY <1>1, <1>3 DEF DiscardByte, NoCallback
    <2>2. PrefaceUnfinished'
      BY <2>1 DEF IInv, PrefaceUnfinished
    <2> QED BY <2>1, <2>2, NoStreamStep, NothingWritten
            DEF IInv, TypeOK, ConnectionTypeOK
  <1> QED BY <1>2, <1>3 DEF PumpByte

(* UnreadableFrame, NullFrame, DropFrame, Settings, Ping and IgnoredFrame. *)
LEMMA QuietFrameStep ==
    ASSUME IInv, NEW c \in Conn, c \in connections, NEW id, NEW isAck \in BOOLEAN,
           \/ UnreadableFrame(c)
           \/ NullFrame(c)
           \/ DropFrame(c, id)
           \/ Settings(c, id, isAck)
           \/ Ping(c, isAck)
           \/ IgnoredFrame(c),
           NoCallback, UNCHANGED <<connections, unaryMethods>>
    PROVE  IInv' /\ LiveWrites
  <1>1. /\ connState \in [Conn -> {"Deleted", "Started", "Connected", "Failed",
                            "Undefined"}]
        /\ prefacePos \in [Conn -> 0..CONNECTION_PREFACE_SIZE]
        /\ prefaceSettingsAckd \subseteq Conn
        /\ PrefaceUnfinished
        /\ UNCHANGED <<grpcStreams, connections, unaryMethods>>
    BY DEF IInv, TypeOK, ConnectionTypeOK, NoCallback
  <1>2. ASSUME NEW s \in {"Failed", "Undefined"}, connState[c] = "Connected",
               connState' = [connState EXCEPT ![c] = s], written' = <<>>,
               UNCHANGED <<prefacePos, prefaceSettingsAckd, streams, heap>>
        PROVE  IInv' /\ LiveWrites
    <2>1. PrefaceUnfinished'
      BY <1>1, <1>2 DEF PrefaceUnfinished
    <2> QED BY <1>1, <1>2, <2>1, NoStreamStep, NothingWritten
  <1>3. CASE DropFrame(c, id) \/ Settings(c, id, isAck) \/ Ping(c, isAck)
             \/ IgnoredFrame(c)
    <2>1. /\ connState[c] = "Connected"
          /\ UNCHANGED <<connState, prefacePos, streams, heap>>
          /\ prefaceSettingsAckd \subseteq prefaceSettingsAckd'
          /\ prefaceSettingsAckd' \subseteq Conn
      BY <1>1, <1>3 DEF DropFrame, Settings, Ping, IgnoredFrame, Dispatched
    <2>2. AllTo(c, written')
      BY <1>3, Addressed DEF DropFrame, RstStreamFrame, Settings, Ping, IgnoredFrame
    <2>3. LiveWrites
      BY <1>1, <2>1, <2>2, WrittenToOne
    <2>4. PrefaceUnfinished'
      BY <1>1, <2>1 DEF PrefaceUnfinished
    <2> QED BY <1>1, <2>1, <2>3, <2>4, NoStreamStep
  <1> QED BY <1>2, <1>3 DEF UnreadableFrame, NullFrame

(* A frame that opens or ends a stream of the connection c: what it may do *)
(* to the tables is what AllocateTables and CloseTables conclude.          *)
LEMMA StreamStep ==
    ASSUME IInv, NEW c \in Conn, Dispatched(c),
           UNCHANGED <<connState, prefacePos, prefaceSettingsAckd,
                       connections, unaryMethods>>,
           streams' \in [Conn -> Seq(Addr)],
           heap' \in [Addr -> Stream \cup {Null}],
           grpcStreams' \in Seq([stream : Addr, handler : Handlers]),
           StreamOwnership', CallsLive',
           \A d \in Conn \ {c} : streams[d] = <<>> => streams'[d] = <<>>
    PROVE  IInv'
  <1>1. TypeOK'
    BY DEF IInv, TypeOK, ConnectionTypeOK
  <1>2. NothingBeforeAck'
    BY DEF IInv, NothingBeforeAck, Dispatched
  <1>3. ServedAreLive' /\ PrefaceUnfinished'
    BY DEF IInv, ServedAreLive, PrefaceUnfinished
  <1> QED BY <1>1, <1>2, <1>3 DEF IInv

LEMMA HeadersStep ==
    ASSUME IInv, NEW c \in Conn, c \in connections, NEW id \in IDs, NEW path,
           Headers(c, id, path), UNCHANGED <<connections, unaryMethods>>
    PROVE  IInv' /\ LiveWrites
  <1> DEFINE s == [frameWriter |-> c, id |-> id]
  <1>1. PICK stream \in Addr : AllocateStream(c, id, stream) /\ NewStream(stream, s, path)
    BY DEF Headers
  <1>2. /\ Dispatched(c) /\ connState[c] = "Connected"
        /\ UNCHANGED <<connState, prefacePos, prefaceSettingsAckd>>
    BY DEF Headers, Dispatched
  <1>3. /\ streams' \in [Conn -> Seq(Addr)]
        /\ heap' \in [Addr -> Stream \cup {Null}]
        /\ StreamOwnership'
        /\ \A d \in Conn \ {c} : streams'[d] = streams[d]
    BY <1>1, AllocateTables
  <1>4. /\ grpcStreams' \in Seq([stream : Addr, handler : Handlers])
        /\ CallsLive'
    BY <1>1, NewStreamTables
  <1>5. IInv'
    BY <1>2, <1>3, <1>4, StreamStep
  <1>6. AllTo(c, written')
    <2>1. s.frameWriter = c
      OBVIOUS
    <2> HIDE DEF s
    <2> QED BY <1>1, <2>1, Addressed, ResponsesAddressed DEF NewStream
  <1> QED BY <1>2, <1>5, <1>6, WrittenToOne

LEMMA DataStep ==
    ASSUME IInv, NEW c \in Conn, c \in connections, NEW id, NEW message, NEW length,
           NEW endStream \in BOOLEAN, Data(c, id, message, length, endStream),
           UNCHANGED <<connections, unaryMethods>>
    PROVE  IInv' /\ LiveWrites
  <1> DEFINE stream == GetStream(c, id)
             i == FindStream(stream)
  <1>1. /\ Dispatched(c) /\ connState[c] = "Connected"
        /\ UNCHANGED <<connState, prefacePos, prefaceSettingsAckd>>
        /\ StreamData(stream, message, length)
    BY DEF Data, Dispatched
  <1>2. ASSUME endStream PROVE IInv'
    <2>1. ResetStream(stream) /\ DeallocateStream(c, id)
      BY <1>2 DEF Data
    <2>2. /\ streams' \in [Conn -> Seq(Addr)]
          /\ heap' \in [Addr -> Stream \cup {Null}]
          /\ grpcStreams' \in Seq([stream : Addr, handler : Handlers])
          /\ StreamOwnership'
          /\ CallsLive'
          /\ \A d \in Conn : streams[d] = <<>> => streams'[d] = <<>>
      BY <2>1, CloseTables
    <2> QED BY <1>1, <2>2, StreamStep
  <1>3. ASSUME ~endStream PROVE IInv'
    <2>1. UNCHANGED <<grpcStreams, heap, streams>>
      BY <1>3 DEF Data
    <2>2. StreamOwnership' /\ CallsLive'
      BY <2>1, TablesKept
    <2> QED BY <1>1, <2>1, <2>2, StreamStep DEF IInv, TypeOK, ConnectionTypeOK
  <1>4. AllTo(c, written')
    <2>1. CASE written' = <<>>
      BY <2>1, Addressed
    <2>2. CASE i # 0 /\ written' = WriteResponse(heap[grpcStreams[i].stream],
                                                 grpcStreams[i].handler, message)
      <3>1. i \in 1..Len(grpcStreams) /\ grpcStreams[i].stream = stream
        BY <2>2, FindStreamFacts
      <3>2. stream # Null
        <4>1. grpcStreams \in Seq([stream : Addr, handler : Handlers])
          BY DEF IInv, TypeOK
        <4>2. stream \in Addr
          BY <3>1, <4>1, GRPCStreamType
        <4> QED BY <4>2, NullAssumption
      <3>3. heap[stream].frameWriter = c
        BY <3>2, GetStreamFacts
      <3> HIDE DEF i, stream
      <3> QED BY <2>2, <3>1, <3>3, ResponsesAddressed
    <2> QED BY <1>1, <2>1, <2>2 DEF StreamData
  <1> QED BY <1>1, <1>2, <1>3, <1>4, WrittenToOne

LEMMA RstStreamStep ==
    ASSUME IInv, NEW c \in Conn, c \in connections, NEW id, RstStream(c, id),
           UNCHANGED <<connections, unaryMethods>>
    PROVE  IInv' /\ LiveWrites
  <1>1. /\ Dispatched(c) /\ written' = <<>>
        /\ UNCHANGED <<connState, prefacePos, prefaceSettingsAckd>>
        /\ ResetStream(GetStream(c, id)) /\ DeallocateStream(c, id)
    BY DEF RstStream
  <1>2. /\ streams' \in [Conn -> Seq(Addr)]
        /\ heap' \in [Addr -> Stream \cup {Null}]
        /\ grpcStreams' \in Seq([stream : Addr, handler : Handlers])
        /\ StreamOwnership'
        /\ CallsLive'
        /\ \A d \in Conn : streams[d] = <<>> => streams'[d] = <<>>
    BY <1>1, CloseTables
  <1> QED BY <1>1, <1>2, StreamStep, NothingWritten

LEMMA PumpFrameStep ==
    ASSUME IInv, NEW c \in Conn, NEW f \in PeerFrames, PumpFrame(c, f)
    PROVE  IInv' /\ LiveWrites
  <1> DEFINE flag == f.flag = 1
  <1>0. flag \in BOOLEAN
    OBVIOUS
  <1>1. c \in connections /\ UNCHANGED <<connections, unaryMethods>>
    BY DEF PumpFrame
  <1>2. f.streamID \in IDs
    BY DEF PeerFrames
  <1>3. CASE (UnreadableFrame(c) \/ NullFrame(c)) /\ NoCallback
    BY <1>1, <1>3, QuietFrameStep
  <1>4. CASE DropFrame(c, f.streamID) /\ NoCallback
    BY <1>1, <1>4, QuietFrameStep
  <1>5. CASE Settings(c, f.streamID, f.flag = 1) /\ NoCallback
    <2> HIDE DEF flag
    <2>1. Settings(c, f.streamID, flag)
      BY <1>5 DEF flag
    <2> QED BY <1>0, <1>1, <1>5, <2>1, QuietFrameStep
  <1>6. CASE Ping(c, f.flag = 1) /\ NoCallback
    <2> HIDE DEF flag
    <2>1. Ping(c, flag)
      BY <1>6 DEF flag
    <2> QED BY <1>0, <1>1, <1>6, <2>1, QuietFrameStep
  <1>7. CASE IgnoredFrame(c) /\ NoCallback
    BY <1>1, <1>7, QuietFrameStep
  <1>8. CASE Headers(c, f.streamID, f.path)
    BY <1>1, <1>2, <1>8, HeadersStep
  <1>9. CASE Data(c, f.streamID, f.message, f.length, f.flag = 1)
    BY <1>1, <1>9, DataStep
  <1>10. CASE RstStream(c, f.streamID)
    BY <1>1, <1>10, RstStreamStep
  <1> QED BY <1>3, <1>4, <1>5, <1>6, <1>7, <1>8, <1>9, <1>10 DEF PumpFrame

-----------------------------------------------------------------------------
(* The invariant holds initially and every step keeps it. *)

LEMMA InitIInv == Init => IInv
  <1> SUFFICES ASSUME Init PROVE IInv
    OBVIOUS
  <1>1. /\ connState = [c \in Conn |-> "Deleted"]
        /\ prefacePos = [c \in Conn |-> 0]
        /\ prefaceSettingsAckd = {}
        /\ streams = [c \in Conn |-> <<>>]
        /\ heap = [a \in Addr |-> Null]
        /\ connections = {} /\ unaryMethods = <<>> /\ grpcStreams = <<>>
    BY DEF Init, ConnectionInit
  <1>2. TypeOK
    BY <1>1, PrefaceAssumption DEF TypeOK, ConnectionTypeOK
  <1>3. 1..Len(<<>>) = {}
    BY SMT
  <1>4. StreamOwnership /\ CallsLive
    BY <1>1, <1>3 DEF StreamOwnership, CallsLive
  <1>5. ServedAreLive /\ NothingBeforeAck /\ PrefaceUnfinished
    BY <1>1 DEF ServedAreLive, NothingBeforeAck, PrefaceUnfinished
  <1> QED BY <1>2, <1>4, <1>5 DEF IInv

LEMMA NextIInv == IInv /\ Next => IInv' /\ LiveWrites
  <1> SUFFICES ASSUME IInv, Next PROVE IInv' /\ LiveWrites
    OBVIOUS
  <1>1. ASSUME NEW h \in Handlers, RegisterUnaryMethod(h) PROVE IInv' /\ LiveWrites
    BY <1>1, RegisterStep
  <1>2. ASSUME NEW c \in Conn, AddConnection(c) PROVE IInv' /\ LiveWrites
    BY <1>2, AddStep
  <1>3. ASSUME NEW c \in Conn, RemoveConnection(c) PROVE IInv' /\ LiveWrites
    BY <1>3, RemoveStep
  <1>4. ASSUME NEW c \in Conn, PumpByte(c) PROVE IInv' /\ LiveWrites
    BY <1>4, PumpByteStep
  <1>5. ASSUME NEW c \in Conn, NEW f \in PeerFrames, PumpFrame(c, f)
        PROVE  IInv' /\ LiveWrites
    BY <1>5, PumpFrameStep
  <1> QED BY <1>1, <1>2, <1>3, <1>4, <1>5 DEF Next

LEMMA StutterIInv == IInv /\ UNCHANGED vars => IInv'
  <1> SUFFICES ASSUME IInv, UNCHANGED vars PROVE IInv'
    OBVIOUS
  <1>1. UNCHANGED <<connState, prefacePos, prefaceSettingsAckd, streams, heap,
                    connections, unaryMethods, grpcStreams>>
    BY DEF vars, connectionVars
  <1>2. StreamOwnership' /\ CallsLive'
    BY <1>1, TablesKept
  <1>3. TypeOK' /\ ServedAreLive' /\ NothingBeforeAck' /\ PrefaceUnfinished'
    BY <1>1 DEF IInv, TypeOK, ConnectionTypeOK, ServedAreLive, NothingBeforeAck,
                PrefaceUnfinished
  <1> QED BY <1>2, <1>3 DEF IInv

LEMMA Invariance == Spec => []IInv
  <1>1. IInv /\ [Next]_vars => IInv'
    BY NextIInv, StutterIInv
  <1> QED BY InitIInv, <1>1, PTL DEF Spec

-----------------------------------------------------------------------------
(* The results.                                                            *)

(* The server's tables hold pointers to Stream objects and registered      *)
(* handlers only, and the preface is never read past its end.              *)
THEOREM TypeCorrect == Spec => []TypeOK
  <1>1. IInv => TypeOK
    BY DEF IInv
  <1> QED BY Invariance, <1>1, PTL

(* Connection::streams holds each Stream of the connection once, and none  *)
(* that deallocateStream has deleted.                                      *)
THEOREM StreamsOwned == Spec => []StreamOwnership
  <1>1. IInv => StreamOwnership
    BY DEF IInv
  <1> QED BY Invariance, <1>1, PTL

(* The gate in Connection::pump holds: no stream before the SETTINGS ACK.  *)
THEOREM AckFirst == Spec => []NothingBeforeAck
  <1>1. IInv => NothingBeforeAck
    BY DEF IInv
  <1> QED BY Invariance, <1>1, PTL

(* GRPCServer::streams has no dangling Stream pointer: rstStream is always *)
(* called before deallocateStream, and finds the entry.                    *)
THEOREM CallsOfLiveStreams == Spec => []CallsLive
  <1>1. IInv => CallsLive
    BY DEF IInv
  <1> QED BY Invariance, <1>1, PTL

(* Whatever the frames and their order, an answer goes to one stream of    *)
(* the connection that asked, which is in the server's list and past its   *)
(* preface.                                                                *)
THEOREM AnswersToTheAsker == Spec => WritesToLive
  <1>1. IInv /\ [Next]_vars => [LiveWrites]_vars
    BY NextIInv
  <1>2. Spec => [][LiveWrites]_vars
    BY Invariance, <1>1, PTL DEF Spec
  <1> QED BY <1>2 DEF WritesToLive, LiveWrites

-----------------------------------------------------------------------------
(***************************************************************************)
(* The two action properties that relate what is kept for one connection   *)
(* to what is kept for the others: their tables point into one heap, and   *)
(* the server has one vector of calls for all.                             *)
(***************************************************************************)

CallVectors == Seq([stream : Addr, handler : Handlers])

(* As CallsLive has it of GRPCServer::streams. *)
OneCallEach(g) == \A i, j \in 1..Len(g) : g[i].stream = g[j].stream => i = j

(* The handler of a Stream in a vector of calls, as in View. *)
HandlerIn(g, s) ==
    LET I == {i \in 1..Len(g) : g[i].stream = s}
        k == IF I = {} THEN 0 ELSE FirstIndex(I)
    IN IF k = 0 THEN Null ELSE g[k].handler

LEMMA HandlerFacts ==
    ASSUME NEW g \in CallVectors, OneCallEach(g), NEW s
    PROVE  /\ (\A i \in 1..Len(g) : g[i].stream # s) => HandlerIn(g, s) = Null
           /\ \A i \in 1..Len(g) : g[i].stream = s => HandlerIn(g, s) = g[i].handler
  <1> DEFINE I == {i \in 1..Len(g) : g[i].stream = s}
  <1>1. (\A i \in 1..Len(g) : g[i].stream # s) => HandlerIn(g, s) = Null
    BY DEF HandlerIn
  <1>2. ASSUME NEW i \in 1..Len(g), g[i].stream = s
        PROVE  HandlerIn(g, s) = g[i].handler
    <2>1. Len(g) \in Nat
      BY DEF CallVectors
    <2>2. I # {} /\ I \subseteq Nat
      BY <1>2, <2>1
    <2>3. FirstIndex(I) \in I
      BY <2>2, FirstIndexIn
    <2>4. FirstIndex(I) \in 1..Len(g) /\ g[FirstIndex(I)].stream = s
      BY <2>3
    <2>5. FirstIndex(I) # 0
      BY <2>1, <2>4
    <2>6. HandlerIn(g, s) = g[FirstIndex(I)].handler
      BY <2>2, <2>5 DEF HandlerIn
    <2> HIDE DEF I
    <2>7. FirstIndex(I) = i
      BY <1>2, <2>4 DEF OneCallEach
    <2> QED BY <2>6, <2>7
  <1> QED BY <1>1, <1>2

(* A vector in which the calls of the Stream s are those of another one    *)
(* answers the same about s.                                               *)
LEMMA SameHandler ==
    ASSUME NEW g \in CallVectors, OneCallEach(g), NEW g2 \in CallVectors, OneCallEach(g2), NEW s,
           \A i \in 1..Len(g) : g[i].stream = s => \E j \in 1..Len(g2) : g2[j] = g[i],
           \A j \in 1..Len(g2) : g2[j].stream = s => \E i \in 1..Len(g) : g2[j] = g[i]
    PROVE  HandlerIn(g2, s) = HandlerIn(g, s)
  <1>1. CASE \E i \in 1..Len(g) : g[i].stream = s
    <2>1. PICK i \in 1..Len(g) : g[i].stream = s
      BY <1>1
    <2>2. PICK j \in 1..Len(g2) : g2[j] = g[i]
      BY <2>1
    <2>3. HandlerIn(g, s) = g[i].handler /\ HandlerIn(g2, s) = g2[j].handler
      BY <2>1, <2>2, HandlerFacts
    <2> QED BY <2>2, <2>3
  <1>2. CASE \A i \in 1..Len(g) : g[i].stream # s
    <2>1. \A j \in 1..Len(g2) : g2[j].stream # s
      BY <1>2
    <2> QED BY <1>2, <2>1, HandlerFacts
  <1> QED BY <1>1, <1>2

(* A position erased is lost, the others are not. *)
LEMMA ErasedKeeps ==
    ASSUME NEW S, NEW s \in Seq(S), NEW n \in 1..Len(s)
    PROVE  /\ \A i \in 1..Len(s) :
                 i # n => \E j \in 1..Len(RemoveAt(s, n)) : RemoveAt(s, n)[j] = s[i]
           /\ \A j \in 1..Len(RemoveAt(s, n)) :
                 \E i \in 1..Len(s) : RemoveAt(s, n)[j] = s[i]
  <1> DEFINE r == RemoveAt(s, n)
             p(j) == IF j < n THEN j ELSE j + 1
  <1>1. Len(r) = Len(s) - 1 /\ \A j \in 1..(Len(s) - 1) : r[j] = s[p(j)]
    BY Erased
  <1> HIDE DEF r
  <1>2. \A j \in 1..(Len(s) - 1) : p(j) \in 1..Len(s)
    BY SMT
  <1>3. ASSUME NEW i \in 1..Len(s), i # n
        PROVE  \E j \in 1..(Len(s) - 1) : p(j) = i
    <2>1. CASE i < n
      <3>1. i \in 1..(Len(s) - 1) /\ p(i) = i
        BY <2>1, SMT
      <3> QED BY <3>1
    <2>2. CASE ~(i < n)
      <3>1. i - 1 \in 1..(Len(s) - 1) /\ p(i - 1) = i
        BY <1>3, <2>2, SMT
      <3> QED BY <3>1
    <2> QED BY <2>1, <2>2
  <1> HIDE DEF p
  <1>4. \A i \in 1..Len(s) : i # n => \E j \in 1..Len(r) : r[j] = s[i]
    BY <1>1, <1>3
  <1>5. \A j \in 1..Len(r) : \E i \in 1..Len(s) : r[j] = s[i]
    BY <1>1, <1>2
  <1> QED BY <1>4, <1>5 DEF r

-----------------------------------------------------------------------------
(* What a step can do to the shared state.                                 *)

(* No stream of connection d gains or loses a call. *)
LEMMA ViewKept ==
    ASSUME IInv, IInv', NEW d \in Conn,
           connState'[d] = connState[d],
           d \in prefaceSettingsAckd' <=> d \in prefaceSettingsAckd,
           streams'[d] = streams[d],
           \A i \in 1..Len(streams[d]) :
              /\ heap'[streams[d][i]] = heap[streams[d][i]]
              /\ HandlerIn(grpcStreams', streams[d][i])
                    = HandlerIn(grpcStreams, streams[d][i])
    PROVE  View(d)' = View(d)
  <1> DEFINE row == [i \in 1..Len(streams[d]) |->
                        <<heap[streams[d][i]], HandlerIn(grpcStreams, streams[d][i])>>]
             row2 == [i \in 1..Len(streams[d]) |->
                        <<heap'[streams[d][i]], HandlerIn(grpcStreams', streams[d][i])>>]
  <1>1. row = row2
    OBVIOUS
  <1>2. View(d) = <<connState[d], d \in prefaceSettingsAckd, row>>
    BY Zenon DEF View, FindStream, HandlerIn
  <1>3. View(d)' = <<connState'[d], d \in prefaceSettingsAckd', row2>>
    BY Zenon DEF View, FindStream, HandlerIn
  <1>4. (d \in prefaceSettingsAckd') = (d \in prefaceSettingsAckd)
    OBVIOUS
  <1> HIDE DEF row, row2
  <1> QED BY <1>1, <1>2, <1>3, <1>4

(* A step that changes no Stream object and no call. *)
LEMMA HeapKept ==
    ASSUME IInv, IInv', UNCHANGED <<heap, grpcStreams>>, NEW d \in Conn,
           connState'[d] = connState[d],
           d \in prefaceSettingsAckd' <=> d \in prefaceSettingsAckd,
           streams'[d] = streams[d]
    PROVE  View(d)' = View(d)
  BY ViewKept

(* Only one connection is touched, and no Stream object gets lost. *)
Others(c) == \A d \in Conn : d # c => View(d)' = View(d)
NothingLost ==
    \A a \in Addr : Reachable(a) => Reachable(a)' \/ heap'[a] = Null

LEMMA KeptRows ==
    ASSUME \A d \in Conn : streams'[d] = streams[d]
    PROVE  NothingLost
  BY DEF NothingLost, Reachable

(* A DATA frame that ends its stream, or an RST_STREAM: one Stream object  *)
(* of the connection goes, with every pointer to it and its call.          *)
LEMMA CloseShape ==
    ASSUME IInv, NEW c \in Conn, NEW id,
           ResetStream(GetStream(c, id)), DeallocateStream(c, id)
    PROVE  \/ UNCHANGED <<heap, streams, grpcStreams>>
           \/ \E a \in Addr :
                 /\ heap[a].frameWriter = c
                 /\ heap' = [heap EXCEPT ![a] = Null]
                 /\ \A d \in Conn \ {c} : streams'[d] = streams[d]
                 /\ \A i \in 1..Len(streams[c]) : streams[c][i] # a =>
                       \E j \in 1..Len(streams'[c]) : streams'[c][j] = streams[c][i]
                 /\ \A i \in 1..Len(grpcStreams) : grpcStreams[i].stream # a =>
                       \E j \in 1..Len(grpcStreams') : grpcStreams'[j] = grpcStreams[i]
                 /\ \A j \in 1..Len(grpcStreams') :
                       \E i \in 1..Len(grpcStreams) : grpcStreams'[j] = grpcStreams[i]
  <1> DEFINE a == GetStream(c, id)
             k == FindStream(a)
             s == streams[c]
             I == {i \in 1..Len(s) : s[i] = a}
             n == FirstIndex(I)
  <1>1. /\ streams \in [Conn -> Seq(Addr)] /\ s \in Seq(Addr)
        /\ grpcStreams \in CallVectors
    BY DEF IInv, TypeOK, ConnectionTypeOK, CallVectors
  <1>2. CASE a = Null
    <2>1. \A i \in 1..Len(grpcStreams) : grpcStreams[i].stream \in Addr
      BY <1>1, GRPCStreamType DEF CallVectors
    <2>2. k = 0
      BY <1>2, <2>1, NullAssumption, FindStreamFacts
    <2> QED BY <1>2, <2>2 DEF ResetStream, DeallocateStream
  <1>3. CASE a # Null
    <2>1. /\ a \in Addr /\ heap[a].frameWriter = c
          /\ \E i \in 1..Len(s) : s[i] = a
      BY <1>3, GetStreamFacts
    <2>2. n \in 1..Len(s) /\ s[n] = a
      <3>1. I # {} /\ I \subseteq Nat
        BY <1>1, <2>1
      <3>2. n \in I
        BY <3>1, FirstIndexIn
      <3> QED BY <3>2
    <2>3. /\ heap' = [heap EXCEPT ![a] = Null]
          /\ streams' = [streams EXCEPT ![c] = RemoveAt(s, n)]
      BY <1>3 DEF DeallocateStream
    <2>4. grpcStreams' = IF k = 0 THEN grpcStreams ELSE RemoveAt(grpcStreams, k)
      BY DEF ResetStream
    <2>5. k # 0 => k \in 1..Len(grpcStreams) /\ grpcStreams[k].stream = a
      BY FindStreamFacts
    <2> HIDE DEF a, k, n
    <2>6. streams'[c] = RemoveAt(s, n) /\ \A d \in Conn \ {c} : streams'[d] = streams[d]
      BY <1>1, <2>3
    <2>7. \A i \in 1..Len(s) : s[i] # a =>
              \E j \in 1..Len(streams'[c]) : streams'[c][j] = s[i]
      BY <1>1, <2>2, <2>6, ErasedKeeps
    <2>8. /\ \A i \in 1..Len(grpcStreams) : grpcStreams[i].stream # a =>
                \E j \in 1..Len(grpcStreams') : grpcStreams'[j] = grpcStreams[i]
          /\ \A j \in 1..Len(grpcStreams') :
                \E i \in 1..Len(grpcStreams) : grpcStreams'[j] = grpcStreams[i]
      <3>1. CASE k = 0
        BY <2>4, <3>1
      <3>2. CASE k # 0
        <4>1. grpcStreams' = RemoveAt(grpcStreams, k) /\ k \in 1..Len(grpcStreams)
              /\ grpcStreams[k].stream = a
          BY <2>4, <2>5, <3>2
        <4> QED BY <1>1, <4>1, ErasedKeeps DEF CallVectors
      <3> QED BY <3>1, <3>2
    <2> QED BY <2>1, <2>3, <2>6, <2>7, <2>8
  <1> QED BY <1>2, <1>3

-----------------------------------------------------------------------------
(* Each action.                                                            *)

LEMMA CallsFacts ==
    ASSUME IInv, IInv'
    PROVE  /\ grpcStreams \in CallVectors /\ OneCallEach(grpcStreams)
           /\ grpcStreams' \in CallVectors /\ OneCallEach(grpcStreams')
  BY DEF IInv, TypeOK, CallsLive, CallVectors, OneCallEach

(* The pointers of another connection's table point to other objects. *)
LEMMA OthersObjects ==
    ASSUME IInv, NEW d \in Conn, NEW i \in 1..Len(streams[d])
    PROVE  /\ streams[d][i] \in Addr
           /\ heap[streams[d][i]] # Null
           /\ heap[streams[d][i]].frameWriter = d
  <1>1. streams[d] \in Seq(Addr)
    BY DEF IInv, TypeOK, ConnectionTypeOK
  <1>2. streams[d][i] \in Addr
    BY <1>1
  <1> QED BY <1>2 DEF IInv, StreamOwnership

(* newStream, on a Stream that has no call yet: it gets the handler of the *)
(* path, and the others keep theirs.                                       *)
LEMMA OpenHandlers ==
    ASSUME IInv, IInv', NEW stream \in Addr, NEW object, NEW path,
           heap[stream] = Null, NewStream(stream, object, path)
    PROVE  /\ \A s : s # stream => HandlerIn(grpcStreams', s) = HandlerIn(grpcStreams, s)
           /\ HandlerIn(grpcStreams', stream) = IF path = Null THEN Null ELSE FindMethod(path)
  <1> DEFINE g == grpcStreams
             new == [stream |-> stream, handler |-> FindMethod(path)]
  <1>1. g \in CallVectors /\ OneCallEach(g) /\ g' \in CallVectors /\ OneCallEach(g')
    BY CallsFacts
  <1>2. \A i \in 1..Len(g) : g[i].stream # stream
    BY DEF IInv, CallsLive
  <1>3. CASE g' = g /\ (path = Null \/ FindMethod(path) = Null)
    <2>1. HandlerIn(g, stream) = Null
      BY <1>1, <1>2, HandlerFacts
    <2> QED BY <1>3, <2>1
  <1>4. CASE g' = Append(g, new) /\ path # Null
    <2>1. new.stream = stream /\ new.handler = FindMethod(path)
      OBVIOUS
    <2> HIDE DEF new
    <2>2. g \in Seq([stream : Addr, handler : Handlers])
      BY <1>1 DEF CallVectors
    <2>3. /\ Len(g') = Len(g) + 1 /\ g'[Len(g) + 1] = new
          /\ \A i \in 1..Len(g) : i \in 1..Len(g') /\ g'[i] = g[i]
          /\ \A j \in 1..Len(g') : j \in 1..Len(g) \/ j = Len(g) + 1
          /\ Len(g) + 1 \in 1..Len(g')
      BY <1>4, <2>2, SMT
    <2>4. \A i \in 1..Len(g) : \E j \in 1..Len(g') : g'[j] = g[i]
      BY <2>3, Zenon
    <2>5. ASSUME NEW s, s # stream PROVE HandlerIn(g', s) = HandlerIn(g, s)
      <3>1. \A j \in 1..Len(g') : g'[j].stream = s => \E i \in 1..Len(g) : g'[j] = g[i]
        BY <2>1, <2>3, <2>5, Zenon
      <3> QED BY <1>1, <2>4, <3>1, SameHandler
    <2>6. HandlerIn(g', stream) = FindMethod(path)
      BY <1>1, <2>1, <2>3, HandlerFacts
    <2> QED BY <1>4, <2>5, <2>6
  <1> QED BY <1>3, <1>4 DEF NewStream

LEMMA HeadersShape ==
    ASSUME IInv, IInv', NEW c \in Conn, NEW id \in IDs, NEW path, Headers(c, id, path)
    PROVE  Others(c) /\ NothingLost
  <1> DEFINE object == [frameWriter |-> c, id |-> id]
             g == grpcStreams
  <1>1. PICK stream \in Addr : AllocateStream(c, id, stream) /\ NewStream(stream, object, path)
    BY DEF Headers
  <1>2. UNCHANGED <<connState, prefacePos, prefaceSettingsAckd>>
    BY DEF Headers
  <1>3. /\ heap[stream] = Null
        /\ heap' = [heap EXCEPT ![stream] = object]
        /\ streams' = [streams EXCEPT ![c] = Append(@, stream)]
    BY <1>1 DEF AllocateStream
  <1>4. streams \in [Conn -> Seq(Addr)] /\ heap \in [Addr -> Stream \cup {Null}]
    BY DEF IInv, TypeOK, ConnectionTypeOK
  <1>5. ASSUME NEW s, s # stream
        PROVE  HandlerIn(g', s) = HandlerIn(g, s)
    BY <1>1, <1>3, <1>5, OpenHandlers
  <1> HIDE DEF object
  <1>6. ASSUME NEW d \in Conn, d # c PROVE View(d)' = View(d)
    <2>1. streams'[d] = streams[d]
      BY <1>3, <1>4, <1>6
    <2>2. ASSUME NEW i \in 1..Len(streams[d])
          PROVE  /\ heap'[streams[d][i]] = heap[streams[d][i]]
                 /\ HandlerIn(g', streams[d][i]) = HandlerIn(g, streams[d][i])
      <3>1. streams[d][i] \in Addr /\ streams[d][i] # stream
        BY <1>3, OthersObjects
      <3> QED BY <1>3, <1>4, <1>5, <3>1
    <2> HIDE DEF g
    <2> QED BY <1>2, <2>1, <2>2, ViewKept DEF g
  <1>7. NothingLost
    <2>1. ASSUME NEW d \in Conn, NEW a \in ToSet(streams[d])
          PROVE  a \in ToSet(streams'[d])
      <3>1. streams[d] \in Seq(Addr)
        BY <1>4
      <3>2. streams'[d] = IF d = c THEN Append(streams[d], stream) ELSE streams[d]
        BY <1>3, <1>4
      <3>3. PICK i \in 1..Len(streams[d]) : streams[d][i] = a
        BY DEF ToSet
      <3>4. i \in 1..Len(streams'[d]) /\ streams'[d][i] = a
        BY <3>1, <3>2, <3>3, SMT
      <3> QED BY <3>4 DEF ToSet
    <2> QED BY <2>1 DEF NothingLost, Reachable
  <1> QED BY <1>6, <1>7 DEF Others

LEMMA EndShape ==
    ASSUME IInv, IInv', NEW c \in Conn, NEW id,
           ResetStream(GetStream(c, id)), DeallocateStream(c, id),
           UNCHANGED <<connState, prefaceSettingsAckd>>
    PROVE  Others(c) /\ NothingLost
  <1> DEFINE g == grpcStreams
  <1>1. CASE UNCHANGED <<heap, streams, g>>
    <2>1. \A d \in Conn : View(d)' = View(d)
      BY <1>1, HeapKept
    <2> QED BY <1>1, <2>1, KeptRows DEF Others
  <1>2. CASE ~UNCHANGED <<heap, streams, g>>
    <2>1. PICK a \in Addr :
             /\ heap[a].frameWriter = c
             /\ heap' = [heap EXCEPT ![a] = Null]
             /\ \A d \in Conn \ {c} : streams'[d] = streams[d]
             /\ \A i \in 1..Len(streams[c]) : streams[c][i] # a =>
                   \E j \in 1..Len(streams'[c]) : streams'[c][j] = streams[c][i]
             /\ \A i \in 1..Len(g) : g[i].stream # a => \E j \in 1..Len(g') : g'[j] = g[i]
             /\ \A j \in 1..Len(g') : \E i \in 1..Len(g) : g'[j] = g[i]
      BY <1>2, CloseShape
    <2>2. heap \in [Addr -> Stream \cup {Null}]
      BY DEF IInv, TypeOK, ConnectionTypeOK
    <2>3. g \in CallVectors /\ OneCallEach(g) /\ g' \in CallVectors /\ OneCallEach(g')
      BY CallsFacts
    <2>4. ASSUME NEW d \in Conn, d # c PROVE View(d)' = View(d)
      <3>1. streams'[d] = streams[d]
        BY <2>1, <2>4
      <3>2. ASSUME NEW i \in 1..Len(streams[d])
            PROVE  /\ heap'[streams[d][i]] = heap[streams[d][i]]
                   /\ HandlerIn(g', streams[d][i]) = HandlerIn(g, streams[d][i])
        <4>1. streams[d][i] \in Addr /\ streams[d][i] # a
          BY <2>1, <2>4, OthersObjects
        <4>2. heap'[streams[d][i]] = heap[streams[d][i]]
          BY <2>1, <2>2, <4>1
        <4>3. HandlerIn(g', streams[d][i]) = HandlerIn(g, streams[d][i])
          BY <2>1, <2>3, <4>1, SameHandler
        <4> QED BY <4>2, <4>3
      <3> HIDE DEF g
      <3> QED BY <3>1, <3>2, ViewKept DEF g
    <2>5. NothingLost
      <3>1. ASSUME NEW d \in Conn, NEW b \in ToSet(streams[d]), heap'[b] # Null
            PROVE  b \in ToSet(streams'[d])
        <4>1. PICK i \in 1..Len(streams[d]) : streams[d][i] = b
          BY DEF ToSet
        <4>2. b # a
          BY <2>1, <2>2, <3>1
        <4>3. CASE d # c
          BY <2>1, <4>3
        <4>4. CASE d = c
          BY <2>1, <4>1, <4>2, <4>4 DEF ToSet
        <4> QED BY <4>3, <4>4
      <3> QED BY <3>1 DEF NothingLost, Reachable
    <2> QED BY <2>4, <2>5 DEF Others
  <1> QED BY <1>1, <1>2

(* The bytes and frames that open and end no stream. *)
LEMMA QuietShape ==
    ASSUME IInv, IInv', NEW c \in Conn, UNCHANGED <<streams, heap, grpcStreams>>,
           \A d \in Conn \ {c} :
              /\ connState'[d] = connState[d]
              /\ d \in prefaceSettingsAckd' <=> d \in prefaceSettingsAckd
    PROVE  Others(c) /\ NothingLost
  BY HeapKept, KeptRows DEF Others

LEMMA PumpByteShape ==
    ASSUME IInv, IInv', NEW c \in Conn, PumpByte(c)
    PROVE  Others(c) /\ NothingLost
  <1>1. connState \in [Conn -> {"Deleted", "Started", "Connected", "Failed",
                            "Undefined"}]
    BY DEF IInv, TypeOK, ConnectionTypeOK
  <1>2. UNCHANGED <<prefaceSettingsAckd, streams, heap, grpcStreams>>
    BY DEF PumpByte, PrefaceByte, DiscardByte, NoCallback
  <1>3. \A d \in Conn \ {c} : connState'[d] = connState[d]
    BY <1>1 DEF PumpByte, PrefaceByte, DiscardByte
  <1> QED BY <1>2, <1>3, QuietShape

LEMMA PumpFrameShape ==
    ASSUME IInv, IInv', NEW c \in Conn, NEW f \in PeerFrames, PumpFrame(c, f)
    PROVE  Others(c) /\ NothingLost
  <1>1. /\ connState \in [Conn -> {"Deleted", "Started", "Connected", "Failed",
                            "Undefined"}]
        /\ prefaceSettingsAckd \subseteq Conn
        /\ f.streamID \in IDs
    BY DEF IInv, TypeOK, ConnectionTypeOK, PeerFrames
  <1>2. CASE /\ NoCallback
             /\ \/ UnreadableFrame(c) \/ NullFrame(c) \/ DropFrame(c, f.streamID)
                \/ Settings(c, f.streamID, f.flag = 1)
                \/ Ping(c, f.flag = 1) \/ IgnoredFrame(c)
    <2>1. UNCHANGED <<streams, heap, grpcStreams>>
      BY <1>2 DEF NoCallback, UnreadableFrame, NullFrame, DropFrame, Settings, Ping,
                  IgnoredFrame
    <2>2. ASSUME NEW d \in Conn, d # c
          PROVE  /\ connState'[d] = connState[d]
                 /\ d \in prefaceSettingsAckd' <=> d \in prefaceSettingsAckd
      BY <1>1, <1>2, <2>2 DEF UnreadableFrame, NullFrame, DropFrame, Settings, Ping,
                              IgnoredFrame
    <2> QED BY <2>1, <2>2, QuietShape
  <1>3. CASE Headers(c, f.streamID, f.path)
    BY <1>1, <1>3, HeadersShape
  <1>4. CASE Data(c, f.streamID, f.message, f.length, f.flag = 1)
    <2>1. UNCHANGED <<connState, prefaceSettingsAckd>>
      BY <1>4 DEF Data
    <2>2. CASE UNCHANGED <<grpcStreams, heap, streams>>
      BY <2>1, <2>2, QuietShape
    <2>3. CASE ResetStream(GetStream(c, f.streamID)) /\ DeallocateStream(c, f.streamID)
      BY <2>1, <2>3, EndShape
    <2> QED BY <1>4, <2>2, <2>3 DEF Data
  <1>5. CASE RstStream(c, f.streamID)
    BY <1>5, EndShape DEF RstStream
  <1> QED BY <1>2, <1>3, <1>4, <1>5 DEF PumpFrame

LEMMA AddShape ==
    ASSUME IInv, IInv', NEW c \in Conn, AddConnection(c)
    PROVE  Others(c) /\ NothingLost
  <1>1. /\ connState[c] = "Deleted"
        /\ connState' = [connState EXCEPT ![c] = "Started"]
        /\ prefaceSettingsAckd' = prefaceSettingsAckd \ {c}
        /\ streams' = [streams EXCEPT ![c] = <<>>]
        /\ UNCHANGED <<heap, grpcStreams>>
    BY DEF AddConnection, NewConnection
  <1>2. UNCHANGED streams
    BY <1>1 DEF IInv, NothingBeforeAck, TypeOK, ConnectionTypeOK
  <1>3. \A d \in Conn \ {c} :
            /\ connState'[d] = connState[d]
            /\ d \in prefaceSettingsAckd' <=> d \in prefaceSettingsAckd
    BY <1>1 DEF IInv, TypeOK, ConnectionTypeOK
  <1> QED BY <1>1, <1>2, <1>3, QuietShape

(* The destructor of Connection deletes no Stream object: those of its     *)
(* table are lost.                                                         *)
LEMMA RemoveShape ==
    ASSUME IInv, IInv', NEW c \in Conn, RemoveConnection(c)
    PROVE  /\ Others(c)
           /\ \A a \in Addr : Reachable(a) /\ ~Reachable(a)' =>
                 connState'[heap[a].frameWriter] = "Deleted"
  <1>1. /\ connState' = [connState EXCEPT ![c] = "Deleted"]
        /\ streams' = [streams EXCEPT ![c] = <<>>]
        /\ UNCHANGED <<prefaceSettingsAckd, heap, grpcStreams>>
    BY DEF RemoveConnection, DeleteConnection
  <1>2. /\ connState'[c] = "Deleted"
        /\ \A d \in Conn \ {c} : connState'[d] = connState[d] /\ streams'[d] = streams[d]
    BY <1>1 DEF IInv, TypeOK, ConnectionTypeOK
  <1>3. Others(c)
    BY <1>1, <1>2, HeapKept DEF Others
  <1>4. ASSUME NEW a \in Addr, Reachable(a), ~Reachable(a)'
        PROVE  heap[a].frameWriter = c
    <2>1. PICK d \in Conn : a \in ToSet(streams[d])
      BY <1>4 DEF Reachable
    <2>2. d = c
      BY <1>2, <1>4, <2>1 DEF Reachable
    <2>3. PICK i \in 1..Len(streams[c]) : streams[c][i] = a
      BY <2>1, <2>2 DEF ToSet
    <2> QED BY <2>3, OthersObjects
  <1> QED BY <1>2, <1>3, <1>4

-----------------------------------------------------------------------------
(* The results.                                                            *)

OneViewChanges ==
    \A c, d \in Conn : View(c)' # View(c) /\ View(d)' # View(d) => c = d

LossExplained ==
    \A a \in Addr :
        Reachable(a) /\ ~Reachable(a)' /\ heap'[a] # Null
           => connState'[heap[a].frameWriter] = "Deleted"

LEMMA NextShape ==
    ASSUME IInv, Next
    PROVE  OneViewChanges /\ LossExplained
  <1>1. IInv'
    BY NextIInv
  <1>2. ASSUME NEW c \in Conn, Others(c) PROVE OneViewChanges
    BY <1>2 DEF Others, OneViewChanges
  <1>3. ASSUME NothingLost PROVE LossExplained
    BY <1>3 DEF NothingLost, LossExplained
  <1>4. ASSUME NEW h \in Handlers, RegisterUnaryMethod(h)
        PROVE  OneViewChanges /\ LossExplained
    <2>1. UNCHANGED <<connState, prefaceSettingsAckd, streams, heap, grpcStreams>>
      BY <1>4 DEF RegisterUnaryMethod
    <2>2. \A d \in Conn : View(d)' = View(d)
      BY <1>1, <2>1, HeapKept
    <2> QED BY <1>3, <2>1, <2>2, KeptRows DEF OneViewChanges
  <1>5. ASSUME NEW c \in Conn, AddConnection(c) PROVE OneViewChanges /\ LossExplained
    BY <1>1, <1>2, <1>3, <1>5, AddShape
  <1>6. ASSUME NEW c \in Conn, RemoveConnection(c) PROVE OneViewChanges /\ LossExplained
    BY <1>1, <1>2, <1>6, RemoveShape DEF LossExplained
  <1>7. ASSUME NEW c \in Conn, PumpByte(c) PROVE OneViewChanges /\ LossExplained
    BY <1>1, <1>2, <1>3, <1>7, PumpByteShape
  <1>8. ASSUME NEW c \in Conn, NEW f \in PeerFrames, PumpFrame(c, f)
        PROVE  OneViewChanges /\ LossExplained
    BY <1>1, <1>2, <1>3, <1>8, PumpFrameShape
  <1> QED BY <1>4, <1>5, <1>6, <1>7, <1>8 DEF Next

(* What a peer does, and the end of its connection, changes nothing that   *)
(* the server keeps for another: deallocateStream and rstStream compare    *)
(* pointers, so a stream identifier two connections both use is no clash.  *)
THEOREM ConnectionsApart == Spec => Isolation
  <1>1. IInv /\ [Next]_vars => [OneViewChanges]_vars
    BY NextShape
  <1>2. Spec => [][OneViewChanges]_vars
    BY Invariance, <1>1, PTL DEF Spec
  <1> QED BY <1>2 DEF Isolation, OneViewChanges

(* As long as a connection lives, a Stream object of it stays in its table *)
(* until deallocateStream deletes it; only ~Connection leaks.              *)
THEOREM LeakOnlyWithConnection == Spec => LostOnlyWithConnection
  <1>1. IInv /\ [Next]_vars => [LossExplained]_vars
    BY NextShape
  <1>2. Spec => [][LossExplained]_vars
    BY Invariance, <1>1, PTL DEF Spec
  <1> QED BY <1>2 DEF LostOnlyWithConnection, LossExplained

-----------------------------------------------------------------------------
(* The clients of UnaryClient.                                             *)

(* What a client puts on the wire: no SETTINGS that are cut short. *)
ClientFrames == {f \in PeerFrames : f.type = SETTINGS => f.sixes}

UInv ==
    /\ IInv
    /\ UnaryTypeOK
    /\ toServer \in [Conn -> Seq(ClientFrames)]
    /\ Defined

CallType ==
    [phase : {"idle", "open", "sent", "cancelled"}, path : Names \cup {Null},
     message : Messages \cup {Null}, early : BOOLEAN]

-----------------------------------------------------------------------------
(* The frames of the client.                                               *)

LEMMA FramesTyped ==
    /\ \A flag \in 0..1 : SettingsFrame(flag) \in ClientFrames
    /\ \A id \in CallIDs : /\ ResetFrameOf(id) \in ClientFrames
                          /\ ContinuationFrame(id) \in ClientFrames
    /\ \A id \in CallIDs, path \in Names, decodes \in BOOLEAN :
          HeadersFrame(id, path, decodes) \in ClientFrames
    /\ GoAwayFrame \in ClientFrames
  <1> USE CallIDsAssumption DEF ClientFrames, PeerFrames,
          DATA, HEADERS, PRIORITY, RST_STREAM, SETTINGS, PUSH_PROMISE, PING, GOAWAY,
          WINDOW_UPDATE, CONTINUATION
  <1>1. ASSUME NEW flag \in 0..1 PROVE SettingsFrame(flag) \in ClientFrames
    BY DEF SettingsFrame
  <1>2. ASSUME NEW id \in CallIDs PROVE ResetFrameOf(id) \in ClientFrames
    BY DEF ResetFrameOf
  <1>3. ASSUME NEW id \in CallIDs, NEW path \in Names, NEW decodes \in BOOLEAN
        PROVE  HeadersFrame(id, path, decodes) \in ClientFrames
    BY DEF HeadersFrame
  <1>4. ASSUME NEW id \in CallIDs PROVE ContinuationFrame(id) \in ClientFrames
    BY DEF ContinuationFrame
  <1>5. GoAwayFrame \in ClientFrames
    BY DEF GoAwayFrame
  <1> QED BY <1>1, <1>2, <1>3, <1>4, <1>5

LEMMA BlocksTyped ==
    ASSUME NEW id \in CallIDs, NEW path \in Names, NEW frames \in Blocks(id, path)
    PROVE  frames \in Seq(ClientFrames)
  <1> DEFINE h1 == HeadersFrame(id, path, TRUE)
             h2 == HeadersFrame(id, path, FALSE)
             more == ContinuationFrame(id)
  <1>1. h1 \in ClientFrames /\ h2 \in ClientFrames /\ more \in ClientFrames
    BY FramesTyped
  <1>2. frames = <<h1>> \/ frames = <<h2>> \/ frames = <<h1, more>>
    BY DEF Blocks
  <1>3. ASSUME NEW S, NEW x \in S, NEW y \in S PROVE <<x>> \in Seq(S) /\ <<x, y>> \in Seq(S)
    OBVIOUS
  <1> HIDE DEF h1, h2, more, ClientFrames
  <1> QED BY <1>1, <1>2, <1>3, Zenon

LEMMA DataTyped ==
    ASSUME NEW id \in CallIDs, NEW message \in Messages, NEW lengths \in Segmentations
    PROVE  DataFrames(id, message, lengths) \in Seq(ClientFrames)
  <1>1. lengths \in Seq(DataLengths) /\ Len(lengths) \in Nat
    BY SegmentationsAssumption
  <1>2. ASSUME NEW i \in 1..Len(lengths)
        PROVE  [type |-> DATA, streamID |-> id, flag |-> IF i = Len(lengths) THEN 1 ELSE 0,
                message |-> message, length |-> lengths[i]] \in ClientFrames
    <2>1. lengths[i] \in DataLengths
      BY <1>1
    <2> QED BY <2>1, CallIDsAssumption
        DEF ClientFrames, PeerFrames, DATA, HEADERS, PRIORITY, RST_STREAM,
            SETTINGS, PUSH_PROMISE, PING, GOAWAY, WINDOW_UPDATE, CONTINUATION
  <1>3. ASSUME NEW S, NEW n \in Nat, NEW g \in [1..n -> S] PROVE g \in Seq(S)
    OBVIOUS
  <1>4. DataFrames(id, message, lengths) \in [1..Len(lengths) -> ClientFrames]
    BY <1>2 DEF DataFrames
  <1> HIDE DEF ClientFrames
  <1> QED BY <1>1, <1>3, <1>4

LEMMA Transmitted ==
    ASSUME toServer \in [Conn -> Seq(ClientFrames)], NEW c \in Conn,
           NEW frames \in Seq(ClientFrames), Transmit(c, frames)
    PROVE  toServer' \in [Conn -> Seq(ClientFrames)]
  <1>1. toServer[c] \o frames \in Seq(ClientFrames)
    OBVIOUS
  <1> QED BY <1>1 DEF Transmit

LEMMA QueueType ==
    ASSUME NEW q \in [Conn -> Seq(ClientFrames)]
    PROVE  q \in [Conn -> Seq(PeerFrames)]
  <1>1. ASSUME NEW S, NEW T, S \subseteq T, NEW s \in Seq(S) PROVE s \in Seq(T)
    BY <1>1
  <1>2. ClientFrames \subseteq PeerFrames
    BY DEF ClientFrames
  <1> HIDE DEF ClientFrames
  <1>3. \A c \in Conn : q[c] \in Seq(PeerFrames)
    BY <1>1, <1>2
  <1> QED BY <1>3

-----------------------------------------------------------------------------
(* The composition makes steps of GRPCServer only.                         *)

(* The frame the server reads next is one a client sent. *)
LEMMA NextFrame ==
    ASSUME UInv, NEW c \in Conn, toServer[c] # <<>>
    PROVE  /\ Head(toServer[c]) \in PeerFrames
           /\ Head(toServer[c]).type = SETTINGS => Head(toServer[c]).sixes
           /\ Tail(toServer[c]) \in Seq(ClientFrames)
  <1>1. toServer[c] \in Seq(ClientFrames)
    BY DEF UInv
  <1>2. Head(toServer[c]) \in ClientFrames /\ Tail(toServer[c]) \in Seq(ClientFrames)
    <2> HIDE DEF ClientFrames
    <2>1. ASSUME NEW S, NEW s \in Seq(S), s # <<>>
          PROVE  Head(s) \in S /\ Tail(s) \in Seq(S)
      BY <2>1, SMT
    <2> QED BY <1>1, <2>1
  <1> QED BY <1>2 DEF ClientFrames

LEMMA ServerStep ==
    ASSUME UInv, UnaryNext
    PROVE  Next \/ UNCHANGED vars
  <1> USE DEF UInv
  <1>1. ASSUME NEW h \in Handlers, Register(h) PROVE Next
    BY <1>1 DEF Register, Next
  <1>2. ASSUME NEW c \in Conn, Connect(c) PROVE Next
    BY <1>2 DEF Connect, Next
  <1>3. ASSUME NEW c \in Conn, Leave(c) PROVE Next
    BY <1>3 DEF Leave, Next
  <1>4. ASSUME NEW c \in Conn, ServePreface(c) PROVE Next
    <2>1. PumpByte(c)
      BY <1>4 DEF ServePreface, PumpByte
    <2> QED BY <2>1 DEF Next
  <1>5. ASSUME NEW c \in Conn, ServeFrame(c) PROVE Next
    <2>1. Head(toServer[c]) \in PeerFrames
      BY <1>5, NextFrame DEF ServeFrame
    <2>2. CASE PumpFrame(c, Head(toServer[c]))
      BY <2>1, <2>2 DEF Next
    <2>3. CASE /\ c \in connections /\ DiscardByte(c) /\ NoCallback
               /\ UNCHANGED <<connections, unaryMethods>>
      BY <2>3 DEF Next, PumpByte
    <2> QED BY <1>5, <2>2, <2>3 DEF ServeFrame
  <1>6. ASSUME NEW c \in Conn, Acknowledge(c) \/ GoAway(c) PROVE UNCHANGED vars
    BY <1>6 DEF Acknowledge, GoAway
  <1>7. ASSUME NEW c \in Conn, NEW id \in CallIDs,
               \/ \E path \in Names : \E frames \in Blocks(id, path) :
                     Open(c, id, path, frames)
               \/ \E message \in Messages, lengths \in Segmentations :
                     Request(c, id, message, lengths)
               \/ Cancel(c, id)
        PROVE  UNCHANGED vars
    BY <1>7 DEF Open, Request, Cancel
  <1> QED BY <1>1, <1>2, <1>3, <1>4, <1>5, <1>6, <1>7 DEF UnaryNext, Serve

-----------------------------------------------------------------------------
(* Each action keeps the invariant.                                        *)

ClientTypeOK ==
    /\ toServer \in [Conn -> Seq(ClientFrames)]
    /\ acked \subseteq Conn
    /\ call \in [Conn -> [CallIDs -> CallType]]
    /\ DOMAIN received = Conn
    /\ connects \in 0..MaxConnects

LEMMA ClientTypes == UInv <=> IInv /\ ClientTypeOK /\ Defined
  BY QueueType DEF UInv, ClientTypeOK, UnaryTypeOK, CallType, IInv

LEMMA ClientTypesPrimed == (UInv <=> IInv /\ ClientTypeOK /\ Defined)'
  BY ClientTypes, PTL

LEMMA NoCallsType == NoCalls \in [CallIDs -> CallType]
  BY DEF NoCalls, NoCall, CallType

(* A client acts, or registers nothing new with the server. *)
LEMMA ClientStep ==
    ASSUME ClientTypeOK, NEW c \in Conn,
           \/ Connect(c)
           \/ Acknowledge(c)
           \/ GoAway(c)
           \/ Leave(c)
    PROVE  ClientTypeOK'
  <1>1. /\ call \in [Conn -> [CallIDs -> CallType]]
        /\ toServer \in [Conn -> Seq(ClientFrames)]
        /\ acked \subseteq Conn /\ DOMAIN received = Conn
        /\ connects \in 0..MaxConnects
    BY DEF ClientTypeOK
  <1>2. \A flag \in 0..1 : <<SettingsFrame(flag)>> \in Seq(ClientFrames)
    <2>1. \A flag \in 0..1 : SettingsFrame(flag) \in ClientFrames
      BY FramesTyped
    <2> HIDE DEF ClientFrames
    <2> QED BY <2>1
  <1>6. <<GoAwayFrame>> \in Seq(ClientFrames)
    <2>1. GoAwayFrame \in ClientFrames
      BY FramesTyped
    <2> HIDE DEF ClientFrames
    <2> QED BY <2>1
  <1>3. CASE Connect(c)
    <2>1. connects' \in 0..MaxConnects
      BY <1>1, <1>3, MaxConnectsAssumption, SMT DEF Connect
    <2>2. toServer' \in [Conn -> Seq(ClientFrames)]
      <3>1. 0 \in 0..1
        BY SMT
      <3> QED BY <1>1, <1>2, <1>3, <3>1 DEF Connect
    <2>3. call' \in [Conn -> [CallIDs -> CallType]]
      BY <1>1, <1>3, NoCallsType DEF Connect
    <2>4. acked' \subseteq Conn /\ DOMAIN received' = Conn
      BY <1>1, <1>3 DEF Connect
    <2> QED BY <2>1, <2>2, <2>3, <2>4 DEF ClientTypeOK
  <1>4. CASE Acknowledge(c)
    <2>1. toServer' \in [Conn -> Seq(ClientFrames)]
      <3>1. 1 \in 0..1
        BY SMT
      <3> QED BY <1>1, <1>2, <1>4, <3>1, Transmitted DEF Acknowledge
    <2> QED BY <1>1, <1>4, <2>1 DEF Acknowledge, ClientTypeOK
  <1>5. CASE Leave(c)
    <2>1. toServer' \in [Conn -> Seq(ClientFrames)]
      BY <1>1, <1>5 DEF Leave
    <2>2. call' \in [Conn -> [CallIDs -> CallType]]
      BY <1>1, <1>5, NoCallsType DEF Leave
    <2> QED BY <1>1, <1>5, <2>1, <2>2 DEF Leave, ClientTypeOK
  <1>7. CASE GoAway(c)
    <2>1. toServer' \in [Conn -> Seq(ClientFrames)]
      BY <1>1, <1>6, <1>7, Transmitted DEF GoAway
    <2> QED BY <1>1, <1>7, <2>1 DEF GoAway, ClientTypeOK
  <1> QED BY <1>3, <1>4, <1>5, <1>7

(* A call keeps its type through the assignments of a request or a cancel. *)
LEMMA CallEdited ==
    ASSUME ClientTypeOK, NEW c \in Conn, NEW id \in CallIDs
    PROVE  /\ \A message \in Messages :
                 [call[c][id] EXCEPT !.phase = "sent", !.message = message] \in CallType
           /\ [call[c][id] EXCEPT !.phase = "cancelled"] \in CallType
  <1>1. call[c][id] \in CallType
    BY DEF ClientTypeOK
  <1> HIDE DEF ClientTypeOK
  <1>2. \A k \in CallType :
          /\ \A message \in Messages :
                [k EXCEPT !.phase = "sent", !.message = message] \in CallType
          /\ [k EXCEPT !.phase = "cancelled"] \in CallType
    BY DEF CallType
  <1> QED BY <1>1, <1>2

(* A client opens a call, sends its request or cancels it. *)
LEMMA CallStep ==
    ASSUME ClientTypeOK, NEW c \in Conn, NEW id \in CallIDs,
           \/ \E path \in Names : \E frames \in Blocks(id, path) :
                 Open(c, id, path, frames)
           \/ \E message \in Messages, lengths \in Segmentations :
                 Request(c, id, message, lengths)
           \/ Cancel(c, id)
    PROVE  ClientTypeOK'
  <1>1. /\ call \in [Conn -> [CallIDs -> CallType]]
        /\ toServer \in [Conn -> Seq(ClientFrames)]
    BY DEF ClientTypeOK
  <1>2. ASSUME NEW frames \in Seq(ClientFrames), Transmit(c, frames),
               NEW k \in CallType, call' = [call EXCEPT ![c][id] = k],
               UNCHANGED <<acked, received, connects>>
        PROVE  ClientTypeOK'
    <2>1. toServer' \in [Conn -> Seq(ClientFrames)]
      BY <1>1, <1>2, Transmitted
    <2>2. call' \in [Conn -> [CallIDs -> CallType]]
      BY <1>1, <1>2
    <2> QED BY <1>2, <2>1, <2>2 DEF ClientTypeOK
  <1>3. ASSUME NEW f \in ClientFrames PROVE <<f>> \in Seq(ClientFrames)
    <2> HIDE DEF ClientFrames
    <2> QED BY <1>3
  <1>4. ASSUME NEW path \in Names, NEW frames \in Blocks(id, path),
               Open(c, id, path, frames)
        PROVE  ClientTypeOK'
    <2> DEFINE k == [phase |-> "open", path |-> path, message |-> Null,
                     early |-> c \notin acked]
    <2>1. k \in CallType
      BY DEF CallType
    <2>2. frames \in Seq(ClientFrames)
      BY BlocksTyped
    <2>3. /\ Transmit(c, frames)
          /\ call' = [call EXCEPT ![c][id] = k]
          /\ UNCHANGED <<acked, received, connects>>
      BY <1>4 DEF Open
    <2> HIDE DEF k
    <2> QED BY <1>2, <2>1, <2>2, <2>3
  <1>5. ASSUME NEW message \in Messages, NEW lengths \in Segmentations,
               Request(c, id, message, lengths)
        PROVE  ClientTypeOK'
    <2> DEFINE k == [call[c][id] EXCEPT !.phase = "sent", !.message = message]
    <2>1. k \in CallType
      BY CallEdited
    <2>2. call' = [call EXCEPT ![c][id] = k]
      BY <1>1, <1>5 DEF Request
    <2>3. /\ Transmit(c, DataFrames(id, message, lengths))
          /\ UNCHANGED <<acked, received, connects>>
      BY <1>5 DEF Request
    <2> HIDE DEF k
    <2> QED BY <1>2, <2>1, <2>2, <2>3, DataTyped
  <1>6. ASSUME Cancel(c, id) PROVE ClientTypeOK'
    <2> DEFINE k == [call[c][id] EXCEPT !.phase = "cancelled"]
    <2>1. k \in CallType
      BY CallEdited
    <2>2. call' = [call EXCEPT ![c][id] = k]
      BY <1>1, <1>6 DEF Cancel
    <2>3. /\ Transmit(c, <<ResetFrameOf(id)>>)
          /\ UNCHANGED <<acked, received, connects>>
      BY <1>6 DEF Cancel
    <2>4. <<ResetFrameOf(id)>> \in Seq(ClientFrames)
      BY <1>3, FramesTyped
    <2> HIDE DEF k
    <2> QED BY <1>2, <2>1, <2>2, <2>3, <2>4
  <1> QED BY <1>4, <1>5, <1>6

(* The server reads what a client sent. *)
LEMMA ServeStep ==
    ASSUME UInv, NEW c \in Conn, Serve(c)
    PROVE  ClientTypeOK'
  <1>1. ClientTypeOK
    BY ClientTypes
  <1>2. CASE ServePreface(c)
    <2>1. UNCHANGED <<toServer, acked, call, received, connects>>
      BY <1>2 DEF ServePreface, clientVars
    <2> QED BY <1>1, <2>1 DEF ClientTypeOK
  <1>3. CASE ServeFrame(c)
    <2>1. /\ toServer[c] # <<>>
          /\ toServer' = [toServer EXCEPT ![c] = Tail(toServer[c])]
          /\ Record
          /\ UNCHANGED <<acked, call, connects>>
      BY <1>3 DEF ServeFrame
    <2>2. Tail(toServer[c]) \in Seq(ClientFrames)
      BY <2>1, NextFrame
    <2>3. toServer \in [Conn -> Seq(ClientFrames)]
      BY <1>1 DEF ClientTypeOK
    <2>4. toServer' \in [Conn -> Seq(ClientFrames)]
      <3> HIDE DEF ClientFrames
      <3> QED BY <2>1, <2>2, <2>3
    <2>5. DOMAIN received' = Conn
      BY <2>1 DEF Record
    <2> QED BY <1>1, <2>1, <2>4, <2>5 DEF ClientTypeOK
  <1> QED BY <1>2, <1>3 DEF Serve

LEMMA ClientTypeKept ==
    ASSUME UInv, UnaryNext
    PROVE  ClientTypeOK'
  <1>1. ClientTypeOK
    BY ClientTypes
  <1>2. ASSUME NEW h \in Handlers, Register(h) PROVE ClientTypeOK'
    <2>1. UNCHANGED <<toServer, acked, call, received, connects>>
      BY <1>2 DEF Register, clientVars
    <2> QED BY <1>1, <2>1 DEF ClientTypeOK
  <1> QED BY <1>1, <1>2, ClientStep, CallStep, ServeStep DEF UnaryNext

(* No action uses a null pointer: the SETTINGS of a client are whole. *)
LEMMA DefinedKept ==
    ASSUME UInv, UnaryNext
    PROVE  Defined'
  <1>1. /\ connState \in [Conn -> {"Deleted", "Started", "Connected", "Failed",
                            "Undefined"}]
        /\ \A c \in Conn : connState[c] # "Undefined"
    BY DEF UInv, IInv, TypeOK, ConnectionTypeOK, Defined
  <1>2. ASSUME NEW c \in Conn, NEW s, s # "Undefined",
               \/ UNCHANGED connState
               \/ connState' = [connState EXCEPT ![c] = s]
        PROVE  Defined'
    BY <1>1, <1>2 DEF Defined
  <1>3. ASSUME UNCHANGED connState PROVE Defined'
    BY <1>1, <1>3 DEF Defined
  <1>4. ASSUME NEW h \in Handlers, Register(h) PROVE Defined'
    BY <1>3, <1>4 DEF Register, RegisterUnaryMethod
  <1>5. ASSUME NEW c \in Conn, Connect(c) PROVE Defined'
    <2>1. connState' = [connState EXCEPT ![c] = "Started"]
      BY <1>5 DEF Connect, AddConnection, NewConnection
    <2> QED BY <1>2, <2>1
  <1>6. ASSUME NEW c \in Conn, Leave(c) PROVE Defined'
    <2>1. connState' = [connState EXCEPT ![c] = "Deleted"]
      BY <1>6 DEF Leave, RemoveConnection, DeleteConnection
    <2> QED BY <1>2, <2>1
  <1>7. ASSUME NEW c \in Conn, ServePreface(c) PROVE Defined'
    <2>1. UNCHANGED connState \/ connState' = [connState EXCEPT ![c] = "Connected"]
      BY <1>7 DEF ServePreface, PrefaceByte
    <2> QED BY <1>2, <2>1
  <1>8. ASSUME NEW c \in Conn, ServeFrame(c) PROVE Defined'
    <2>1. Head(toServer[c]).type = SETTINGS => Head(toServer[c]).sixes
      BY <1>8, NextFrame DEF ServeFrame
    <2>2. CASE PumpFrame(c, Head(toServer[c]))
      <3>1. UNCHANGED connState \/ connState' = [connState EXCEPT ![c] = "Failed"]
        BY <2>1, <2>2 DEF PumpFrame, UnreadableFrame, DropFrame, Settings, Ping,
           IgnoredFrame, Headers, Data, RstStream
      <3> QED BY <1>2, <3>1
    <2>3. CASE DiscardByte(c)
      BY <1>3, <2>3 DEF DiscardByte
    <2> QED BY <1>8, <2>2, <2>3 DEF ServeFrame
  <1>9. ASSUME NEW c \in Conn, Acknowledge(c) \/ GoAway(c) PROVE Defined'
    BY <1>3, <1>9 DEF Acknowledge, GoAway, vars, connectionVars
  <1>10. ASSUME NEW c \in Conn, NEW id \in CallIDs,
                \/ \E path \in Names : \E frames \in Blocks(id, path) :
                      Open(c, id, path, frames)
                \/ \E message \in Messages, lengths \in Segmentations :
                      Request(c, id, message, lengths)
                \/ Cancel(c, id)
         PROVE  Defined'
    BY <1>3, <1>10 DEF Open, Request, Cancel, vars, connectionVars
  <1> QED BY <1>4, <1>5, <1>6, <1>7, <1>8, <1>9, <1>10 DEF UnaryNext, Serve

-----------------------------------------------------------------------------
(* The induction.                                                          *)

LEMMA InitUInv == UnaryInit => UInv
  <1> SUFFICES ASSUME UnaryInit PROVE UInv
    OBVIOUS
  <1>1. IInv
    BY InitIInv DEF UnaryInit
  <1>2. Defined
    BY DEF UnaryInit, Init, ConnectionInit, Defined
  <1>3. ClientTypeOK
    <2>1. <<>> \in Seq(ClientFrames)
      OBVIOUS
    <2>2. toServer \in [Conn -> Seq(ClientFrames)]
      <3> HIDE DEF ClientFrames
      <3> QED BY <2>1 DEF UnaryInit
    <2>3. call \in [Conn -> [CallIDs -> CallType]]
      BY NoCallsType DEF UnaryInit
    <2>4. 0 \in 0..MaxConnects
      BY MaxConnectsAssumption
    <2> QED BY <2>2, <2>3, <2>4 DEF UnaryInit, ClientTypeOK
  <1> QED BY <1>1, <1>2, <1>3, ClientTypes

LEMMA StutterUInv == UInv /\ UNCHANGED allVars => UInv'
  <1> SUFFICES ASSUME UInv, UNCHANGED allVars PROVE UInv'
    OBVIOUS
  <1>1. UNCHANGED vars /\ UNCHANGED <<toServer, acked, call, received, connects>>
    BY DEF allVars, clientVars
  <1>2. IInv'
    BY <1>1, StutterIInv DEF UInv
  <1>3. ClientTypeOK'
    BY <1>1, ClientTypes DEF ClientTypeOK
  <1>4. Defined'
    BY <1>1 DEF UInv, Defined, vars, connectionVars
  <1> QED BY <1>2, <1>3, <1>4, ClientTypesPrimed

LEMMA NextUInv == UInv /\ UnaryNext => UInv'
  <1> SUFFICES ASSUME UInv, UnaryNext PROVE UInv'
    OBVIOUS
  <1>1. IInv'
    BY ServerStep, NextIInv, StutterIInv DEF UInv
  <1> QED BY <1>1, ClientTypeKept, DefinedKept, ClientTypesPrimed

LEMMA UnaryInvariance == UnarySpec => []UInv
  <1>1. UInv /\ [UnaryNext]_allVars => UInv'
    BY NextUInv, StutterUInv
  <1> QED BY InitUInv, <1>1, PTL DEF UnarySpec

-----------------------------------------------------------------------------
(* The results.                                                            *)

(* With these clients the server makes no step that GRPCServer has not:    *)
(* every theorem about GRPCServer holds of it as well.                     *)
THEOREM ServerOfClients == UnarySpec => Spec
  <1>1. UInv /\ [UnaryNext]_allVars => [Next]_vars
    <2> SUFFICES ASSUME UInv, [UnaryNext]_allVars PROVE [Next]_vars
      OBVIOUS
    <2>1. CASE UnaryNext
      BY <2>1, ServerStep
    <2>2. CASE UNCHANGED allVars
      BY <2>2 DEF allVars
    <2> QED BY <2>1, <2>2
  <1>2. UnaryInit => Init
    BY DEF UnaryInit
  <1> QED BY UnaryInvariance, <1>1, <1>2, PTL DEF UnarySpec, Spec

(* The queues hold frames the server can be sent, and the clients' records *)
(* of their calls have the values their actions give them.                 *)
THEOREM UnaryTypeCorrect == UnarySpec => []UnaryTypeOK
  <1>1. UInv => UnaryTypeOK
    BY DEF UInv
  <1> QED BY UnaryInvariance, <1>1, PTL

-----------------------------------------------------------------------------
(***************************************************************************)
(* What the clients are told.  The invariant relates, connection by        *)
(* connection, the frames under way, the client's record of its calls,     *)
(* what it has received, and the rows of the server's tables.              *)
(***************************************************************************)

(* The answers carry one byte of the identifier. *)
OneByte == CallIDs \subseteq 0..255

(* The handler runs on each DATA frame. *)
WholeRequests == \A lengths \in Segmentations : Len(lengths) = 1

-----------------------------------------------------------------------------
(* The inductive invariant.  q are the frames under way on a connection    *)
(* (once it has failed, those it has not read and will not),               *)
(* calls the calls of its client, recv what this received; cack and sack   *)
(* say whether the client has sent and the server has read the             *)
(* acknowledgement, and T are the streams of the connection with the       *)
(* handlers of their GRPCStreams.                                          *)

Rows(c) == View(c)[3]

RowType == Stream \X (Handlers \cup {Null})

(* The frames that the server takes for a call. *)
CallTypes == {HEADERS, DATA, RST_STREAM}

(* What a frame under way says of the call it belongs to. *)
Expected(f, calls) ==
    \/ f.type \in {SETTINGS, GOAWAY} /\ f.streamID = 0
    \/ /\ f.streamID \in CallIDs
       /\ f.type = CONTINUATION
       /\ calls[f.streamID].phase # "idle"
    \/ /\ f.streamID \in CallIDs
       /\ \/ /\ f.type = HEADERS
             /\ calls[f.streamID].phase # "idle"
             /\ f.path = calls[f.streamID].path /\ f.path \in Names
          \/ /\ f.type = DATA
             /\ f.flag = 1
             /\ calls[f.streamID].phase \in {"sent", "cancelled"}
             /\ f.message = calls[f.streamID].message
          \/ f.type = RST_STREAM /\ calls[f.streamID].phase = "cancelled"

QueueInv(q, calls) == \A k \in 1..Len(q) : Expected(q[k], calls)

(* The HEADERS of a call comes first, and the server has nothing of it. *)
HeadInv(q, recv, T) ==
    \A k \in 1..Len(q) : q[k].type = HEADERS =>
        /\ \A j \in 1..(k - 1) : q[j].streamID # q[k].streamID
        /\ recv[q[k].streamID] = <<>>
        /\ \A i \in 1..Len(T) : T[i][1].id # q[k].streamID

(* The acknowledgement is on its way from the client to the server, between *)
(* the frames of the calls opened before it and those of the others.       *)
IsAck(f) == f.type = SETTINGS /\ f.flag = 1

AckOnItsWay(q, cack, sack) ==
    /\ ~cack => ~sack /\ \A k \in 1..Len(q) : ~IsAck(q[k])
    /\ cack => sack \/ \E k \in 1..Len(q) : IsAck(q[k])

EarlyBefore(q, calls, sack) ==
    \A k \in 1..Len(q) : q[k].type \in CallTypes =>
        /\ ~calls[q[k].streamID].early => sack \/ \E j \in 1..(k - 1) : IsAck(q[j])
        /\ calls[q[k].streamID].early /\ q[k].type = HEADERS =>
              ~sack /\ \A j \in 1..(k - 1) : ~IsAck(q[j])

EarlyUnlessAcked(calls, cack) ==
    ~cack => \A id \in CallIDs : calls[id].phase # "idle" => calls[id].early

TableInv(T, calls, recv) ==
    \A i \in 1..Len(T) :
        /\ T[i][1].id \in CallIDs
        /\ calls[T[i][1].id].phase # "idle" /\ ~calls[T[i][1].id].early
        /\ \A j \in 1..Len(T) : T[j][1].id = T[i][1].id => i = j
        /\ T[i][2] # Null =>
              NameOf[T[i][2]] = calls[T[i][1].id].path /\ recv[T[i][1].id] = <<>>

(* What the server has of a call, or will have, is going to be ended. *)
EndInv(q, calls, T) ==
    \A id \in CallIDs :
        \/ calls[id].phase = "open"
        \/ \E k \in 1..Len(q) : EndsStream(q[k], id)
        \/ /\ \A i \in 1..Len(T) : T[i][1].id # id
           /\ \A k \in 1..Len(q) : q[k].streamID = id => q[k].type # HEADERS

(* What a client receives for a call: nothing, refusals, the error of an   *)
(* unknown method, or the answer to its request.                           *)
Served(c, id) == [frameWriter |-> c, id |-> id]

Reply(c, id, r, k, sack) ==
    \/ r = <<>>
    \/ k.phase # "idle" /\ k.early /\ r \in Seq({RstStreamFrame(c, id)})
    \/ /\ sack /\ k.phase # "idle" /\ ~k.early
       /\ r = WriteResponseError(Served(c, id), UNIMPLEMENTED)
    \/ /\ sack /\ k.phase \in {"sent", "cancelled"} /\ ~k.early
       /\ \E h \in Handlers :
             NameOf[h] = k.path /\ r = WriteResponse(Served(c, id), h, k.message)

ReplyInv(c, recv, calls, sack) ==
    \A id \in CallIDs : Reply(c, id, recv[id], calls[id], sack)

IdleInv(calls) == \A id \in CallIDs : calls[id].phase = "idle" => calls[id] = NoCall

ConnState(c, live, q, cack, sack, calls, recv, T) ==
    /\ QueueInv(q, calls)
    /\ HeadInv(q, recv, T)
    /\ live => AckOnItsWay(q, cack, sack)
    /\ EarlyBefore(q, calls, sack)
    /\ EarlyUnlessAcked(calls, cack)
    /\ TableInv(T, calls, recv)
    /\ EndInv(q, calls, T)
    /\ ReplyInv(c, recv, calls, sack)
    /\ IdleInv(calls)

ConnInv(c) ==
    \E q \in Seq(ClientFrames) :
        /\ connState[c] # "Failed" => q = toServer[c]
        /\ ConnState(c, connState[c] # "Deleted", q, c \in acked,
                     c \in prefaceSettingsAckd, call[c], received[c], Rows(c))

OutcomeInv ==
    /\ UInv
    /\ \A c \in Conn : ConnInv(c) /\ DOMAIN received[c] = ReplyIDs

-----------------------------------------------------------------------------
(* The server takes the first frame of the queue.                          *)

LEMMA Positions ==
    ASSUME NEW S, NEW q \in Seq(S), q # <<>>
    PROVE  /\ 1 \in 1..Len(q) /\ Head(q) = q[1]
           /\ \A k \in 1..Len(Tail(q)) : k + 1 \in 1..Len(q) /\ Tail(q)[k] = q[k + 1]
           /\ \A k \in 1..Len(q) :
                 k # 1 => k - 1 \in 1..Len(Tail(q)) /\ Tail(q)[k - 1] = q[k]
  OBVIOUS

LEMMA PopQueue ==
    ASSUME NEW q \in Seq(ClientFrames), q # <<>>, NEW calls, QueueInv(q, calls)
    PROVE  QueueInv(Tail(q), calls) /\ Expected(Head(q), calls)
  <1> HIDE DEF ClientFrames
  <1> QED BY Positions DEF QueueInv

LEMMA PopHead ==
    ASSUME NEW q \in Seq(ClientFrames), q # <<>>, NEW calls, QueueInv(q, calls),
           NEW recv, NEW recv2, NEW T, NEW T2, HeadInv(q, recv, T),
           \A id \in CallIDs : id # Head(q).streamID =>
              /\ recv2[id] = recv[id]
              /\ (\A i \in 1..Len(T) : T[i][1].id # id) => \A i \in 1..Len(T2) : T2[i][1].id # id
    PROVE  HeadInv(Tail(q), recv2, T2)
  <1> HIDE DEF ClientFrames
  <1> DEFINE p == Tail(q)
  <1>1. /\ 1 \in 1..Len(q) /\ Head(q) = q[1]
        /\ \A k \in 1..Len(p) : k + 1 \in 1..Len(q) /\ p[k] = q[k + 1]
    BY Positions
  <1> HIDE DEF p
  <1> SUFFICES ASSUME NEW k \in 1..Len(p), p[k].type = HEADERS
               PROVE  /\ \A j \in 1..(k - 1) : p[j].streamID # p[k].streamID
                      /\ recv2[p[k].streamID] = <<>>
                      /\ \A i \in 1..Len(T2) : T2[i][1].id # p[k].streamID
    BY DEF HeadInv, p
  <1>2. k + 1 \in 1..Len(q) /\ p[k] = q[k + 1]
    BY <1>1
  <1>3. /\ \A j \in 1..k : q[j].streamID # p[k].streamID
        /\ recv[p[k].streamID] = <<>>
        /\ \A i \in 1..Len(T) : T[i][1].id # p[k].streamID
    <2>1. (k + 1) - 1 = k
      BY SMT
    <2> QED BY <1>2, <2>1 DEF HeadInv
  <1>4. p[k].streamID \in CallIDs
    BY <1>2 DEF QueueInv, Expected, HEADERS, SETTINGS, GOAWAY, CONTINUATION
  <1>5. Head(q).streamID # p[k].streamID
    <2>1. 1 \in 1..k
      BY SMT
    <2> QED BY <1>1, <1>3, <2>1
  <1>6. ASSUME NEW j \in 1..(k - 1) PROVE p[j].streamID # p[k].streamID
    <2>1. j \in 1..Len(p) /\ j + 1 \in 1..k
      BY <1>1, SMT
    <2> QED BY <1>1, <1>3, <2>1
  <1> QED BY <1>3, <1>4, <1>5, <1>6

LEMMA PopAck ==
    ASSUME NEW q \in Seq(ClientFrames), q # <<>>, NEW calls,
           NEW cack \in BOOLEAN, NEW sack \in BOOLEAN, NEW sack2 \in BOOLEAN,
           sack2 <=> sack \/ IsAck(Head(q))
    PROVE  /\ AckOnItsWay(q, cack, sack) => AckOnItsWay(Tail(q), cack, sack2)
           /\ EarlyBefore(q, calls, sack) => EarlyBefore(Tail(q), calls, sack2)
  <1> HIDE DEF ClientFrames
  <1> DEFINE p == Tail(q)
  <1>1. /\ 1 \in 1..Len(q) /\ Head(q) = q[1]
        /\ \A k \in 1..Len(p) : k + 1 \in 1..Len(q) /\ p[k] = q[k + 1]
        /\ \A k \in 1..Len(q) : k # 1 => k - 1 \in 1..Len(p) /\ p[k - 1] = q[k]
    BY Positions
  <1> HIDE DEF p
  <1>2. ASSUME AckOnItsWay(q, cack, sack)
        PROVE  AckOnItsWay(p, cack, sack2)
    BY <1>1, <1>2 DEF AckOnItsWay
  <1>3. ASSUME EarlyBefore(q, calls, sack), NEW k \in 1..Len(p), p[k].type \in CallTypes
        PROVE  /\ ~calls[p[k].streamID].early => sack2 \/ \E j \in 1..(k - 1) : IsAck(p[j])
               /\ calls[p[k].streamID].early /\ p[k].type = HEADERS =>
                     ~sack2 /\ \A j \in 1..(k - 1) : ~IsAck(p[j])
    <2>1. k + 1 \in 1..Len(q) /\ p[k] = q[k + 1] /\ (k + 1) - 1 = k
      BY <1>1, SMT
    <2>2. /\ ~calls[p[k].streamID].early => sack \/ \E j \in 1..k : IsAck(q[j])
          /\ calls[p[k].streamID].early /\ p[k].type = HEADERS =>
                ~sack /\ \A j \in 1..k : ~IsAck(q[j])
      BY <1>3, <2>1 DEF EarlyBefore
    <2>3. ASSUME NEW j \in 1..k, IsAck(q[j])
          PROVE  sack2 \/ \E i \in 1..(k - 1) : IsAck(p[i])
      <3>1. CASE j = 1
        BY <1>1, <2>3, <3>1
      <3>2. CASE j # 1
        <4>1. j - 1 \in 1..(k - 1) /\ j \in 1..Len(q)
          BY <2>1, <3>2, SMT
        <4> QED BY <1>1, <2>3, <3>2, <4>1
      <3> QED BY <3>1, <3>2
    <2>4. ASSUME \A j \in 1..k : ~IsAck(q[j])
          PROVE  ~IsAck(Head(q)) /\ \A j \in 1..(k - 1) : ~IsAck(p[j])
      <3>1. 1 \in 1..k /\ \A j \in 1..(k - 1) : j \in 1..Len(p) /\ j + 1 \in 1..k
        BY <1>1, SMT
      <3> QED BY <1>1, <2>4, <3>1
    <2> QED BY <2>2, <2>3, <2>4
  <1> QED BY <1>2, <1>3 DEF EarlyBefore, p

LEMMA PopEnd ==
    ASSUME NEW q \in Seq(ClientFrames), q # <<>>, NEW calls,
           NEW recv, NEW T, NEW T2, HeadInv(q, recv, T), EndInv(q, calls, T),
           \A id \in CallIDs :
              /\ EndsStream(Head(q), id) => \A i \in 1..Len(T2) : T2[i][1].id # id
              /\ \/ \A i \in 1..Len(T2) : T2[i][1].id # id
                 \/ \E i \in 1..Len(T) : T[i][1].id = id
                 \/ Head(q).type = HEADERS /\ Head(q).streamID = id
    PROVE  EndInv(Tail(q), calls, T2)
  <1> HIDE DEF ClientFrames
  <1> DEFINE p == Tail(q)
  <1>1. /\ 1 \in 1..Len(q) /\ Head(q) = q[1]
        /\ \A k \in 1..Len(p) : k + 1 \in 1..Len(q) /\ p[k] = q[k + 1]
        /\ \A k \in 1..Len(q) : k # 1 => k - 1 \in 1..Len(p) /\ p[k - 1] = q[k]
    BY Positions
  <1> HIDE DEF p
  <1>2. ASSUME NEW id \in CallIDs,
               calls[id].phase # "open",
               \A k \in 1..Len(p) : ~EndsStream(p[k], id)
        PROVE  /\ \A i \in 1..Len(T2) : T2[i][1].id # id
               /\ \A k \in 1..Len(p) : p[k].streamID = id => p[k].type # HEADERS
    <2>1. CASE \E k \in 1..Len(q) : EndsStream(q[k], id)
      <3>1. EndsStream(q[1], id)
        BY <1>1, <1>2, <2>1
      <3>2. \A i \in 1..Len(T2) : T2[i][1].id # id
        BY <1>1, <3>1
      <3>3. ASSUME NEW k \in 1..Len(p), p[k].streamID = id, p[k].type = HEADERS
            PROVE  FALSE
        <4>1. k + 1 \in 1..Len(q) /\ p[k] = q[k + 1] /\ 1 \in 1..((k + 1) - 1)
          BY <1>1, SMT
        <4>2. q[1].streamID # id
          BY <3>3, <4>1 DEF HeadInv
        <4> QED BY <3>1, <4>2 DEF EndsStream
      <3> QED BY <3>2, <3>3
    <2>2. CASE ~ \E k \in 1..Len(q) : EndsStream(q[k], id)
      <3>1. /\ \A i \in 1..Len(T) : T[i][1].id # id
            /\ \A k \in 1..Len(q) : q[k].streamID = id => q[k].type # HEADERS
        BY <1>2, <2>2 DEF EndInv
      <3>2. ~(Head(q).type = HEADERS /\ Head(q).streamID = id)
        BY <1>1, <3>1
      <3>3. \A i \in 1..Len(T2) : T2[i][1].id # id
        BY <3>1, <3>2
      <3>4. \A k \in 1..Len(p) : p[k].streamID = id => p[k].type # HEADERS
        BY <1>1, <3>1
      <3> QED BY <3>3, <3>4
    <2> QED BY <2>1, <2>2
  <1> QED BY <1>2 DEF EndInv, p

(* The table loses at most the row of the frame, or gains its row. *)
LEMMA TableSame ==
    ASSUME NEW T, NEW calls, NEW recv, NEW recv2, TableInv(T, calls, recv),
           \A i \in 1..Len(T) : recv2[T[i][1].id] = recv[T[i][1].id]
    PROVE  TableInv(T, calls, recv2)
  BY DEF TableInv

LEMMA TableGains ==
    ASSUME NEW T \in Seq(RowType), NEW row \in RowType, NEW calls, NEW recv, NEW recv2,
           TableInv(T, calls, recv),
           row[1].id \in CallIDs, calls[row[1].id].phase # "idle", ~calls[row[1].id].early,
           row[2] # Null => NameOf[row[2]] = calls[row[1].id].path
                              /\ recv2[row[1].id] = <<>>,
           \A i \in 1..Len(T) :
              T[i][1].id # row[1].id /\ recv2[T[i][1].id] = recv[T[i][1].id]
    PROVE  /\ TableInv(Append(T, row), calls, recv2)
           /\ \A id : \/ id = row[1].id
                      \/ \E i \in 1..Len(T) : T[i][1].id = id
                      \/ \A i \in 1..Len(Append(T, row)) : Append(T, row)[i][1].id # id
  <1> DEFINE U == Append(T, row)
  <1>0. U = Append(T, row)
    OBVIOUS
  <1>1. /\ \A i \in 1..Len(T) : U[i] = T[i]
        /\ \A i \in 1..Len(U) : i \in 1..Len(T) \/ U[i] = row
        /\ \A i, j \in 1..Len(U) : i \notin 1..Len(T) /\ j \notin 1..Len(T) => i = j
    <2> HIDE DEF RowType
    <2>1. Len(U) = Len(T) + 1 /\ U[Len(T) + 1] = row
      BY SMT
    <2>2. \A i \in 1..Len(T) : U[i] = T[i]
      BY SMT
    <2>3. \A i \in 1..Len(U) : i \in 1..Len(T) \/ i = Len(T) + 1
      BY <2>1, SMT
    <2> HIDE DEF U
    <2> QED BY <2>1, <2>2, <2>3, Zenon
  <1> HIDE DEF U
  <1>2. ASSUME NEW i \in 1..Len(U)
        PROVE  /\ U[i][1].id \in CallIDs
               /\ calls[U[i][1].id].phase # "idle" /\ ~calls[U[i][1].id].early
               /\ \A j \in 1..Len(U) : U[j][1].id = U[i][1].id => i = j
               /\ U[i][2] # Null =>
                     NameOf[U[i][2]] = calls[U[i][1].id].path /\ recv2[U[i][1].id] = <<>>
    <2>1. CASE i \in 1..Len(T)
      <3>1. \A j \in 1..Len(U) : U[j][1].id = U[i][1].id => i = j
        BY <1>1, <2>1 DEF TableInv
      <3> QED BY <1>1, <2>1, <3>1 DEF TableInv
    <2>2. CASE i \notin 1..Len(T)
      <3>1. U[i] = row
        BY <1>1, <2>2
      <3>2. \A j \in 1..Len(U) : U[j][1].id = U[i][1].id => i = j
        BY <1>1, <2>2, <3>1
      <3> QED BY <3>1, <3>2
    <2> QED BY <2>1, <2>2
  <1>3. TableInv(U, calls, recv2)
    BY <1>2 DEF TableInv
  <1>4. \A id : \/ id = row[1].id
                \/ \E i \in 1..Len(T) : T[i][1].id = id
                \/ \A i \in 1..Len(U) : U[i][1].id # id
    BY <1>1
  <1> QED BY <1>0, <1>3, <1>4, Zenon

LEMMA TableLoses ==
    ASSUME NEW T \in Seq(RowType), NEW n \in 1..Len(T), NEW calls, NEW recv, NEW recv2,
           TableInv(T, calls, recv),
           \A id \in CallIDs : id # T[n][1].id => recv2[id] = recv[id]
    PROVE  /\ TableInv(RemoveAt(T, n), calls, recv2)
           /\ \A i \in 1..Len(RemoveAt(T, n)) : RemoveAt(T, n)[i][1].id # T[n][1].id
           /\ \A id : (\A i \in 1..Len(T) : T[i][1].id # id)
                       => \A i \in 1..Len(RemoveAt(T, n)) : RemoveAt(T, n)[i][1].id # id
  <1> DEFINE U == RemoveAt(T, n)
             p(i) == IF i < n THEN i ELSE i + 1
  <1>1. Len(U) = Len(T) - 1 /\ \A i \in 1..(Len(T) - 1) : U[i] = T[p(i)]
    <2> HIDE DEF RowType
    <2> QED BY Erased
  <1>2. /\ \A i \in 1..(Len(T) - 1) : p(i) \in 1..Len(T) /\ p(i) # n
        /\ \A i, j \in 1..(Len(T) - 1) : p(i) = p(j) => i = j
    <2>1. Len(T) \in Nat
      OBVIOUS
    <2> QED BY <2>1, SMT
  <1> HIDE DEF U, p
  <1>3. \A i \in 1..Len(U) : p(i) \in 1..Len(T) /\ p(i) # n /\ U[i] = T[p(i)]
    BY <1>1, <1>2
  <1>4. \A i \in 1..Len(U) : U[i][1].id # T[n][1].id
    BY <1>3 DEF TableInv
  <1>5. ASSUME NEW i \in 1..Len(U)
        PROVE  /\ U[i][1].id \in CallIDs
               /\ calls[U[i][1].id].phase # "idle" /\ ~calls[U[i][1].id].early
               /\ \A j \in 1..Len(U) : U[j][1].id = U[i][1].id => i = j
               /\ U[i][2] # Null =>
                     NameOf[U[i][2]] = calls[U[i][1].id].path /\ recv2[U[i][1].id] = <<>>
    <2>1. p(i) \in 1..Len(T) /\ U[i] = T[p(i)]
      BY <1>3
    <2>2. \A j \in 1..Len(U) : U[j][1].id = U[i][1].id => i = j
      <3> SUFFICES ASSUME NEW j \in 1..Len(U), U[j][1].id = U[i][1].id PROVE i = j
        OBVIOUS
      <3>1. p(j) = p(i)
        BY <1>3, <2>1 DEF TableInv
      <3> QED BY <1>1, <1>2, <3>1
    <2>3. U[i][1].id # T[n][1].id
      BY <1>4
    <2> QED BY <2>1, <2>2, <2>3 DEF TableInv
  <1>6. TableInv(U, calls, recv2)
    BY <1>5 DEF TableInv
  <1> QED BY <1>3, <1>4, <1>6 DEF U

-----------------------------------------------------------------------------
(* The client acts: it sends a frame and goes on with a call.              *)

(* What is said of a call stays true. *)
Follows(k, k2) ==
    /\ k.phase # "idle" => /\ k2.phase # "idle"
                           /\ k2.path = k.path
                           /\ k2.early = k.early
    /\ k.phase \in {"sent", "cancelled"} =>
          k2.phase \in {"sent", "cancelled"} /\ k2.message = k.message
    /\ k.phase = "cancelled" => k2.phase = "cancelled"
    /\ k2.phase # "idle"

LEMMA CallFollows ==
    ASSUME NEW q, NEW calls, NEW calls2, NEW id \in CallIDs,
           Follows(calls[id], calls2[id]),
           \A j \in CallIDs : j # id => calls2[j] = calls[j],
           NEW recv, NEW T, NEW c, NEW sack, NEW cack
    PROVE  /\ QueueInv(q, calls) => QueueInv(q, calls2)
           /\ QueueInv(q, calls) /\ EarlyBefore(q, calls, sack) => EarlyBefore(q, calls2, sack)
           /\ TableInv(T, calls, recv) => TableInv(T, calls2, recv)
           /\ ReplyInv(c, recv, calls, sack) => ReplyInv(c, recv, calls2, sack)
           /\ IdleInv(calls) => IdleInv(calls2)
           /\ EarlyUnlessAcked(calls, cack) /\ (~cack => calls2[id].early)
                 => EarlyUnlessAcked(calls2, cack)
  <1>1. ASSUME QueueInv(q, calls), NEW k \in 1..Len(q)
        PROVE  Expected(q[k], calls2)
    BY <1>1 DEF QueueInv, Expected, Follows
  <1>2. ASSUME QueueInv(q, calls), NEW k \in 1..Len(q), q[k].type \in CallTypes
        PROVE  calls2[q[k].streamID].early = calls[q[k].streamID].early
    BY <1>2 DEF QueueInv, Expected, Follows, CallTypes, HEADERS, DATA, RST_STREAM,
       SETTINGS, GOAWAY, CONTINUATION
  <1>3. ASSUME TableInv(T, calls, recv) PROVE TableInv(T, calls2, recv)
    BY <1>3 DEF TableInv, Follows
  <1>4. ASSUME NEW j \in CallIDs, Reply(c, j, recv[j], calls[j], sack)
        PROVE  Reply(c, j, recv[j], calls2[j], sack)
    <2>1. CASE j = id
      BY <1>4, <2>1 DEF Reply, Follows
    <2>2. CASE j # id
      BY <1>4, <2>2
    <2> QED BY <2>1, <2>2
  <1>5. QueueInv(q, calls) /\ EarlyBefore(q, calls, sack) => EarlyBefore(q, calls2, sack)
    BY <1>2 DEF EarlyBefore
  <1>6. IdleInv(calls) => IdleInv(calls2)
    BY DEF IdleInv, Follows
  <1>7. EarlyUnlessAcked(calls, cack) /\ (~cack => calls2[id].early)
           => EarlyUnlessAcked(calls2, cack)
    BY DEF EarlyUnlessAcked
  <1>8. ReplyInv(c, recv, calls, sack) => ReplyInv(c, recv, calls2, sack)
    BY <1>4 DEF ReplyInv
  <1> QED BY <1>1, <1>3, <1>5, <1>6, <1>7, <1>8 DEF QueueInv

(* A queue with a frame more. *)
IsLonger(p, q, f) ==
    /\ Len(p) = Len(q) + 1 /\ p[Len(q) + 1] = f
    /\ \A k \in 1..Len(q) : p[k] = q[k]
    /\ \A k \in 1..Len(p) : k \in 1..Len(q) \/ k = Len(q) + 1
    /\ Len(q) + 1 \in 1..Len(p)
    /\ \A k \in 1..Len(q) : k \in 1..Len(p)
    /\ \A k \in 1..Len(q) : \A j \in 1..(k - 1) : j \in 1..Len(q)
    /\ (Len(q) + 1) - 1 = Len(q)

LEMMA Longer ==
    ASSUME NEW q \in Seq(ClientFrames), NEW f \in ClientFrames
    PROVE  IsLonger(q \o <<f>>, q, f)
  <1> HIDE DEF ClientFrames
  <1> DEFINE p == q \o <<f>>
  <1>1. Len(p) = Len(q) + 1 /\ p[Len(q) + 1] = f /\ \A k \in 1..Len(q) : p[k] = q[k]
    BY SMT
  <1>2. Len(q) \in Nat
    OBVIOUS
  <1> HIDE DEF p
  <1>3. IsLonger(p, q, f)
    BY ONLY <1>1, <1>2, SMT DEF IsLonger
  <1> QED BY <1>3 DEF p

(* ... it keeps what is said of the acknowledgement on its way, *)
LEMMA PushedAck ==
    ASSUME NEW q \in Seq(ClientFrames), NEW f \in ClientFrames,
           NEW cack \in BOOLEAN, NEW sack \in BOOLEAN,
           AckOnItsWay(q, cack, sack), ~IsAck(f)
    PROVE  AckOnItsWay(q \o <<f>>, cack, sack)
  <1> HIDE DEF ClientFrames
  <1> DEFINE p == q \o <<f>>
  <1>1. p = q \o <<f>> /\ IsLonger(p, q, f)
    BY Longer
  <1> HIDE DEF p
  <1>2. AckOnItsWay(p, cack, sack)
    BY <1>1, Zenon DEF AckOnItsWay, IsLonger
  <1> QED BY <1>1, <1>2, Zenon

(* ... and of the frames before it, *)
LEMMA PushedEarly ==
    ASSUME NEW q \in Seq(ClientFrames), NEW f \in ClientFrames, NEW calls,
           NEW cack \in BOOLEAN, NEW sack \in BOOLEAN,
           AckOnItsWay(q, cack, sack), EarlyBefore(q, calls, sack),
           f.type \in CallTypes =>
              /\ ~calls[f.streamID].early => cack
              /\ calls[f.streamID].early /\ f.type = HEADERS => ~cack
    PROVE  EarlyBefore(q \o <<f>>, calls, sack)
  <1> HIDE DEF ClientFrames
  <1> DEFINE p == q \o <<f>>
  <1>1. p = q \o <<f>> /\ IsLonger(p, q, f)
    BY Longer
  <1> HIDE DEF p
  <1>2. ASSUME NEW k \in 1..Len(p), p[k].type \in CallTypes
        PROVE  /\ ~calls[p[k].streamID].early => sack \/ \E j \in 1..(k - 1) : IsAck(p[j])
               /\ calls[p[k].streamID].early /\ p[k].type = HEADERS =>
                     ~sack /\ \A j \in 1..(k - 1) : ~IsAck(p[j])
    <2>1. CASE k \in 1..Len(q)
      <3>1. p[k] = q[k] /\ \A j \in 1..(k - 1) : p[j] = q[j]
        BY <1>1, <2>1, Zenon DEF IsLonger
      <3> QED BY <1>2, <2>1, <3>1, Zenon DEF EarlyBefore
    <2>2. CASE k = Len(q) + 1
      <3>1. p[k] = f /\ (k - 1) = Len(q) /\ \A j \in 1..Len(q) : p[j] = q[j]
        BY <1>1, <2>2, Zenon DEF IsLonger
      <3> QED BY <1>2, <3>1, Zenon DEF AckOnItsWay
    <2> QED BY <1>1, <1>2, <2>1, <2>2, Zenon DEF IsLonger
  <1>3. EarlyBefore(p, calls, sack)
    BY <1>2 DEF EarlyBefore
  <1> QED BY <1>1, <1>3, Zenon

(* ... and, once expected, what is said of its frames. *)
LEMMA Pushed ==
    ASSUME NEW q \in Seq(ClientFrames), NEW f \in ClientFrames, NEW calls, NEW recv, NEW T,
           Expected(f, calls)
    PROVE  /\ QueueInv(q, calls) => QueueInv(q \o <<f>>, calls)
           /\ HeadInv(q, recv, T)
                 /\ (f.type = HEADERS =>
                       /\ \A k \in 1..Len(q) : q[k].streamID # f.streamID
                       /\ recv[f.streamID] = <<>>
                       /\ \A i \in 1..Len(T) : T[i][1].id # f.streamID)
                 => HeadInv(q \o <<f>>, recv, T)
           /\ \E k \in 1..Len(q \o <<f>>) : (q \o <<f>>)[k] = f
           /\ \A k \in 1..Len(q) : \E j \in 1..Len(q \o <<f>>) : (q \o <<f>>)[j] = q[k]
           /\ \A k \in 1..Len(q \o <<f>>) :
                 (q \o <<f>>)[k] = f \/ \E j \in 1..Len(q) : (q \o <<f>>)[k] = q[j]
  <1> HIDE DEF ClientFrames
  <1> DEFINE p == q \o <<f>>
  <1>0. p = q \o <<f>> /\ IsLonger(p, q, f)
    BY Longer
  <1> HIDE DEF p
  <1>1. /\ Len(p) = Len(q) + 1 /\ p[Len(q) + 1] = f /\ \A k \in 1..Len(q) : p[k] = q[k]
        /\ \A k \in 1..Len(p) : k \in 1..Len(q) \/ k = Len(q) + 1
        /\ Len(q) + 1 \in 1..Len(p)
        /\ \A k \in 1..Len(q) : k \in 1..Len(p)
        /\ \A k \in 1..Len(q) : \A j \in 1..(k - 1) : j \in 1..Len(q)
        /\ (Len(q) + 1) - 1 = Len(q)
    BY <1>0 DEF IsLonger
  <1>4. QueueInv(q, calls) => QueueInv(p, calls)
    BY <1>1, Zenon DEF QueueInv
  <1>5. ASSUME HeadInv(q, recv, T),
               f.type = HEADERS =>
                  /\ \A k \in 1..Len(q) : q[k].streamID # f.streamID
                  /\ recv[f.streamID] = <<>>
                  /\ \A i \in 1..Len(T) : T[i][1].id # f.streamID,
               NEW k \in 1..Len(p), p[k].type = HEADERS
        PROVE  /\ \A j \in 1..(k - 1) : p[j].streamID # p[k].streamID
               /\ recv[p[k].streamID] = <<>>
               /\ \A i \in 1..Len(T) : T[i][1].id # p[k].streamID
    <2>1. CASE k \in 1..Len(q)
      <3>1. p[k] = q[k] /\ \A j \in 1..(k - 1) : p[j] = q[j]
        BY <1>1, <2>1, Zenon
      <3> QED BY <1>5, <2>1, <3>1, Zenon DEF HeadInv
    <2>2. CASE k = Len(q) + 1
      <3>1. p[k] = f /\ \A j \in 1..(k - 1) : j \in 1..Len(q) /\ p[j] = q[j]
        BY <1>1, <2>2, Zenon
      <3> QED BY <1>5, <3>1, Zenon
    <2> QED BY <1>1, <2>1, <2>2
  <1>8. HeadInv(q, recv, T)
           /\ (f.type = HEADERS =>
                 /\ \A k \in 1..Len(q) : q[k].streamID # f.streamID
                 /\ recv[f.streamID] = <<>>
                 /\ \A i \in 1..Len(T) : T[i][1].id # f.streamID)
           => HeadInv(p, recv, T)
    BY <1>5 DEF HeadInv
  <1>10. /\ \E k \in 1..Len(p) : p[k] = f
         /\ \A k \in 1..Len(q) : \E j \in 1..Len(p) : p[j] = q[k]
         /\ \A k \in 1..Len(p) : p[k] = f \/ \E j \in 1..Len(q) : p[k] = q[j]
    BY <1>1, Zenon
  <1> QED BY <1>4, <1>8, <1>10, Zenon DEF p

-----------------------------------------------------------------------------
(* What a frame does to the rows of the server's tables.                   *)

LEMMA HandlerType ==
    ASSUME IInv, NEW s
    PROVE  HandlerIn(grpcStreams, s) \in Handlers \cup {Null}
  <1>1. grpcStreams \in CallVectors /\ OneCallEach(grpcStreams)
    BY DEF IInv, TypeOK, CallsLive, CallVectors, OneCallEach
  <1>2. \A i \in 1..Len(grpcStreams) : grpcStreams[i].handler \in Handlers
    BY <1>1, GRPCStreamType DEF CallVectors
  <1>3. CASE \E i \in 1..Len(grpcStreams) : grpcStreams[i].stream = s
    BY <1>1, <1>2, <1>3, HandlerFacts
  <1>4. CASE \A i \in 1..Len(grpcStreams) : grpcStreams[i].stream # s
    BY <1>1, <1>4, HandlerFacts
  <1> QED BY <1>3, <1>4

LEMMA RowsAre ==
    ASSUME IInv, NEW c \in Conn
    PROVE  /\ Rows(c) = [i \in 1..Len(streams[c]) |->
                            <<heap[streams[c][i]], HandlerIn(grpcStreams, streams[c][i])>>]
           /\ Rows(c) \in Seq(RowType)
  <1> DEFINE row == [i \in 1..Len(streams[c]) |->
                        <<heap[streams[c][i]], HandlerIn(grpcStreams, streams[c][i])>>]
  <1>1. View(c) = <<connState[c], c \in prefaceSettingsAckd, row>>
    BY Zenon DEF View, FindStream, HandlerIn
  <1>2. Rows(c) = row
    <2> HIDE DEF row
    <2> QED BY <1>1 DEF Rows
  <1>3. Len(streams[c]) \in Nat
    BY DEF IInv, TypeOK, ConnectionTypeOK
  <1>4. ASSUME NEW i \in 1..Len(streams[c]) PROVE row[i] \in RowType
    <2>1. streams[c][i] \in Addr /\ heap[streams[c][i]] # Null
      BY OthersObjects
    <2>2. heap[streams[c][i]] \in Stream
      BY <2>1 DEF IInv, TypeOK, ConnectionTypeOK
    <2>3. HandlerIn(grpcStreams, streams[c][i]) \in Handlers \cup {Null}
      BY HandlerType
    <2> QED BY <2>2, <2>3 DEF RowType
  <1>5. row \in Seq(RowType)
    <2>1. ASSUME NEW S, NEW n \in Nat, NEW g \in [1..n -> S] PROVE g \in Seq(S)
      OBVIOUS
    <2>2. row \in [1..Len(streams[c]) -> RowType]
      BY <1>4
    <2> HIDE DEF row, RowType
    <2> QED BY <1>3, <2>1, <2>2
  <1> QED BY <1>2, <1>5

LEMMA RowsArePrimed ==
    ASSUME IInv', NEW c \in Conn
    PROVE  Rows(c)' = [i \in 1..Len(streams'[c]) |->
                          <<heap'[streams'[c][i]], HandlerIn(grpcStreams', streams'[c][i])>>]
  <1> DEFINE row == [i \in 1..Len(streams'[c]) |->
                        <<heap'[streams'[c][i]], HandlerIn(grpcStreams', streams'[c][i])>>]
  <1>1. View(c)' = <<connState'[c], c \in prefaceSettingsAckd', row>>
    BY Zenon DEF View, FindStream, HandlerIn
  <1> HIDE DEF row
  <1>2. Rows(c)' = row
    BY <1>1 DEF Rows
  <1> QED BY <1>2 DEF row

(* What is kept for a connection is what View shows of it. *)
LEMMA SameView ==
    ASSUME NEW d \in Conn, View(d)' = View(d)
    PROVE  /\ Rows(d)' = Rows(d)
           /\ connState'[d] = connState[d]
           /\ (d \in prefaceSettingsAckd') = (d \in prefaceSettingsAckd)
  <1>1. Rows(d)' = Rows(d)
    BY DEF Rows
  <1>2. ASSUME NEW a, NEW b, NEW x, NEW a2, NEW b2, NEW x2, <<a, b, x>> = <<a2, b2, x2>>
        PROVE  a = a2 /\ b = b2
    BY <1>2
  <1>3. View(d)[1] = connState[d] /\ View(d)'[1] = connState'[d]
    BY DEF View
  <1>4. View(d)[2] = (d \in prefaceSettingsAckd) /\ View(d)'[2] = (d \in prefaceSettingsAckd')
    BY DEF View
  <1> QED BY <1>1, <1>3, <1>4

LEMMA HeadersRows ==
    ASSUME IInv, IInv', NEW c \in Conn, NEW id \in IDs, NEW path \in Names,
           Headers(c, id, path)
    PROVE  /\ Rows(c)' = Append(Rows(c), <<Served(c, id), FindMethod(path)>>)
           /\ <<Served(c, id), FindMethod(path)>> \in RowType
           /\ written' = IF FindMethod(path) = Null
                         THEN WriteResponseError(Served(c, id), UNIMPLEMENTED) ELSE <<>>
           /\ UNCHANGED prefaceSettingsAckd /\ c \in prefaceSettingsAckd
  <1> DEFINE object == Served(c, id)
             s == streams[c]
             g == grpcStreams
  <1>0. path # Null
    BY NamesAssumption
  <1>1. PICK stream \in Addr : AllocateStream(c, id, stream) /\ NewStream(stream, object, path)
    BY DEF Headers, Served
  <1>2. /\ heap[stream] = Null
        /\ heap' = [heap EXCEPT ![stream] = object]
        /\ streams' = [streams EXCEPT ![c] = Append(s, stream)]
    BY <1>1 DEF AllocateStream, Served
  <1>3. /\ streams \in [Conn -> Seq(Addr)] /\ heap \in [Addr -> Stream \cup {Null}]
        /\ s \in Seq(Addr)
    BY DEF IInv, TypeOK, ConnectionTypeOK
  <1>4. /\ \A a : a # stream => HandlerIn(g', a) = HandlerIn(g, a)
        /\ HandlerIn(g', stream) = FindMethod(path)
    BY <1>0, <1>1, <1>2, OpenHandlers
  <1>5. written' = IF FindMethod(path) = Null
                   THEN WriteResponseError(object, UNIMPLEMENTED) ELSE <<>>
    BY <1>0, <1>1 DEF NewStream
  <1>6. object \in Stream /\ FindMethod(path) \in Handlers \cup {Null}
    BY FindMethodFacts DEF Served, Stream
  <1> HIDE DEF object
  <1>7. /\ heap'[stream] = object
        /\ \A a \in Addr : a # stream => heap'[a] = heap[a]
        /\ streams'[c] = Append(s, stream)
    BY <1>2, <1>3
  <1>8. ASSUME NEW i \in 1..Len(s) PROVE s[i] \in Addr /\ s[i] # stream
    BY <1>2, OthersObjects
  <1>9. Rows(c)' = [i \in 1..Len(Append(s, stream)) |->
                       <<heap'[Append(s, stream)[i]], HandlerIn(g', Append(s, stream)[i])>>]
    BY <1>7, RowsArePrimed
  <1>10. /\ Len(Append(s, stream)) = Len(s) + 1
         /\ Append(s, stream)[Len(s) + 1] = stream
         /\ \A i \in 1..Len(s) : Append(s, stream)[i] = s[i]
         /\ Len(s) \in Nat
    BY <1>3, SMT
  <1> DEFINE r == Rows(c)
             u == Rows(c)'
             row == <<object, FindMethod(path)>>
  <1>11. /\ r = [i \in 1..Len(s) |-> <<heap[s[i]], HandlerIn(g, s[i])>>]
         /\ r \in Seq(RowType) /\ Len(r) = Len(s)
    <2>1. r = [i \in 1..Len(s) |-> <<heap[s[i]], HandlerIn(g, s[i])>>] /\ r \in Seq(RowType)
      BY RowsAre
    <2>2. DOMAIN r = 1..Len(s)
      BY <2>1
    <2>3. Len(r) = Len(s)
      <3> HIDE DEF r
      <3>1. Len(r) \in Nat /\ DOMAIN r = 1..Len(r)
        BY <2>1
      <3> QED BY <1>10, <2>2, <3>1, SMT
    <2> QED BY <2>1, <2>3
  <1>12. /\ DOMAIN u = 1..(Len(s) + 1)
         /\ \A i \in 1..Len(s) : u[i] = r[i]
         /\ u[Len(s) + 1] = row
    <2>1. ASSUME NEW i \in 1..Len(s) PROVE u[i] = r[i]
      <3>1. u[i] = <<heap'[s[i]], HandlerIn(g', s[i])>>
        BY <1>9, <1>10
      <3>2. heap'[s[i]] = heap[s[i]] /\ HandlerIn(g', s[i]) = HandlerIn(g, s[i])
        BY <1>4, <1>7, <1>8
      <3> QED BY <1>11, <3>1, <3>2
    <2>2. u[Len(s) + 1] = row
      BY <1>4, <1>7, <1>9, <1>10
    <2>3. DOMAIN u = 1..(Len(s) + 1)
      BY <1>9, <1>10
    <2> QED BY <2>1, <2>2, <2>3
  <1>13. row \in RowType
    BY <1>6 DEF RowType
  <1>14. u = Append(r, row)
    <2>1. u = [i \in 1..(Len(s) + 1) |-> u[i]]
      BY <1>9, <1>10
    <2> HIDE DEF r, u, row
    <2>2. Append(r, row) = [i \in 1..(Len(s) + 1) |-> IF i = Len(s) + 1 THEN row ELSE r[i]]
      BY <1>10, <1>11, <1>13, SMT
    <2>3. \A i \in 1..(Len(s) + 1) : i \in 1..Len(s) \/ i = Len(s) + 1
      BY <1>10, SMT
    <2>4. \A i \in 1..(Len(s) + 1) : u[i] = IF i = Len(s) + 1 THEN row ELSE r[i]
      BY <1>12, <2>3
    <2> QED BY <2>1, <2>2, <2>4
  <1>15. UNCHANGED prefaceSettingsAckd /\ c \in prefaceSettingsAckd
    BY DEF Headers, Dispatched
  <1> QED BY <1>5, <1>13, <1>14, <1>15 DEF object

(* The stream that getStream finds, as a row of the tables. *)
LEMMA GetStreamRow ==
    ASSUME IInv, NEW c \in Conn, NEW id
    PROVE  /\ Len(Rows(c)) = Len(streams[c])
           /\ GetStream(c, id) = Null => \A i \in 1..Len(Rows(c)) : Rows(c)[i][1].id # id
           /\ GetStream(c, id) # Null =>
                 \E n \in 1..Len(Rows(c)) :
                    /\ streams[c][n] = GetStream(c, id)
                    /\ \A i \in 1..Len(streams[c]) : streams[c][i] = GetStream(c, id) => i = n
                    /\ Rows(c)[n][1] = Served(c, id)
                    /\ Rows(c)[n][1] = heap[GetStream(c, id)]
                    /\ Rows(c)[n][2] = HandlerIn(grpcStreams, GetStream(c, id))
  <1> DEFINE I == {i \in 1..Len(streams[c]) : heap[streams[c][i]].id = id}
             r == Rows(c)
             s == streams[c]
  <1>1. /\ r = [i \in 1..Len(s) |-> <<heap[s[i]], HandlerIn(grpcStreams, s[i])>>]
        /\ r \in Seq(RowType)
    BY RowsAre
  <1>2. s \in Seq(Addr) /\ heap \in [Addr -> Stream \cup {Null}]
    BY DEF IInv, TypeOK, ConnectionTypeOK
  <1>3. Len(r) = Len(s)
    <2>1. DOMAIN r = 1..Len(s) /\ Len(s) \in Nat
      BY <1>1, <1>2
    <2>2. Len(r) \in Nat /\ DOMAIN r = 1..Len(r)
      <3> HIDE DEF r, RowType
      <3> QED BY <1>1
    <2> HIDE DEF r
    <2> QED BY <2>1, <2>2, SMT
  <1>4. \A i \in 1..Len(s) : r[i][1] = heap[s[i]] /\ r[i][2] = HandlerIn(grpcStreams, s[i])
    BY <1>1
  <1>5. CASE I = {}
    <2>1. GetStream(c, id) = Null
      BY <1>5 DEF GetStream
    <2>2. \A i \in 1..Len(s) : heap[s[i]].id # id
      BY <1>5
    <2> QED BY <1>3, <1>4, <2>1, <2>2
  <1>6. CASE I # {}
    <2> DEFINE n == FirstIndex(I)
    <2>1. n \in I /\ GetStream(c, id) = s[n]
      <3>1. I \subseteq Nat
        BY <1>2
      <3>2. n \in I
        BY <1>6, <3>1, FirstIndexIn
      <3> QED BY <1>6, <3>2 DEF GetStream
    <2>2. n \in 1..Len(s) /\ heap[s[n]].id = id
      BY <2>1
    <2> HIDE DEF n, I
    <2>3. \A i \in 1..Len(s) : s[i] = s[n] => i = n
      BY <2>2 DEF IInv, StreamOwnership
    <2>4. s[n] \in Addr /\ heap[s[n]] # Null /\ heap[s[n]].frameWriter = c
      BY <2>2, OthersObjects
    <2>5. heap[s[n]] = Served(c, id)
      <3>1. heap[s[n]] \in Stream
        BY <1>2, <2>4
      <3> QED BY <2>2, <2>4, <3>1 DEF Stream, Served
    <2>6. s[n] # Null
      BY <2>4, NullAssumption
    <2>7. /\ n \in 1..Len(r) /\ s[n] = GetStream(c, id)
          /\ \A i \in 1..Len(s) : s[i] = GetStream(c, id) => i = n
          /\ r[n][1] = Served(c, id) /\ r[n][1] = heap[GetStream(c, id)]
          /\ r[n][2] = HandlerIn(grpcStreams, GetStream(c, id))
      BY <1>3, <1>4, <2>1, <2>2, <2>3, <2>5, Zenon
    <2> QED BY <1>3, <2>1, <2>6, <2>7, Zenon
  <1> QED BY <1>3, <1>5, <1>6

(* rstStream and deallocateStream take a row out, if there is one. *)
LEMMA CloseRows ==
    ASSUME IInv, IInv', NEW c \in Conn, NEW id,
           ResetStream(GetStream(c, id)), DeallocateStream(c, id)
    PROVE  \/ /\ \A i \in 1..Len(Rows(c)) : Rows(c)[i][1].id # id
              /\ Rows(c)' = Rows(c)
           \/ \E n \in 1..Len(Rows(c)) :
                 Rows(c)[n][1].id = id /\ Rows(c)' = RemoveAt(Rows(c), n)
  <1> DEFINE a == GetStream(c, id)
             g == grpcStreams
             s == streams[c]
             r == Rows(c)
             u == Rows(c)'
  <1>1. /\ streams \in [Conn -> Seq(Addr)] /\ s \in Seq(Addr) /\ Len(s) \in Nat
        /\ heap \in [Addr -> Stream \cup {Null}]
        /\ g \in CallVectors /\ OneCallEach(g) /\ g' \in CallVectors /\ OneCallEach(g')
    BY CallsFacts DEF IInv, TypeOK, ConnectionTypeOK
  <1>2. /\ r = [i \in 1..Len(s) |-> <<heap[s[i]], HandlerIn(g, s[i])>>]
        /\ r \in Seq(RowType) /\ Len(r) = Len(s)
    BY RowsAre, GetStreamRow
  <1>3. u = [i \in 1..Len(streams'[c]) |-> <<heap'[streams'[c][i]], HandlerIn(g', streams'[c][i])>>]
    BY RowsArePrimed
  <1>4. FindStream(a) # 0 => /\ FindStream(a) \in 1..Len(g)
                             /\ g[FindStream(a)].stream = a
    BY FindStreamFacts
  <1>5. CASE a = Null
    <2>1. FindStream(a) = 0
      <3>1. \A i \in 1..Len(g) : g[i].stream # Null
        BY <1>1, GRPCStreamType, NullAssumption DEF CallVectors
      <3> QED BY <1>4, <1>5, <3>1
    <2>2. UNCHANGED <<heap, streams, grpcStreams>>
      BY <1>5, <2>1 DEF ResetStream, DeallocateStream
    <2>3. u = r
      BY <1>2, <1>3, <2>2
    <2> QED BY <1>5, <2>3, GetStreamRow
  <1>6. CASE a # Null
    <2>1. PICK n \in 1..Len(r) : /\ s[n] = a /\ \A i \in 1..Len(s) : s[i] = a => i = n
                                 /\ r[n][1] = Served(c, id)
      BY <1>6, GetStreamRow
    <2>2. /\ heap' = [heap EXCEPT ![a] = Null]
          /\ streams'[c] = RemoveAt(s, n)
      <3> DEFINE I == {i \in 1..Len(s) : s[i] = a}
      <3>1. FirstIndex(I) \in I
        <4>1. I \subseteq Nat /\ n \in I
          BY <1>1, <1>2, <2>1
        <4> QED BY <4>1, FirstIndexIn
      <3>2. FirstIndex(I) = n
        BY <2>1, <3>1
      <3> HIDE DEF I
      <3>3. /\ heap' = [heap EXCEPT ![a] = Null]
            /\ streams' = [streams EXCEPT ![c] = RemoveAt(s, FirstIndex(I))]
        BY <1>6 DEF DeallocateStream, I
      <3> QED BY <1>1, <3>2, <3>3
    <2>3. ASSUME NEW b \in Addr, b # a
          PROVE  heap'[b] = heap[b] /\ HandlerIn(g', b) = HandlerIn(g, b)
      <3>1. /\ \A i \in 1..Len(g) : g[i].stream # a => \E j \in 1..Len(g') : g'[j] = g[i]
            /\ \A j \in 1..Len(g') : \E i \in 1..Len(g) : g'[j] = g[i]
        <4>1. CASE FindStream(a) = 0
          BY <4>1 DEF ResetStream
        <4>2. CASE FindStream(a) # 0
          <5>1. g' = RemoveAt(g, FindStream(a))
            BY <4>2 DEF ResetStream
          <5> QED BY <1>1, <1>4, <4>2, <5>1, ErasedKeeps DEF CallVectors
        <4> QED BY <4>1, <4>2
      <3>2. HandlerIn(g', b) = HandlerIn(g, b)
        BY <1>1, <2>3, <3>1, SameHandler
      <3> QED BY <1>1, <2>2, <2>3, <3>2
    <2> DEFINE p(i) == IF i < n THEN i ELSE i + 1
    <2>4. /\ Len(RemoveAt(s, n)) = Len(s) - 1
          /\ \A i \in 1..(Len(s) - 1) : RemoveAt(s, n)[i] = s[p(i)]
      <3>1. n \in 1..Len(s)
        BY <1>2
      <3> HIDE DEF r, s
      <3> QED BY <1>1, <3>1, Erased
    <2>5. /\ RemoveAt(r, n) \in Seq(RowType)
          /\ Len(RemoveAt(r, n)) = Len(s) - 1
          /\ \A i \in 1..(Len(s) - 1) : RemoveAt(r, n)[i] = r[p(i)]
      <3> HIDE DEF r, RowType
      <3> QED BY <1>2, Erased
    <2>6. \A i \in 1..(Len(s) - 1) : p(i) \in 1..Len(s) /\ p(i) # n
      BY <1>1, <1>2, SMT
    <2> HIDE DEF p
    <2>7. ASSUME NEW i \in 1..(Len(s) - 1)
          PROVE  u[i] = RemoveAt(r, n)[i]
      <3>1. s[p(i)] \in Addr /\ s[p(i)] # a
        BY <1>1, <2>1, <2>6
      <3>2. u[i] = <<heap'[s[p(i)]], HandlerIn(g', s[p(i)])>>
        BY <1>3, <2>2, <2>4
      <3>3. r[p(i)] = <<heap[s[p(i)]], HandlerIn(g, s[p(i)])>>
        BY <1>2, <2>6
      <3> QED BY <2>3, <2>5, <3>1, <3>2, <3>3
    <2>8. u = [i \in 1..(Len(s) - 1) |-> u[i]]
      BY <1>3, <2>2, <2>4
    <2>9. RemoveAt(r, n) = [i \in 1..(Len(s) - 1) |-> RemoveAt(r, n)[i]]
      <3> DEFINE v == RemoveAt(r, n)
      <3> HIDE DEF v, r, RowType
      <3>1. v \in Seq(RowType) /\ Len(v) = Len(s) - 1
        BY <2>5 DEF v
      <3>2. v = [i \in 1..(Len(s) - 1) |-> v[i]]
        BY <3>1
      <3> QED BY <3>2 DEF v
    <2>10. u = RemoveAt(r, n)
      <3> HIDE DEF u, r
      <3> QED BY <2>7, <2>8, <2>9
    <2>11. r[n][1].id = id
      BY <2>1 DEF Served
    <2> QED BY <2>10, <2>11
  <1> QED BY <1>5, <1>6

(* handleStreamData: it answers on the stream's row, by the row's handler. *)
LEMMA DataRows ==
    ASSUME IInv, NEW c \in Conn, NEW id, NEW message, NEW length,
           StreamData(GetStream(c, id), message, length)
    PROVE  \/ written' = <<>>
           \/ \E n \in 1..Len(Rows(c)) :
                 /\ Rows(c)[n][1] = Served(c, id)
                 /\ Rows(c)[n][2] \in Handlers
                 /\ written' = WriteResponse(Served(c, id), Rows(c)[n][2], message)
  <1> DEFINE a == GetStream(c, id)
             g == grpcStreams
             k == FindStream(a)
  <1>1. g \in CallVectors /\ OneCallEach(g)
    BY DEF IInv, TypeOK, CallsLive, CallVectors, OneCallEach
  <1>2. CASE k = 0
    BY <1>2 DEF StreamData
  <1>3. CASE k # 0
    <2>1. k \in 1..Len(g) /\ g[k].stream = a
      BY <1>3, FindStreamFacts
    <2>2. g[k].stream \in Addr /\ g[k].handler \in Handlers
      BY <1>1, <2>1, GRPCStreamType DEF CallVectors
    <2>3. HandlerIn(g, a) = g[k].handler
      BY <1>1, <2>1, HandlerFacts
    <2>4. a # Null
      BY <2>1, <2>2, NullAssumption
    <2>5. PICK n \in 1..Len(Rows(c)) :
             /\ Rows(c)[n][1] = Served(c, id) /\ Rows(c)[n][1] = heap[a]
             /\ Rows(c)[n][2] = HandlerIn(g, a)
      BY <2>4, GetStreamRow
    <2>6. written' = <<>> \/ written' = WriteResponse(heap[g[k].stream], g[k].handler, message)
      BY <1>3 DEF StreamData
    <2> HIDE DEF k, a, g
    <2> QED BY <2>1, <2>2, <2>3, <2>5, <2>6
  <1> QED BY <1>2, <1>3

-----------------------------------------------------------------------------
(* What a frame does to a connection, by its type.                         *)

(* What the server does for frame f: it keeps to the stream of f, and its  *)
(* answer and its rows are right.                                          *)
Does(c, f, sack2, calls, recv, recv2, T, T2) ==
    /\ \A id \in CallIDs : id # f.streamID => recv2[id] = recv[id]
    /\ \A id \in CallIDs : (\A i \in 1..Len(T) : T[i][1].id # id) =>
           \/ \A i \in 1..Len(T2) : T2[i][1].id # id
           \/ f.type = HEADERS /\ f.streamID = id
    /\ \A id \in CallIDs : EndsStream(f, id) => \A i \in 1..Len(T2) : T2[i][1].id # id
    /\ TableInv(T2, calls, recv2)
    /\ \A id \in CallIDs : id = f.streamID => Reply(c, id, recv2[id], calls[id], sack2)

LEMMA Taken ==
    ASSUME NEW c, NEW live \in BOOLEAN, NEW q \in Seq(ClientFrames), q # <<>>,
           NEW cack \in BOOLEAN, NEW sack \in BOOLEAN, NEW sack2 \in BOOLEAN, NEW calls,
           NEW recv, NEW recv2, NEW T, NEW T2,
           ConnState(c, live, q, cack, sack, calls, recv, T),
           sack2 <=> sack \/ IsAck(Head(q)),
           Does(c, Head(q), sack2, calls, recv, recv2, T, T2)
    PROVE  ConnState(c, live, Tail(q), cack, sack2, calls, recv2, T2)
  <1> HIDE DEF ClientFrames
  <1>1. /\ QueueInv(q, calls) /\ HeadInv(q, recv, T) /\ (live => AckOnItsWay(q, cack, sack))
        /\ EarlyBefore(q, calls, sack) /\ EarlyUnlessAcked(calls, cack)
        /\ EndInv(q, calls, T) /\ ReplyInv(c, recv, calls, sack) /\ IdleInv(calls)
    BY DEF ConnState
  <1>2. QueueInv(Tail(q), calls)
    BY <1>1, PopQueue
  <1>3. HeadInv(Tail(q), recv2, T2)
    BY <1>1, PopHead DEF Does
  <1>4. (live => AckOnItsWay(Tail(q), cack, sack2)) /\ EarlyBefore(Tail(q), calls, sack2)
    BY <1>1, PopAck
  <1>5. EndInv(Tail(q), calls, T2)
    BY <1>1, PopEnd DEF Does
  <1>6. ReplyInv(c, recv2, calls, sack2)
    <2> SUFFICES ASSUME NEW id \in CallIDs PROVE Reply(c, id, recv2[id], calls[id], sack2)
      BY DEF ReplyInv
    <2>1. CASE id # Head(q).streamID
      <3>1. Reply(c, id, recv[id], calls[id], sack) /\ recv2[id] = recv[id] /\ (sack => sack2)
        BY <1>1, <2>1 DEF ReplyInv, Does
      <3> QED BY <3>1 DEF Reply
    <2> QED BY <2>1 DEF Does
  <1> QED BY <1>1, <1>2, <1>3, <1>4, <1>5, <1>6 DEF ConnState, Does

LEMMA TakeSettings ==
    ASSUME NEW c, NEW live \in BOOLEAN, NEW q \in Seq(ClientFrames), q # <<>>,
           NEW cack \in BOOLEAN, NEW sack \in BOOLEAN, NEW sack2 \in BOOLEAN, NEW calls,
           NEW recv, NEW recv2, NEW T,
           ConnState(c, live, q, cack, sack, calls, recv, T),
           Head(q).type = SETTINGS,
           sack2 <=> sack \/ IsAck(Head(q)),
           \A id \in CallIDs : recv2[id] = recv[id]
    PROVE  ConnState(c, live, Tail(q), cack, sack2, calls, recv2, T)
  <1>1. QueueInv(q, calls) /\ TableInv(T, calls, recv)
    BY DEF ConnState
  <1>2. Expected(Head(q), calls)
    BY <1>1, PopQueue
  <1>3. Head(q).streamID = 0 /\ 0 \notin CallIDs
    BY <1>2, CallIDsAssumption DEF Expected, SETTINGS, HEADERS, DATA, RST_STREAM,
       GOAWAY, CONTINUATION
  <1>4. \A id \in CallIDs : ~EndsStream(Head(q), id)
    BY DEF EndsStream, SETTINGS, DATA, RST_STREAM
  <1>5. TableInv(T, calls, recv2)
    <2>1. \A i \in 1..Len(T) : T[i][1].id \in CallIDs
      BY <1>1 DEF TableInv
    <2> QED BY <1>1, <2>1, TableSame
  <1>6. Does(c, Head(q), sack2, calls, recv, recv2, T, T)
    BY <1>3, <1>4, <1>5 DEF Does
  <1> HIDE DEF ClientFrames
  <1> QED BY <1>6, Taken

(* Dropped before the acknowledgement: the client is told so. *)
LEMMA TakeRefused ==
    ASSUME NEW c, NEW live \in BOOLEAN, NEW q \in Seq(ClientFrames), q # <<>>,
           NEW cack \in BOOLEAN, NEW sack \in BOOLEAN, ~sack, NEW calls, NEW recv, NEW recv2,
           NEW T, T = <<>>, ConnState(c, live, q, cack, sack, calls, recv, T),
           Head(q).type \in CallTypes,
           \A id \in CallIDs : recv2[id] =
              IF id = Head(q).streamID THEN recv[id] \o <<RstStreamFrame(c, id)>> ELSE recv[id]
    PROVE  ConnState(c, live, Tail(q), cack, sack, calls, recv2, T)
  <1> DEFINE f == Head(q)
  <1>1. /\ QueueInv(q, calls) /\ EarlyBefore(q, calls, sack)
        /\ ReplyInv(c, recv, calls, sack)
    BY DEF ConnState
  <1>2. Expected(f, calls)
    BY <1>1, PopQueue
  <1>3. f.streamID \in CallIDs /\ calls[f.streamID].phase # "idle"
    BY <1>2 DEF Expected, CallTypes, HEADERS, DATA, RST_STREAM, SETTINGS, GOAWAY,
       CONTINUATION
  <1>4. calls[f.streamID].early
    <2>1. 1 \in 1..Len(q) /\ Head(q) = q[1] /\ 1..(1 - 1) = {}
      <3> HIDE DEF ClientFrames
      <3> QED BY Positions, SMT
    <2> QED BY <1>1, <2>1 DEF EarlyBefore
  <1>5. ~IsAck(f)
    BY DEF IsAck, CallTypes, HEADERS, DATA, RST_STREAM, SETTINGS
  <1>6. ASSUME NEW id \in CallIDs, id = f.streamID
        PROVE  Reply(c, id, recv2[id], calls[id], sack)
    <2> DEFINE x == RstStreamFrame(c, id)
    <2>1. recv[id] \in Seq({x})
      <3>1. Reply(c, id, recv[id], calls[id], sack)
        BY <1>1 DEF ReplyInv
      <3>2. recv[id] = <<>> \/ recv[id] \in Seq({x})
        BY <3>1 DEF Reply
      <3>3. <<>> \in Seq({x})
        OBVIOUS
      <3> QED BY <3>2, <3>3, Zenon
    <2>2. recv2[id] = recv[id] \o <<x>>
      BY <1>6
    <2>3. recv2[id] \in Seq({x})
      <3> HIDE DEF x
      <3> QED BY <2>1, <2>2
    <2> QED BY <1>3, <1>4, <1>6, <2>3 DEF Reply
  <1>7. TableInv(T, calls, recv2) /\ \A i \in 1..Len(T) : FALSE
    BY DEF TableInv
  <1>8. Does(c, f, sack, calls, recv, recv2, T, T)
    BY <1>6, <1>7 DEF Does
  <1> HIDE DEF ClientFrames
  <1> QED BY <1>5, <1>8, Taken

LEMMA TakeHeaders ==
    ASSUME NEW c, NEW live \in BOOLEAN, NEW q \in Seq(ClientFrames), q # <<>>,
           NEW cack \in BOOLEAN, NEW sack \in BOOLEAN, sack, NEW calls, NEW recv, NEW recv2,
           NEW T \in Seq(RowType), NEW h, <<Served(c, Head(q).streamID), h>> \in RowType,
           ConnState(c, live, q, cack, sack, calls, recv, T),
           Head(q).type = HEADERS,
           h # Null => NameOf[h] = Head(q).path,
           \A id \in CallIDs : recv2[id] =
              IF id = Head(q).streamID /\ h = Null
              THEN recv[id] \o WriteResponseError(Served(c, id), UNIMPLEMENTED) ELSE recv[id]
    PROVE  ConnState(c, live, Tail(q), cack, sack, calls, recv2,
                     Append(T, <<Served(c, Head(q).streamID), h>>))
  <1> DEFINE f == Head(q)
             row == <<Served(c, f.streamID), h>>
  <1>1. /\ QueueInv(q, calls) /\ EarlyBefore(q, calls, sack) /\ HeadInv(q, recv, T)
        /\ TableInv(T, calls, recv) /\ ReplyInv(c, recv, calls, sack)
    BY DEF ConnState
  <1>2. Expected(f, calls)
    BY <1>1, PopQueue
  <1>3. /\ f.streamID \in CallIDs /\ calls[f.streamID].phase # "idle"
        /\ f.path = calls[f.streamID].path
    BY <1>2 DEF Expected, SETTINGS, HEADERS, DATA, RST_STREAM,
       GOAWAY, CONTINUATION
  <1>4. 1 \in 1..Len(q) /\ Head(q) = q[1]
    <2> HIDE DEF ClientFrames
    <2> QED BY Positions
  <1>5. ~calls[f.streamID].early
    BY <1>1, <1>4 DEF EarlyBefore, SETTINGS, HEADERS, CallTypes, GOAWAY, CONTINUATION
  <1>6. recv[f.streamID] = <<>> /\ \A i \in 1..Len(T) : T[i][1].id # f.streamID
    BY <1>1, <1>4 DEF HeadInv
  <1>7. row[1].id = f.streamID /\ row[2] = h
    BY DEF Served
  <1>8. ASSUME NEW id \in CallIDs, id = f.streamID
        PROVE  Reply(c, id, recv2[id], calls[id], sack)
    <2>1. CASE h # Null
      BY <1>6, <1>8, <2>1 DEF Reply
    <2>2. CASE h = Null
      <3>1. recv2[id] = <<>> \o WriteResponseError(Served(c, id), UNIMPLEMENTED)
        BY <1>6, <1>8, <2>2
      <3>2. recv2[id] = WriteResponseError(Served(c, id), UNIMPLEMENTED)
        BY <3>1 DEF WriteResponseError
      <3> QED BY <1>3, <1>5, <1>8, <3>2 DEF Reply
    <2> QED BY <2>1, <2>2
  <1>9. \A id \in CallIDs : id # f.streamID => recv2[id] = recv[id]
    OBVIOUS
  <1>10. \A i \in 1..Len(T) : T[i][1].id \in CallIDs
    BY <1>1 DEF TableInv
  <1>11. h # Null => NameOf[h] = calls[f.streamID].path /\ recv2[f.streamID] = <<>>
    BY <1>3, <1>6
  <1>12. ~IsAck(f) /\ \A id \in CallIDs : ~EndsStream(f, id)
    BY DEF IsAck, EndsStream, HEADERS, SETTINGS, DATA, RST_STREAM
  <1> HIDE DEF ClientFrames, RowType, row
  <1>13. row \in RowType
    BY DEF row
  <1>14. /\ TableInv(Append(T, row), calls, recv2)
         /\ \A id : \/ id = f.streamID
                    \/ \E i \in 1..Len(T) : T[i][1].id = id
                    \/ \A i \in 1..Len(Append(T, row)) : Append(T, row)[i][1].id # id
    <2>1. /\ row[1].id \in CallIDs /\ calls[row[1].id].phase # "idle"
          /\ ~calls[row[1].id].early
          /\ row[2] # Null => NameOf[row[2]] = calls[row[1].id].path
                                /\ recv2[row[1].id] = <<>>
          /\ \A i \in 1..Len(T) :
                T[i][1].id # row[1].id /\ recv2[T[i][1].id] = recv[T[i][1].id]
      BY <1>3, <1>5, <1>6, <1>7, <1>9, <1>10, <1>11
    <2> HIDE DEF f
    <2>2. /\ TableInv(Append(T, row), calls, recv2)
          /\ \A id : \/ id = row[1].id
                     \/ \E i \in 1..Len(T) : T[i][1].id = id
                     \/ \A i \in 1..Len(Append(T, row)) : Append(T, row)[i][1].id # id
      BY <1>1, <1>13, <2>1, TableGains
    <2> QED BY <1>7, <2>2
  <1> DEFINE U == Append(T, row)
  <1> HIDE DEF U
  <1>15. Does(c, f, sack, calls, recv, recv2, T, U)
    <2>1. \A id \in CallIDs : (\A i \in 1..Len(T) : T[i][1].id # id) =>
              \/ \A i \in 1..Len(U) : U[i][1].id # id
              \/ f.type = HEADERS /\ f.streamID = id
      BY <1>14 DEF U
    <2> HIDE DEF f
    <2> QED BY <1>8, <1>9, <1>12, <1>14, <2>1 DEF Does, U
  <1>16. ConnState(c, live, Tail(q), cack, sack, calls, recv2, U)
    BY <1>12, <1>15, Taken
  <1> QED BY <1>16 DEF U, row

(* A DATA frame or an RST_STREAM: the row of the stream, if it is there,   *)
(* goes, and only then is there an answer.                                 *)
LEMMA TakeEnd ==
    ASSUME NEW c, NEW live \in BOOLEAN, NEW q \in Seq(ClientFrames), q # <<>>,
           NEW cack \in BOOLEAN, NEW sack \in BOOLEAN, sack, NEW calls, NEW recv, NEW recv2,
           NEW T \in Seq(RowType), NEW T2,
           ConnState(c, live, q, cack, sack, calls, recv, T),
           Head(q).type \in {DATA, RST_STREAM},
           \/ T2 = T /\ \A i \in 1..Len(T) : T[i][1].id # Head(q).streamID
           \/ \E n \in 1..Len(T) : T[n][1].id = Head(q).streamID /\ T2 = RemoveAt(T, n),
           \A id \in CallIDs :
              \/ recv2[id] = recv[id]
              \/ /\ id = Head(q).streamID
                 /\ Head(q).type = DATA
                 /\ \E n \in 1..Len(T) :
                       /\ T[n][1].id = id /\ T[n][2] \in Handlers
                       /\ recv2[id] = recv[id] \o
                             WriteResponse(Served(c, id), T[n][2], Head(q).message)
    PROVE  ConnState(c, live, Tail(q), cack, sack, calls, recv2, T2)
  <1> DEFINE f == Head(q)
  <1>1. /\ QueueInv(q, calls) /\ TableInv(T, calls, recv) /\ ReplyInv(c, recv, calls, sack)
    BY DEF ConnState
  <1>2. Expected(f, calls)
    BY <1>1, PopQueue
  <1>3. /\ f.streamID \in CallIDs
        /\ f.type = DATA => /\ calls[f.streamID].phase \in {"sent", "cancelled"}
                            /\ f.message = calls[f.streamID].message
    BY <1>2 DEF Expected, SETTINGS, HEADERS, DATA, RST_STREAM,
       GOAWAY, CONTINUATION
  <1>4. ASSUME NEW id \in CallIDs, id = f.streamID
        PROVE  Reply(c, id, recv2[id], calls[id], sack)
    <2>1. Reply(c, id, recv[id], calls[id], sack)
      BY <1>1 DEF ReplyInv
    <2>2. CASE recv2[id] = recv[id]
      BY <2>1, <2>2
    <2>3. CASE recv2[id] # recv[id]
      <3>1. PICK n \in 1..Len(T) :
               /\ T[n][1].id = id /\ T[n][2] \in Handlers
               /\ recv2[id] = recv[id] \o WriteResponse(Served(c, id), T[n][2], f.message)
        BY <2>3
      <3>2. T[n][2] # Null
        BY <3>1, HandlersAssumption
      <3>3. NameOf[T[n][2]] = calls[id].path /\ recv[id] = <<>> /\ ~calls[id].early
        BY <1>1, <3>1, <3>2 DEF TableInv
      <3>4. recv2[id] = WriteResponse(Served(c, id), T[n][2], f.message)
        <4>1. ASSUME NEW x, NEW h, NEW m
              PROVE  <<>> \o WriteResponse(x, h, m) = WriteResponse(x, h, m)
          <5>1. ASSUME NEW a, NEW b, NEW d PROVE <<>> \o <<a, b, d>> = <<a, b, d>>
            OBVIOUS
          <5> QED BY <5>1, Zenon DEF WriteResponse
        <4> QED BY <3>1, <3>3, <4>1
      <3>5. f.type = DATA
        BY <2>3
      <3> HIDE DEF f
      <3> QED BY <1>3, <1>4, <3>1, <3>3, <3>4, <3>5 DEF Reply
    <2> QED BY <2>2, <2>3
  <1>5. \A id \in CallIDs : id # f.streamID => recv2[id] = recv[id]
    OBVIOUS
  <1>6. /\ TableInv(T2, calls, recv2)
        /\ \A i \in 1..Len(T2) : T2[i][1].id # f.streamID
        /\ \A id \in CallIDs : (\A i \in 1..Len(T) : T[i][1].id # id) =>
                                 \A i \in 1..Len(T2) : T2[i][1].id # id
    <2> HIDE DEF f, RowType
    <2>1. CASE T2 = T /\ \A i \in 1..Len(T) : T[i][1].id # f.streamID
      <3>1. \A i \in 1..Len(T) : T[i][1].id \in CallIDs
        BY <1>1 DEF TableInv
      <3>2. \A i \in 1..Len(T) : recv2[T[i][1].id] = recv[T[i][1].id]
        BY <1>5, <2>1, <3>1
      <3> QED BY <1>1, <2>1, <3>2, TableSame
    <2>2. CASE \E n \in 1..Len(T) : T[n][1].id = f.streamID /\ T2 = RemoveAt(T, n)
      <3>1. PICK n \in 1..Len(T) : T[n][1].id = f.streamID /\ T2 = RemoveAt(T, n)
        BY <2>2
      <3>2. \A id \in CallIDs : id # T[n][1].id => recv2[id] = recv[id]
        BY <1>5, <3>1
      <3>3. TableInv(T, calls, recv)
        BY <1>1
      <3>4. TableInv(RemoveAt(T, n), calls, recv2)
        BY <3>2, <3>3, TableLoses
      <3>5. \A i \in 1..Len(RemoveAt(T, n)) : RemoveAt(T, n)[i][1].id # T[n][1].id
        BY <3>2, <3>3, TableLoses
      <3>6. \A id : (\A i \in 1..Len(T) : T[i][1].id # id)
                      => \A i \in 1..Len(RemoveAt(T, n)) : RemoveAt(T, n)[i][1].id # id
        BY <3>2, <3>3, TableLoses, Zenon
      <3> QED BY <3>1, <3>4, <3>5, <3>6
    <2> QED BY <2>1, <2>2 DEF f
  <1>7. \A id \in CallIDs : EndsStream(f, id) => \A i \in 1..Len(T2) : T2[i][1].id # id
    BY <1>6 DEF EndsStream
  <1>8. Does(c, f, sack, calls, recv, recv2, T, T2)
    BY <1>4, <1>5, <1>6, <1>7 DEF Does
  <1> HIDE DEF ClientFrames, RowType
  <1> QED BY <1>8, Taken

-----------------------------------------------------------------------------
(* The server reads a frame.                                               *)

LEMMA OwnBytes ==
    ASSUME OneByte
    PROVE  ReplyIDs = CallIDs /\ U8(0) = 0 /\ \A id \in CallIDs : U8(id) = id
  <1>1. U8(0) = 0 /\ \A id \in 0..255 : U8(id) = id
    BY SMT DEF U8
  <1> QED BY <1>1 DEF OneByte, ReplyIDs

(* ConnInv, with names for its truth values. *)
LEMMA Named ==
    ASSUME NEW c \in Conn, NEW live \in BOOLEAN, NEW cack \in BOOLEAN, NEW sack \in BOOLEAN,
           live <=> connState[c] # "Deleted",
           cack <=> c \in acked,
           sack <=> c \in prefaceSettingsAckd
    PROVE  ConnInv(c) <=>
              \E q \in Seq(ClientFrames) :
                 /\ connState[c] # "Failed" => q = toServer[c]
                 /\ ConnState(c, live, q, cack, sack, call[c], received[c], Rows(c))
  <1>1. ASSUME NEW q, NEW calls, NEW recv
        PROVE  /\ AckOnItsWay(q, cack, sack)
                    <=> AckOnItsWay(q, c \in acked, c \in prefaceSettingsAckd)
               /\ EarlyBefore(q, calls, sack)
                    <=> EarlyBefore(q, calls, c \in prefaceSettingsAckd)
               /\ EarlyUnlessAcked(calls, cack) <=> EarlyUnlessAcked(calls, c \in acked)
               /\ ReplyInv(c, recv, calls, sack)
                    <=> ReplyInv(c, recv, calls, c \in prefaceSettingsAckd)
    BY DEF AckOnItsWay, EarlyBefore, EarlyUnlessAcked, ReplyInv, Reply
  <1>2. ASSUME NEW q
        PROVE  ConnState(c, live, q, cack, sack, call[c], received[c], Rows(c))
                  <=> ConnState(c, connState[c] # "Deleted", q, c \in acked,
                                c \in prefaceSettingsAckd, call[c], received[c],
                                Rows(c))
    BY <1>1 DEF ConnState
  <1> HIDE DEF ClientFrames
  <1> QED BY <1>2, Zenon DEF ConnInv

LEMMA NamedPrimed ==
    ASSUME NEW c \in Conn, NEW live \in BOOLEAN, NEW cack \in BOOLEAN, NEW sack \in BOOLEAN,
           live <=> connState'[c] # "Deleted",
           cack <=> c \in acked',
           sack <=> c \in prefaceSettingsAckd'
    PROVE  ConnInv(c)' <=>
              \E q \in Seq(ClientFrames) :
                 /\ connState'[c] # "Failed" => q = toServer'[c]
                 /\ ConnState(c, live, q, cack, sack, call'[c], received'[c], Rows(c)')
  <1>1. ASSUME NEW q, NEW calls, NEW recv
        PROVE  /\ AckOnItsWay(q, cack, sack)
                    <=> AckOnItsWay(q, c \in acked', c \in prefaceSettingsAckd')
               /\ EarlyBefore(q, calls, sack)
                    <=> EarlyBefore(q, calls, c \in prefaceSettingsAckd')
               /\ EarlyUnlessAcked(calls, cack) <=> EarlyUnlessAcked(calls, c \in acked')
               /\ ReplyInv(c, recv, calls, sack)
                    <=> ReplyInv(c, recv, calls, c \in prefaceSettingsAckd')
    BY DEF AckOnItsWay, EarlyBefore, EarlyUnlessAcked, ReplyInv, Reply
  <1>2. ASSUME NEW q
        PROVE  ConnState(c, live, q, cack, sack, call'[c], received'[c], Rows(c)')
                  <=> ConnState(c, connState'[c] # "Deleted", q, c \in acked',
                                c \in prefaceSettingsAckd', call'[c], received'[c],
                                Rows(c)')
    BY <1>1 DEF ConnState
  <1> HIDE DEF ClientFrames
  <1> QED BY <1>2, Zenon DEF ConnInv

LEMMA RepliesAreSequences ==
    ASSUME NEW c, NEW id, NEW r, NEW k, NEW sack \in BOOLEAN, Reply(c, id, r, k, sack)
    PROVE  r \o <<>> = r
  <1>1. CASE r \in Seq({RstStreamFrame(c, id)})
    <2> DEFINE x == RstStreamFrame(c, id)
    <2> HIDE DEF x
    <2>1. r \in Seq({x})
      BY <1>1 DEF x
    <2> QED BY <2>1
  <1>2. ASSUME NEW x, NEW y, NEW z
        PROVE  /\ <<>> \o <<>> = <<>>
               /\ <<x, y>> \o <<>> = <<x, y>>
               /\ <<x, y, z>> \o <<>> = <<x, y, z>>
    OBVIOUS
  <1>3. CASE r = <<>>
    BY <1>2, <1>3
  <1>4. CASE r = WriteResponseError(Served(c, id), UNIMPLEMENTED)
    BY <1>2, <1>4, Zenon DEF WriteResponseError
  <1>5. ASSUME NEW h, r = WriteResponse(Served(c, id), h, k.message)
        PROVE  r \o <<>> = r
    BY <1>2, <1>5, Zenon DEF WriteResponse
  <1> QED BY <1>1, <1>3, <1>4, <1>5 DEF Reply

(* What the step adds to a client's record. *)
LEMMA Recorded ==
    ASSUME OneByte, OutcomeInv, Record, NEW d \in Conn
    PROVE  /\ DOMAIN received'[d] = ReplyIDs
           /\ \A id \in CallIDs :
                 /\ \/ /\ written' # <<>> /\ written'[1].to = d /\ written'[1].streamID = id
                       /\ received'[d][id] = received[d][id] \o written'
                    \/ /\ written' = <<>> \/ written'[1].to # d \/ written'[1].streamID # id
                       /\ received'[d][id] = received[d][id]
  <1>1. received' = [c \in Conn |-> [id \in ReplyIDs |-> received[c][id] \o WrittenTo(c, id)']]
    BY DEF Record
  <1>2. ASSUME NEW id \in CallIDs
        PROVE  received'[d][id] = received[d][id] \o WrittenTo(d, id)'
    BY <1>1, OwnBytes
  <1>3. ASSUME NEW id \in CallIDs
        PROVE  received[d][id] \o <<>> = received[d][id]
    <2>1. PICK sack \in BOOLEAN : sack <=> d \in prefaceSettingsAckd
      OBVIOUS
    <2>2. ReplyInv(d, received[d], call[d], d \in prefaceSettingsAckd)
      BY DEF OutcomeInv, ConnInv, ConnState
    <2>3. Reply(d, id, received[d][id], call[d][id], sack)
      BY <2>1, <2>2 DEF ReplyInv, Reply
    <2> QED BY <2>3, RepliesAreSequences
  <1>4. DOMAIN received'[d] = ReplyIDs
    BY <1>1
  <1>5. ASSUME NEW id
        PROVE  WrittenTo(d, id)' =
                  IF written' # <<>> /\ written'[1].to = d /\ written'[1].streamID = id
                  THEN written' ELSE <<>>
    BY DEF WrittenTo
  <1> QED BY <1>2, <1>3, <1>4, <1>5

LEMMA SameTables ==
    ASSUME IInv, IInv', UNCHANGED <<streams, heap, grpcStreams>>, NEW c \in Conn
    PROVE  Rows(c)' = Rows(c)
  BY RowsAre, RowsArePrimed

LEMMA FindMethodName ==
    ASSUME IInv, NEW path, FindMethod(path) # Null
    PROVE  NameOf[FindMethod(path)] = path
  <1> DEFINE I == {i \in 1..Len(unaryMethods) : NameOf[unaryMethods[i]] = path}
  <1>1. unaryMethods \in Seq(Handlers)
    BY DEF IInv, TypeOK
  <1>2. I # {} /\ FindMethod(path) = unaryMethods[FirstIndex(I)]
    BY DEF FindMethod
  <1>3. FirstIndex(I) \in I
    <2>1. I \subseteq Nat
      BY <1>1
    <2> QED BY <1>2, <2>1, FirstIndexIn
  <1> QED BY <1>2, <1>3

(* What is written on one stream of c is recorded there. *)
LEMMA RecordedOne ==
    ASSUME OneByte, OutcomeInv, Record, NEW c \in Conn, NEW sid \in CallIDs \cup {0},
           written' = <<>> \/ (written'[1].to = c /\ written'[1].streamID = U8(sid))
    PROVE  \A id \in CallIDs : received'[c][id] =
              IF id = sid /\ written' # <<>> THEN received[c][id] \o written' ELSE received[c][id]
  <1>1. U8(sid) = sid
    BY OwnBytes
  <1> QED BY <1>1, Recorded

LEMMA FirstFrames ==
    ASSUME NEW c, NEW id, NEW h, NEW m, NEW code
    PROVE  /\ WriteResponse(Served(c, id), h, m)[1].to = c
           /\ WriteResponse(Served(c, id), h, m)[1].streamID = U8(id)
           /\ WriteResponse(Served(c, id), h, m) # <<>>
           /\ WriteResponseError(Served(c, id), code)[1].to = c
           /\ WriteResponseError(Served(c, id), code)[1].streamID = U8(id)
           /\ WriteResponseError(Served(c, id), code) # <<>>
  <1>1. /\ ResponseHeaders(Served(c, id)).to = c
        /\ ResponseHeaders(Served(c, id)).streamID = U8(id)
    BY DEF ResponseHeaders, Served, Out
  <1>2. ASSUME NEW x, NEW y, NEW z
        PROVE  /\ <<x, y>>[1] = x /\ <<x, y>> # <<>>
               /\ <<x, y, z>>[1] = x /\ <<x, y, z>> # <<>>
    OBVIOUS
  <1>3. /\ WriteResponse(Served(c, id), h, m)[1] = ResponseHeaders(Served(c, id))
        /\ WriteResponse(Served(c, id), h, m) # <<>>
        /\ WriteResponseError(Served(c, id), code)[1] = ResponseHeaders(Served(c, id))
        /\ WriteResponseError(Served(c, id), code) # <<>>
    BY <1>2, Zenon DEF WriteResponse, WriteResponseError
  <1> QED BY <1>1, <1>3

(* Only what the client has received for its calls matters. *)
LEMMA ReceivedSame ==
    ASSUME NEW c, NEW live \in BOOLEAN, NEW q, NEW cack \in BOOLEAN, NEW sack \in BOOLEAN,
           NEW calls, NEW recv, NEW recv2, NEW T,
           ConnState(c, live, q, cack, sack, calls, recv, T),
           \A id \in CallIDs : recv2[id] = recv[id]
    PROVE  ConnState(c, live, q, cack, sack, calls, recv2, T)
  <1>1. /\ QueueInv(q, calls) /\ HeadInv(q, recv, T) /\ TableInv(T, calls, recv)
        /\ ReplyInv(c, recv, calls, sack)
    BY DEF ConnState
  <1>2. HeadInv(q, recv2, T)
    <2>1. \A k \in 1..Len(q) : q[k].type = HEADERS => q[k].streamID \in CallIDs
      BY <1>1 DEF QueueInv, Expected, SETTINGS, HEADERS, GOAWAY, CONTINUATION
    <2> QED BY <1>1, <2>1 DEF HeadInv
  <1>3. TableInv(T, calls, recv2)
    <2>1. \A i \in 1..Len(T) : T[i][1].id \in CallIDs
      BY <1>1 DEF TableInv
    <2> QED BY <1>1, <2>1, TableSame
  <1>4. ReplyInv(c, recv2, calls, sack)
    BY <1>1 DEF ReplyInv
  <1> QED BY <1>2, <1>3, <1>4 DEF ConnState

(* A frame that fails the connection, or comes when it has failed. *)
LEMMA ServeUnread ==
    ASSUME OneByte, OutcomeInv, UInv', NEW c \in Conn, ServeFrame(c), NoCallback,
           UnreadableFrame(c) \/ DiscardByte(c)
    PROVE  ConnInv(c)'
  <1> DEFINE recv == received[c]
             recv2 == received'[c]
             T == Rows(c)
  <1>1. /\ UInv /\ IInv /\ IInv' /\ ConnInv(c)
        /\ Record /\ UNCHANGED <<acked, call>>
        /\ written' = <<>>
        /\ UNCHANGED <<prefaceSettingsAckd, streams, heap, grpcStreams>>
    BY DEF OutcomeInv, UInv, ServeFrame, UnreadableFrame, DiscardByte, NoCallback
  <1>2. connState[c] # "Deleted" /\ connState'[c] = "Failed"
    BY <1>1 DEF UnreadableFrame, DiscardByte, IInv, TypeOK, ConnectionTypeOK
  <1>3. PICK live \in BOOLEAN, cack \in BOOLEAN, sack \in BOOLEAN :
           /\ live <=> connState[c] # "Deleted"
           /\ cack <=> c \in acked
           /\ sack <=> c \in prefaceSettingsAckd
    <2>1. /\ (connState[c] # "Deleted") \in BOOLEAN /\ (c \in acked) \in BOOLEAN
          /\ (c \in prefaceSettingsAckd) \in BOOLEAN
      OBVIOUS
    <2> QED OBVIOUS
  <1>4. PICK q \in Seq(ClientFrames) :
           ConnState(c, live, q, cack, sack, call[c], recv, T)
    BY <1>1, <1>3, Named
  <1>5. Rows(c)' = T
    BY <1>1, SameTables
  <1>6. \A id \in CallIDs : recv2[id] = recv[id]
    <2>1. 0 \in CallIDs \cup {0}
      OBVIOUS
    <2> QED BY <1>1, <2>1, RecordedOne
  <1> HIDE DEF recv, recv2, T, ClientFrames
  <1>7. ConnState(c, live, q, cack, sack, call[c], recv2, T)
    BY <1>4, <1>6, ReceivedSame
  <1>8. /\ live <=> connState'[c] # "Deleted"
        /\ cack <=> c \in acked'
        /\ sack <=> c \in prefaceSettingsAckd'
    BY <1>1, <1>2, <1>3
  <1>9. call'[c] = call[c] /\ connState'[c] = "Failed"
    BY <1>1, <1>2
  <1> QED BY <1>4, <1>5, <1>7, <1>8, <1>9, NamedPrimed DEF recv2

LEMMA ServeRead ==
    ASSUME OneByte, OutcomeInv, UInv', NEW c \in Conn, ServeFrame(c),
           PumpFrame(c, Head(toServer[c])), Readable(Head(toServer[c]))
    PROVE  ConnInv(c)'
  <1> DEFINE q == toServer[c]
             f == Head(q)
             id0 == f.streamID
             calls == call[c]
             recv == received[c]
             recv2 == received'[c]
             T == Rows(c)
             T2 == Rows(c)'
  <1>1. /\ UInv /\ IInv /\ IInv' /\ ConnInv(c)
        /\ q \in Seq(ClientFrames)
    BY DEF OutcomeInv, UInv
  <1>2. /\ q # <<>> /\ toServer' = [toServer EXCEPT ![c] = Tail(q)]
        /\ Record /\ UNCHANGED <<acked, call>>
    BY DEF ServeFrame
  <1>3. /\ toServer'[c] = Tail(q) /\ Tail(q) \in Seq(ClientFrames)
        /\ f \in PeerFrames /\ Readable(f) /\ id0 \in IDs
        /\ f.type = SETTINGS => f.sixes
    <2>1. toServer'[c] = Tail(q)
      BY <1>2 DEF OutcomeInv, UInv, UnaryTypeOK
    <2>2. f \in PeerFrames /\ Tail(q) \in Seq(ClientFrames) /\ (f.type = SETTINGS => f.sixes)
      BY <1>1, <1>2, NextFrame
    <2>3. id0 \in IDs
      BY <2>2 DEF PeerFrames
    <2> QED BY <2>1, <2>2, <2>3
  <1>4. PumpFrame(c, f)
    OBVIOUS
  <1>5. connState[c] = "Connected" /\ UNCHANGED connState
    BY <1>3, <1>4 DEF PumpFrame, DropFrame, Settings, Ping, IgnoredFrame, Headers, Data,
       RstStream, Dispatched
  <1>6. PICK live \in BOOLEAN, cack \in BOOLEAN, sack \in BOOLEAN, sack2 \in BOOLEAN :
           /\ live <=> connState[c] # "Deleted"
           /\ cack <=> c \in acked
           /\ sack <=> c \in prefaceSettingsAckd
           /\ sack2 <=> c \in prefaceSettingsAckd'
    <2>1. /\ (connState[c] # "Deleted") \in BOOLEAN /\ (c \in acked) \in BOOLEAN
          /\ (c \in prefaceSettingsAckd) \in BOOLEAN /\ (c \in prefaceSettingsAckd') \in BOOLEAN
      OBVIOUS
    <2> QED OBVIOUS
  <1>7. ConnState(c, live, q, cack, sack, calls, recv, T)
    <2> HIDE DEF ClientFrames
    <2> QED BY <1>1, <1>5, <1>6, Named
  <1>8. Expected(f, calls)
    BY <1>1, <1>2, <1>7, PopQueue DEF ConnState
  <1>9. T \in Seq(RowType)
    BY <1>1, RowsAre
  <1>10. f.type # SETTINGS => id0 \in CallIDs \cup {0} /\ id0 \in CallIDs
    BY <1>3, <1>8 DEF Expected, Readable
  <1>11. SUFFICES ConnState(c, live, Tail(q), cack, sack2, calls, recv2, T2)
    <2> HIDE DEF ClientFrames
    <2>1. /\ live <=> connState'[c] # "Deleted"
          /\ cack <=> c \in acked'
          /\ sack2 <=> c \in prefaceSettingsAckd'
      BY <1>2, <1>5, <1>6
    <2>2. ConnInv(c)' <=>
             \E g \in Seq(ClientFrames) :
                /\ connState'[c] # "Failed" => g = toServer'[c]
                /\ ConnState(c, live, g, cack, sack2, call'[c], received'[c], Rows(c)')
      BY <2>1, NamedPrimed
    <2>3. call'[c] = calls
      BY <1>2
    <2> QED BY <1>3, <2>2, <2>3, Zenon
  <1>16. /\ f.type \in {SETTINGS, HEADERS, DATA, RST_STREAM}
         /\ f.type # SETTINGS => f.type \in CallTypes
    BY <1>3, <1>8 DEF Expected, Readable, CallTypes
  <1>12. CASE f.type = SETTINGS
    <2>1. Settings(c, id0, f.flag = 1) /\ NoCallback
      BY <1>3, <1>4, <1>12 DEF PumpFrame, SETTINGS, PING, PRIORITY, WINDOW_UPDATE, HEADERS,
         DATA, RST_STREAM
    <2>2. id0 = 0
      BY <1>8, <1>12 DEF Expected, SETTINGS, HEADERS, DATA, RST_STREAM,
       GOAWAY, CONTINUATION
    <2>3. T2 = T
      BY <1>1, <2>1, SameTables DEF Settings, NoCallback
    <2>4. sack2 <=> sack \/ IsAck(f)
      BY <1>6, <1>12, <2>1, <2>2 DEF Settings, IsAck
    <2>5. \A id \in CallIDs : recv2[id] = recv[id]
      <3>1. /\ \/ written' = <<>>
               \/ written' = <<Out(c, SETTINGS, {"ACK"}, 0, <<>>)>>
            /\ Out(c, SETTINGS, {"ACK"}, 0, <<>>).to = c
            /\ Out(c, SETTINGS, {"ACK"}, 0, <<>>).streamID = U8(0)
        BY <2>1, <2>2 DEF Settings, Out
      <3>2. ASSUME NEW x PROVE <<x>>[1] = x
        OBVIOUS
      <3>3. written' = <<>> \/ (written'[1].to = c /\ written'[1].streamID = U8(0))
        BY <3>1, <3>2, Zenon
      <3>4. 0 \notin CallIDs
        BY CallIDsAssumption
      <3> QED BY <1>2, <3>3, <3>4, RecordedOne
    <2> HIDE DEF q, recv2, recv, T, T2, calls
    <2> QED BY <1>1, <1>2, <1>7, <1>12, <2>3, <2>4, <2>5, TakeSettings DEF f
  <1>13. CASE f.type # SETTINGS /\ DropFrame(c, id0) /\ NoCallback
    <2>1. /\ ~sack /\ ~sack2 /\ written' = <<RstStreamFrame(c, id0)>>
          /\ UNCHANGED <<streams, heap, grpcStreams>> /\ c \notin prefaceSettingsAckd
      BY <1>6, <1>13 DEF DropFrame, NoCallback
    <2>2. T = <<>> /\ T2 = <<>>
      <3>1. streams[c] = <<>>
        BY <1>1, <2>1 DEF IInv, NothingBeforeAck
      <3>2. T = [i \in 1..Len(streams[c]) |->
                   <<heap[streams[c][i]], HandlerIn(grpcStreams, streams[c][i])>>]
        BY <1>1, RowsAre
      <3>3. T = <<>>
        BY <3>1, <3>2
      <3> QED BY <1>1, <2>1, <3>3, SameTables
    <2>3. \A id \in CallIDs : recv2[id] =
             IF id = id0 THEN recv[id] \o <<RstStreamFrame(c, id)>> ELSE recv[id]
      <3>1. RstStreamFrame(c, id0).to = c /\ RstStreamFrame(c, id0).streamID = U8(id0)
        BY DEF RstStreamFrame, Out
      <3>2. ASSUME NEW x PROVE <<x>>[1] = x /\ <<x>> # <<>>
        OBVIOUS
      <3>3. written' # <<>> /\ written'[1].to = c /\ written'[1].streamID = U8(id0)
        BY <2>1, <3>1, <3>2, Zenon
      <3>4. \A id \in CallIDs : recv2[id] = IF id = id0 THEN recv[id] \o written' ELSE recv[id]
        BY <1>1, <1>2, <1>10, <1>13, <3>3, RecordedOne
      <3> QED BY <2>1, <3>4
    <2>4. sack2 = sack
      BY <2>1
    <2>6. f.type \in CallTypes
      BY <1>13, <1>16
    <2>7. Head(q).type \in CallTypes
      BY <2>6
    <2>8. \A id \in CallIDs : recv2[id] =
             IF id = Head(q).streamID THEN recv[id] \o <<RstStreamFrame(c, id)>> ELSE recv[id]
      BY <2>3
    <2>9. ~sack /\ T = <<>> /\ q # <<>> /\ q \in Seq(ClientFrames)
      BY <1>1, <1>2, <2>1, <2>2
    <2> HIDE DEF q, recv2, recv, T, T2, calls, f, id0, ClientFrames
    <2>5. ConnState(c, live, Tail(q), cack, sack, calls, recv2, T)
      BY ONLY <1>7, <2>7, <2>8, <2>9, TakeRefused, c \in Conn, live \in BOOLEAN,
              cack \in BOOLEAN, sack \in BOOLEAN, SMTT(60)
    <2> QED BY <2>2, <2>4, <2>5
  <1>14. CASE f.type = HEADERS /\ Headers(c, id0, f.path)
    <2> DEFINE h == FindMethod(f.path)
               e == WriteResponseError(Served(c, id0), UNIMPLEMENTED)
    <2>1. id0 \in CallIDs /\ f.path \in Names
      BY <1>8, <1>14 DEF Expected, SETTINGS, HEADERS, DATA, RST_STREAM,
       GOAWAY, CONTINUATION
    <2>2. /\ T2 = Append(T, <<Served(c, id0), h>>)
          /\ <<Served(c, id0), h>> \in RowType
          /\ written' = IF h = Null THEN e ELSE <<>>
          /\ sack /\ sack2
      BY <1>1, <1>3, <1>6, <1>14, <2>1, HeadersRows
    <2>3. h # Null => NameOf[h] = f.path
      BY <1>1, FindMethodName
    <2> HIDE DEF h, e
    <2>4. \A id \in CallIDs : recv2[id] =
             IF id = id0 /\ h = Null
             THEN recv[id] \o WriteResponseError(Served(c, id), UNIMPLEMENTED) ELSE recv[id]
      <3>1. e # <<>> /\ e[1].to = c /\ e[1].streamID = U8(id0)
        BY FirstFrames DEF e
      <3>2. \A id \in CallIDs : recv2[id] = IF id = id0 /\ h = Null THEN recv[id] \o e ELSE recv[id]
        <4>1. written' = <<>> \/ (written'[1].to = c /\ written'[1].streamID = U8(id0))
          BY <2>2, <3>1
        <4>2. \A id \in CallIDs : recv2[id] =
                 IF id = id0 /\ written' # <<>> THEN recv[id] \o written' ELSE recv[id]
          BY <1>2, <2>1, <4>1, RecordedOne
        <4> QED BY <2>2, <3>1, <4>2
      <3> QED BY <3>2 DEF e
    <2>5. sack2 = sack
      BY <2>2
    <2> HIDE DEF q, recv2, recv, T, T2, calls
    <2> QED BY <1>1, <1>2, <1>7, <1>9, <1>14, <2>2, <2>3, <2>4, <2>5, TakeHeaders DEF f, id0
  <1>15. CASE \/ f.type = DATA /\ Data(c, id0, f.message, f.length, f.flag = 1)
              \/ f.type = RST_STREAM /\ RstStream(c, id0)
    <2>1. id0 \in CallIDs /\ (f.type = DATA => f.flag = 1)
      BY <1>8, <1>15 DEF Expected, SETTINGS, HEADERS, DATA, RST_STREAM,
       GOAWAY, CONTINUATION
    <2>2. /\ ResetStream(GetStream(c, id0)) /\ DeallocateStream(c, id0)
          /\ UNCHANGED prefaceSettingsAckd /\ c \in prefaceSettingsAckd
          /\ \/ f.type = DATA /\ StreamData(GetStream(c, id0), f.message, f.length)
             \/ written' = <<>>
      BY <1>15, <2>1 DEF Data, RstStream, Dispatched
    <2>3. \/ T2 = T /\ \A i \in 1..Len(T) : T[i][1].id # id0
          \/ \E n \in 1..Len(T) : T[n][1].id = id0 /\ T2 = RemoveAt(T, n)
      BY <1>1, <2>2, CloseRows
    <2>4. ASSUME NEW id \in CallIDs
          PROVE  \/ recv2[id] = recv[id]
                 \/ /\ id = id0
                    /\ f.type = DATA
                    /\ \E n \in 1..Len(T) :
                          /\ T[n][1].id = id /\ T[n][2] \in Handlers
                          /\ recv2[id] = recv[id] \o
                                WriteResponse(Served(c, id), T[n][2], f.message)
      <3>1. CASE written' = <<>>
        BY <1>2, <2>1, <3>1, RecordedOne
      <3>2. CASE written' # <<>>
        <4>1. f.type = DATA
          BY <2>2, <3>2
        <4>2. PICK n \in 1..Len(T) :
                 /\ T[n][1] = Served(c, id0) /\ T[n][2] \in Handlers
                 /\ written' = WriteResponse(Served(c, id0), T[n][2], f.message)
          BY <1>1, <2>2, <3>2, DataRows
        <4>3. written'[1].to = c /\ written'[1].streamID = U8(id0)
          BY <4>2, FirstFrames
        <4>4. recv2[id] = IF id = id0 THEN recv[id] \o written' ELSE recv[id]
          BY <1>2, <2>1, <3>2, <4>3, RecordedOne
        <4>5. T[n][1].id = id0
          BY <4>2 DEF Served
        <4> QED BY <4>1, <4>2, <4>4, <4>5
      <3> QED BY <3>1, <3>2
    <2>5. sack2 = sack /\ sack
      BY <1>6, <2>2
    <2>6. f.type \in {DATA, RST_STREAM}
      BY <1>15
    <2> HIDE DEF q, recv2, recv, T, T2, calls
    <2> QED BY <1>1, <1>2, <1>7, <1>9, <2>3, <2>4, <2>5, <2>6, TakeEnd DEF f, id0
  <1> QED BY <1>3, <1>4, <1>12, <1>13, <1>14, <1>15, <1>16 DEF PumpFrame, SETTINGS, PING,
          PRIORITY, WINDOW_UPDATE, HEADERS, DATA, RST_STREAM

LEMMA ServeFrameOwn ==
    ASSUME OneByte, OutcomeInv, UInv', NEW c \in Conn, ServeFrame(c)
    PROVE  ConnInv(c)'
  <1>1. CASE PumpFrame(c, Head(toServer[c]))
    <2>1. CASE Readable(Head(toServer[c]))
      BY <1>1, <2>1, ServeRead
    <2>2. CASE ~Readable(Head(toServer[c]))
      <3>1. UnreadableFrame(c) /\ NoCallback
        BY <1>1, <2>2 DEF PumpFrame
      <3> QED BY <3>1, ServeUnread
    <2> QED BY <2>1, <2>2
  <1>2. CASE DiscardByte(c) /\ NoCallback
    BY <1>2, ServeUnread
  <1> QED BY <1>1, <1>2 DEF ServeFrame

-----------------------------------------------------------------------------
(* The other connections, and the clients' own steps.                      *)

LEMMA FirstWrite ==
    ASSUME IInv, NEW c \in Conn, NEW f \in PeerFrames, PumpFrame(c, f)
    PROVE  written' = <<>> \/ written'[1].to = c
  <1>1. ASSUME NEW type, NEW flags, NEW id, NEW content,
               written' = <<Out(c, type, flags, id, content)>>
        PROVE  written'[1].to = c
    <2>1. Out(c, type, flags, id, content).to = c
      BY DEF Out
    <2>2. ASSUME NEW x PROVE <<x>>[1] = x
      OBVIOUS
    <2> QED BY <1>1, <2>1, <2>2, Zenon
  <1>2. CASE \/ UnreadableFrame(c) \/ NullFrame(c) \/ IgnoredFrame(c)
             \/ RstStream(c, f.streamID)
    BY <1>2 DEF UnreadableFrame, NullFrame, IgnoredFrame, RstStream
  <1>3. CASE DropFrame(c, f.streamID) \/ Settings(c, f.streamID, f.flag = 1)
             \/ Ping(c, f.flag = 1)
    BY <1>1, <1>3, Zenon DEF DropFrame, Settings, Ping, RstStreamFrame
  <1>4. CASE Headers(c, f.streamID, f.path)
    <2>1. \/ written' = <<>>
          \/ written' = WriteResponseError(Served(c, f.streamID), UNIMPLEMENTED)
      BY <1>4 DEF Headers, NewStream, Served
    <2> QED BY <2>1, FirstFrames
  <1>5. CASE Data(c, f.streamID, f.message, f.length, f.flag = 1)
    <2>1. StreamData(GetStream(c, f.streamID), f.message, f.length)
      BY <1>5 DEF Data
    <2>2. CASE written' = <<>>
      BY <2>2
    <2>3. CASE written' # <<>>
      <3>1. PICK h : written' = WriteResponse(Served(c, f.streamID), h, f.message)
        BY <2>1, <2>3, DataRows
      <3> QED BY <3>1, FirstFrames
    <2> QED BY <2>2, <2>3
  <1> QED BY <1>2, <1>3, <1>4, <1>5 DEF PumpFrame

LEMMA ConnKept ==
    ASSUME NEW d \in Conn, ConnInv(d), View(d)' = View(d),
           toServer'[d] = toServer[d], call'[d] = call[d],
           d \in acked' <=> d \in acked,
           \A id \in CallIDs : received'[d][id] = received[d][id]
    PROVE  ConnInv(d)'
  <1> DEFINE calls == call[d]
             recv == received[d]
             recv2 == received'[d]
             T == Rows(d)
  <1>1. PICK live \in BOOLEAN, cack \in BOOLEAN, sack \in BOOLEAN :
           /\ live <=> connState[d] # "Deleted"
           /\ cack <=> d \in acked
           /\ sack <=> d \in prefaceSettingsAckd
    <2>1. /\ (connState[d] # "Deleted") \in BOOLEAN /\ (d \in acked) \in BOOLEAN
          /\ (d \in prefaceSettingsAckd) \in BOOLEAN
      OBVIOUS
    <2> QED OBVIOUS
  <1> HIDE DEF ClientFrames
  <1>2. PICK q \in Seq(ClientFrames) :
           /\ connState[d] # "Failed" => q = toServer[d]
           /\ ConnState(d, live, q, cack, sack, calls, recv, T)
    BY <1>1, Named
  <1>3. \A id \in CallIDs : recv2[id] = recv[id]
    OBVIOUS
  <1>4. /\ Rows(d)' = T /\ connState'[d] = connState[d]
        /\ d \in prefaceSettingsAckd' <=> d \in prefaceSettingsAckd
    BY SameView
  <1>5. ConnState(d, live, q, cack, sack, calls, recv2, T)
    <2> HIDE DEF calls, recv, recv2, T
    <2> QED BY <1>2, <1>3, ReceivedSame
  <1>6. connState'[d] # "Failed" => q = toServer'[d]
    BY <1>2, <1>4
  <1> QED BY <1>1, <1>4, <1>5, <1>6, NamedPrimed

(* The client sends frame f of call id, the first or the last one of it.   *)
Acts(calls, calls2, id, f, cack) ==
    /\ Follows(calls[id], calls2[id])
    /\ \A j \in CallIDs : j # id => calls2[j] = calls[j]
    /\ Expected(f, calls2) /\ f.streamID = id /\ f.type \in CallTypes
    /\ ~cack => calls2[id].early
    /\ f.type = HEADERS => /\ calls[id].phase = "idle"
                           /\ calls2[id].phase = "open"
                           /\ calls2[id].early => ~cack
    /\ f.type # HEADERS => EndsStream(f, id)

LEMMA Acted ==
    ASSUME NEW c, NEW live \in BOOLEAN, live, NEW q \in Seq(ClientFrames),
           NEW f \in ClientFrames, NEW cack \in BOOLEAN, NEW sack \in BOOLEAN,
           NEW calls, NEW calls2, NEW id \in CallIDs, NEW recv, NEW T,
           ConnState(c, live, q, cack, sack, calls, recv, T),
           Acts(calls, calls2, id, f, cack)
    PROVE  ConnState(c, live, q \o <<f>>, cack, sack, calls2, recv, T)
  <1> HIDE DEF ClientFrames
  <1> DEFINE p == q \o <<f>>
  <1>1. /\ QueueInv(q, calls) /\ HeadInv(q, recv, T) /\ AckOnItsWay(q, cack, sack)
        /\ EarlyBefore(q, calls, sack) /\ EarlyUnlessAcked(calls, cack)
        /\ TableInv(T, calls, recv) /\ EndInv(q, calls, T) /\ ReplyInv(c, recv, calls, sack)
        /\ IdleInv(calls)
    BY DEF ConnState
  <1>2. /\ QueueInv(q, calls2) /\ EarlyBefore(q, calls2, sack) /\ TableInv(T, calls2, recv)
        /\ ReplyInv(c, recv, calls2, sack) /\ IdleInv(calls2)
        /\ EarlyUnlessAcked(calls2, cack)
    BY <1>1, CallFollows DEF Acts
  <1>3. ASSUME f.type = HEADERS
        PROVE  /\ \A k \in 1..Len(q) : q[k].streamID # f.streamID
               /\ recv[f.streamID] = <<>>
               /\ \A i \in 1..Len(T) : T[i][1].id # f.streamID
    <2>1. f.streamID = id /\ calls[id].phase = "idle" /\ 0 \notin CallIDs
      BY <1>3, CallIDsAssumption DEF Acts
    <2>2. \A k \in 1..Len(q) : q[k].streamID # id
      BY <1>1, <2>1 DEF QueueInv, Expected
    <2>3. recv[id] = <<>>
      BY <1>1, <2>1 DEF ReplyInv, Reply
    <2>4. \A i \in 1..Len(T) : T[i][1].id # id
      BY <1>1, <2>1 DEF TableInv
    <2> QED BY <2>1, <2>2, <2>3, <2>4
  <1>4. ~IsAck(f) /\ Expected(f, calls2) /\ f.streamID = id
    BY DEF Acts, IsAck, CallTypes, SETTINGS, HEADERS, DATA, RST_STREAM
  <1>5. f.type \in CallTypes =>
           /\ ~calls2[f.streamID].early => cack
           /\ calls2[f.streamID].early /\ f.type = HEADERS => ~cack
    BY DEF Acts
  <1>6. /\ QueueInv(p, calls2) /\ HeadInv(p, recv, T) /\ AckOnItsWay(p, cack, sack)
        /\ EarlyBefore(p, calls2, sack)
    <2>1. QueueInv(p, calls2)
      BY <1>2, <1>4, Pushed
    <2>2. HeadInv(p, recv, T)
      BY <1>1, <1>3, <1>4, Pushed
    <2>3. AckOnItsWay(p, cack, sack)
      BY <1>1, <1>4, PushedAck
    <2>4. EarlyBefore(p, calls2, sack)
      <3> HIDE DEF p
      <3>1. EarlyBefore(q, calls2, sack) /\ AckOnItsWay(q, cack, sack)
        BY <1>1, <1>2
      <3>2. EarlyBefore(q \o <<f>>, calls2, sack)
        BY <1>4, <1>5, <3>1, PushedEarly, Zenon
      <3> QED BY <3>2 DEF p
    <2> QED BY <2>1, <2>2, <2>3, <2>4
  <1>7. /\ \E k \in 1..Len(p) : p[k] = f
        /\ \A k \in 1..Len(q) : \E j \in 1..Len(p) : p[j] = q[k]
        /\ \A k \in 1..Len(p) : p[k] = f \/ \E j \in 1..Len(q) : p[k] = q[j]
    BY <1>4, Pushed
  <1> HIDE DEF p
  <1>8. ASSUME NEW j \in CallIDs
        PROVE  \/ calls2[j].phase = "open"
               \/ \E k \in 1..Len(p) : EndsStream(p[k], j)
               \/ /\ \A i \in 1..Len(T) : T[i][1].id # j
                  /\ \A k \in 1..Len(p) : p[k].streamID = j => p[k].type # HEADERS
    <2>1. CASE j = id
      BY <1>7, <2>1 DEF Acts
    <2>2. CASE j # id
      <3>1. calls2[j] = calls[j]
        BY <2>2 DEF Acts
      <3>2. \A k \in 1..Len(q) : EndsStream(q[k], j) => \E i \in 1..Len(p) : EndsStream(p[i], j)
        BY <1>7, Zenon
      <3>3. (\A k \in 1..Len(q) : q[k].streamID = j => q[k].type # HEADERS)
               => \A k \in 1..Len(p) : p[k].streamID = j => p[k].type # HEADERS
        BY <1>4, <1>7, <2>2, Zenon
      <3> QED BY <1>1, <3>1, <3>2, <3>3 DEF EndInv
    <2> QED BY <2>1, <2>2
  <1>9. EndInv(p, calls2, T)
    BY <1>8 DEF EndInv
  <1> QED BY <1>1, <1>2, <1>6, <1>9 DEF ConnState, p

(* The client acknowledges the SETTINGS of the server. *)
Acks(f, cack, cack2) == ~cack /\ cack2 /\ IsAck(f) /\ f.streamID = 0

LEMMA AckSent ==
    ASSUME NEW c, NEW live \in BOOLEAN, live, NEW q \in Seq(ClientFrames),
           NEW f \in ClientFrames, NEW cack \in BOOLEAN, NEW cack2 \in BOOLEAN,
           NEW sack \in BOOLEAN, NEW calls, NEW recv, NEW T,
           ConnState(c, live, q, cack, sack, calls, recv, T),
           Acks(f, cack, cack2)
    PROVE  ConnState(c, live, q \o <<f>>, cack2, sack, calls, recv, T)
  <1> HIDE DEF ClientFrames
  <1> DEFINE p == q \o <<f>>
  <1>1. /\ QueueInv(q, calls) /\ HeadInv(q, recv, T) /\ AckOnItsWay(q, cack, sack)
        /\ EarlyBefore(q, calls, sack) /\ TableInv(T, calls, recv) /\ EndInv(q, calls, T)
        /\ ReplyInv(c, recv, calls, sack) /\ IdleInv(calls)
    BY DEF ConnState
  <1>2. /\ Expected(f, calls) /\ f.type = SETTINGS /\ f.type # HEADERS
        /\ f.type \notin CallTypes
    BY DEF DATA, RST_STREAM, Expected, Acks, IsAck, SETTINGS, HEADERS, CallTypes, GOAWAY, CONTINUATION
  <1>3. QueueInv(p, calls) /\ HeadInv(p, recv, T) /\ EarlyBefore(p, calls, sack)
    <2>1. QueueInv(p, calls) /\ HeadInv(p, recv, T)
      BY <1>1, <1>2, Pushed
    <2>2. EarlyBefore(p, calls, sack)
      BY <1>1, <1>2, PushedEarly
    <2> QED BY <2>1, <2>2
  <1>4. /\ \E k \in 1..Len(p) : p[k] = f
        /\ \A k \in 1..Len(q) : \E j \in 1..Len(p) : p[j] = q[k]
        /\ \A k \in 1..Len(p) : p[k] = f \/ \E j \in 1..Len(q) : p[k] = q[j]
    BY <1>2, Pushed
  <1> HIDE DEF p
  <1>5. AckOnItsWay(p, cack2, sack)
    BY <1>4 DEF AckOnItsWay, Acks
  <1>6. EndInv(p, calls, T)
    <2>1. \A j \in CallIDs : \A k \in 1..Len(q) :
             EndsStream(q[k], j) => \E i \in 1..Len(p) : EndsStream(p[i], j)
      BY <1>4, Zenon
    <2>2. ASSUME NEW j \in CallIDs,
                 \A k \in 1..Len(q) : q[k].streamID = j => q[k].type # HEADERS
          PROVE  \A k \in 1..Len(p) : p[k].streamID = j => p[k].type # HEADERS
      BY <1>2, <1>4, <2>2
    <2> QED BY <1>1, <2>1, <2>2 DEF EndInv
  <1>7. EarlyUnlessAcked(calls, cack2)
    BY DEF EarlyUnlessAcked, Acks
  <1> QED BY <1>1, <1>3, <1>5, <1>6, <1>7 DEF ConnState, p

(* A frame the server does not read goes with the frames of the calls.     *)
LEMMA Passed ==
    ASSUME NEW c, NEW live \in BOOLEAN, live, NEW q \in Seq(ClientFrames),
           NEW f \in ClientFrames, NEW cack \in BOOLEAN, NEW sack \in BOOLEAN,
           NEW calls, NEW recv, NEW T,
           ConnState(c, live, q, cack, sack, calls, recv, T),
           Expected(f, calls), f.type \in {GOAWAY, CONTINUATION}
    PROVE  ConnState(c, live, q \o <<f>>, cack, sack, calls, recv, T)
  <1> HIDE DEF ClientFrames
  <1> DEFINE p == q \o <<f>>
  <1>1. /\ QueueInv(q, calls) /\ HeadInv(q, recv, T) /\ AckOnItsWay(q, cack, sack)
        /\ EarlyBefore(q, calls, sack) /\ EarlyUnlessAcked(calls, cack)
        /\ TableInv(T, calls, recv) /\ EndInv(q, calls, T)
        /\ ReplyInv(c, recv, calls, sack) /\ IdleInv(calls)
    BY DEF ConnState
  <1>2. f.type # HEADERS /\ f.type \notin CallTypes /\ ~IsAck(f)
    BY DEF IsAck, CallTypes, SETTINGS, HEADERS, DATA, RST_STREAM, GOAWAY, CONTINUATION
  <1>3. /\ QueueInv(p, calls) /\ HeadInv(p, recv, T) /\ EarlyBefore(p, calls, sack)
        /\ AckOnItsWay(p, cack, sack)
    <2>1. QueueInv(p, calls) /\ HeadInv(p, recv, T)
      BY <1>1, <1>2, Pushed
    <2>2. EarlyBefore(p, calls, sack)
      BY <1>1, <1>2, PushedEarly
    <2>3. AckOnItsWay(p, cack, sack)
      BY <1>1, <1>2, PushedAck
    <2> QED BY <2>1, <2>2, <2>3
  <1>4. /\ \A k \in 1..Len(q) : \E j \in 1..Len(p) : p[j] = q[k]
        /\ \A k \in 1..Len(p) : p[k] = f \/ \E j \in 1..Len(q) : p[k] = q[j]
    BY Pushed
  <1> HIDE DEF p
  <1>5. EndInv(p, calls, T)
    <2>1. \A j \in CallIDs : \A k \in 1..Len(q) :
             EndsStream(q[k], j) => \E i \in 1..Len(p) : EndsStream(p[i], j)
      BY <1>4, Zenon
    <2>2. ASSUME NEW j \in CallIDs,
                 \A k \in 1..Len(q) : q[k].streamID = j => q[k].type # HEADERS
          PROVE  \A k \in 1..Len(p) : p[k].streamID = j => p[k].type # HEADERS
      BY <1>2, <1>4, <2>2
    <2> QED BY <1>1, <2>1, <2>2 DEF EndInv
  <1> QED BY <1>1, <1>3, <1>5 DEF ConnState, p

LEMMA InTwo ==
    ASSUME NEW S, NEW r \in Seq(S), NEW x \in S, NEW y \in S
    PROVE  r \o <<x>> \in Seq(S) /\ (r \o <<x>>) \o <<y>> = r \o <<x, y>>
  <1>1. r \o <<x>> \in Seq(S) /\ <<x, y>> \in Seq(S)
    OBVIOUS
  <1>2. Len(<<x, y>>) = 2 /\ <<x, y>>[1] = x /\ <<x, y>>[2] = y
    OBVIOUS
  <1>3. Len(<<y>>) = 1 /\ <<y>>[1] = y /\ Len(<<x>>) = 1 /\ <<x>>[1] = x
    OBVIOUS
  <1> DEFINE a == (r \o <<x>>) \o <<y>>
             b == r \o <<x, y>>
  <1>4. a \in Seq(S) /\ b \in Seq(S)
    OBVIOUS
  <1>5. Len(a) = Len(r) + 2 /\ Len(b) = Len(r) + 2
    OBVIOUS
  <1>6. ASSUME NEW i \in 1..(Len(r) + 2) PROVE a[i] = b[i]
    <2>1. CASE i \in 1..Len(r)
      <3>1. (r \o <<x>>)[i] = r[i] /\ i \in 1..Len(r \o <<x>>)
        BY <2>1
      <3>2. a[i] = (r \o <<x>>)[i]
        BY <1>1, <3>1
      <3>3. b[i] = r[i]
        BY <1>1, <2>1
      <3> QED BY <3>1, <3>2, <3>3
    <2>2. CASE i = Len(r) + 1
      <3>1. (r \o <<x>>)[i] = x /\ i \in 1..Len(r \o <<x>>)
        BY <2>2
      <3>2. a[i] = (r \o <<x>>)[i]
        BY <1>1, <3>1
      <3>3. b[i] = x
        BY <1>1, <2>2
      <3> QED BY <3>1, <3>2, <3>3
    <2>3. CASE i = Len(r) + 2
      <3>1. Len(r \o <<x>>) = Len(r) + 1
        OBVIOUS
      <3>2. a[i] = y
        BY <1>1, <2>3, <3>1
      <3>3. b[i] = y
        BY <1>1, <2>3
      <3> QED BY <3>2, <3>3
    <2> QED BY <2>1, <2>2, <2>3
  <1> HIDE DEF a, b
  <1>7. a = b
    BY <1>4, <1>5, <1>6
  <1> QED BY <1>1, <1>7 DEF a, b

(* The header block of the call goes on in a second frame. *)
LEMMA ActedTwice ==
    ASSUME NEW c, NEW live \in BOOLEAN, live, NEW q \in Seq(ClientFrames),
           NEW f \in ClientFrames, NEW g \in ClientFrames,
           NEW cack \in BOOLEAN, NEW sack \in BOOLEAN,
           NEW calls, NEW calls2, NEW id \in CallIDs, NEW recv, NEW T,
           ConnState(c, live, q, cack, sack, calls, recv, T),
           Acts(calls, calls2, id, f, cack),
           g.type = CONTINUATION, g.streamID = id, calls2[id].phase # "idle"
    PROVE  ConnState(c, live, q \o <<f, g>>, cack, sack, calls2, recv, T)
  <1> HIDE DEF ClientFrames
  <1> DEFINE p == q \o <<f>>
  <1>1. ConnState(c, live, p, cack, sack, calls2, recv, T)
    BY Acted
  <1>2. Expected(g, calls2) /\ g.type \in {GOAWAY, CONTINUATION}
    BY DEF Expected
  <1>3. p \in Seq(ClientFrames) /\ p \o <<g>> = q \o <<f, g>>
    BY InTwo
  <1> HIDE DEF p
  <1>4. ConnState(c, live, p \o <<g>>, cack, sack, calls2, recv, T)
    BY <1>1, <1>2, <1>3, Passed
  <1> QED BY <1>3, <1>4

-----------------------------------------------------------------------------
(* Each action.                                                            *)

LEMMA FreshConn ==
    ASSUME OneByte, NEW c, NEW live \in BOOLEAN, NEW cack \in BOOLEAN, NEW sack \in BOOLEAN,
           live => ~cack /\ ~sack,
           NEW q, \A k \in 1..Len(q) : q[k] = SettingsFrame(0),
           NEW T, T = <<>>
    PROVE  ConnState(c, live, q, cack, sack, NoCalls, Nothing, T)
  <1>1. \A id \in CallIDs : NoCalls[id] = NoCall /\ NoCall.phase = "idle" /\ Nothing[id] = <<>>
    BY OwnBytes DEF NoCalls, NoCall, Nothing
  <1>2. \A k \in 1..Len(q) : q[k].type = SETTINGS /\ q[k].streamID = 0 /\ q[k].flag = 0
    BY DEF SettingsFrame
  <1>3. \A i \in 1..Len(T) : FALSE
    OBVIOUS
  <1>4. QueueInv(q, NoCalls) /\ HeadInv(q, Nothing, T)
    BY <1>2, <1>3 DEF QueueInv, Expected, HeadInv, SETTINGS, HEADERS, CallTypes, GOAWAY, CONTINUATION
  <1>5. (live => AckOnItsWay(q, cack, sack)) /\ EarlyBefore(q, NoCalls, sack)
    BY <1>2 DEF AckOnItsWay, IsAck, EarlyBefore, CallTypes, SETTINGS, HEADERS, DATA,
       RST_STREAM
  <1>6. EarlyUnlessAcked(NoCalls, cack) /\ TableInv(T, NoCalls, Nothing) /\ IdleInv(NoCalls)
    BY <1>1, <1>3 DEF EarlyUnlessAcked, TableInv, IdleInv
  <1>7. EndInv(q, NoCalls, T)
    BY <1>2, <1>3 DEF EndInv, SETTINGS, HEADERS, CallTypes, GOAWAY, CONTINUATION
  <1>8. ReplyInv(c, Nothing, NoCalls, sack)
    BY <1>1 DEF ReplyInv, Reply
  <1> QED BY <1>4, <1>5, <1>6, <1>7, <1>8 DEF ConnState

LEMMA TruthValues ==
    ASSUME NEW c
    PROVE  \E live, cack, sack \in BOOLEAN :
              /\ live <=> connState[c] # "Deleted"
              /\ cack <=> c \in acked
              /\ sack <=> c \in prefaceSettingsAckd
  <1>1. /\ (connState[c] # "Deleted") \in BOOLEAN /\ (c \in acked) \in BOOLEAN
        /\ (c \in prefaceSettingsAckd) \in BOOLEAN
    OBVIOUS
  <1> QED OBVIOUS

LEMMA TruthValuesPrimed ==
    ASSUME NEW c
    PROVE  \E live, cack, sack \in BOOLEAN :
              /\ live <=> connState'[c] # "Deleted"
              /\ cack <=> c \in acked'
              /\ sack <=> c \in prefaceSettingsAckd'
  <1>1. /\ (connState'[c] # "Deleted") \in BOOLEAN /\ (c \in acked') \in BOOLEAN
        /\ (c \in prefaceSettingsAckd') \in BOOLEAN
    OBVIOUS
  <1> QED OBVIOUS

(* The connections whose client does not act see the server as it was. *)
LEMMA OthersKept ==
    ASSUME OutcomeInv, NEW c \in Conn, Others(c),
           \A d \in Conn \ {c} :
              /\ toServer'[d] = toServer[d] /\ call'[d] = call[d]
              /\ d \in acked' <=> d \in acked
              /\ DOMAIN received'[d] = ReplyIDs
              /\ \A id \in CallIDs : received'[d][id] = received[d][id]
    PROVE  \A d \in Conn \ {c} : ConnInv(d)' /\ DOMAIN received'[d] = ReplyIDs
  BY ConnKept DEF OutcomeInv, Others

LEMMA SameServer ==
    ASSUME IInv, IInv', UNCHANGED <<connState, prefaceSettingsAckd, streams, heap, grpcStreams>>
    PROVE  \A d \in Conn : View(d)' = View(d)
  BY HeapKept

LEMMA EmptyRows ==
    ASSUME IInv, NEW c \in Conn, streams[c] = <<>>
    PROVE  Rows(c) = <<>>
  <1>1. Rows(c) = [i \in 1..Len(streams[c]) |->
                      <<heap[streams[c][i]], HandlerIn(grpcStreams, streams[c][i])>>]
    BY RowsAre
  <1> QED BY <1>1

LEMMA EmptyRowsPrimed ==
    ASSUME IInv', NEW c \in Conn, streams'[c] = <<>>
    PROVE  Rows(c)' = <<>>
  <1>1. Rows(c)' = [i \in 1..Len(streams'[c]) |->
                       <<heap'[streams'[c][i]], HandlerIn(grpcStreams', streams'[c][i])>>]
    BY RowsArePrimed
  <1> QED BY <1>1

(* Connect and Leave: nothing of the connection's past is left. *)
LEMMA ConnectOutcome ==
    ASSUME OneByte, OutcomeInv, UInv', NEW c \in Conn, Connect(c) \/ Leave(c)
    PROVE  OutcomeInv'
  <1>1. /\ IInv /\ IInv' /\ toServer \in [Conn -> Seq(ClientFrames)]
        /\ call \in [Conn -> [CallIDs -> CallType]] /\ DOMAIN received = Conn
        /\ acked \subseteq Conn /\ prefaceSettingsAckd \subseteq Conn
        /\ streams \in [Conn -> Seq(Addr)]
        /\ connState \in [Conn -> {"Deleted", "Started", "Connected", "Failed",
                            "Undefined"}]
    BY ClientTypes DEF OutcomeInv, UInv, ClientTypeOK, IInv, TypeOK, ConnectionTypeOK
  <1>2. Others(c)
    BY <1>1, AddShape, RemoveShape DEF Connect, Leave
  <1>3. /\ \A d \in Conn \ {c} : /\ toServer'[d] = toServer[d] /\ call'[d] = call[d]
                                 /\ d \in acked' <=> d \in acked
                                 /\ received'[d] = received[d]
        /\ call'[c] = NoCalls
        /\ streams'[c] = <<>>
    BY <1>1 DEF Connect, Leave, AddConnection, NewConnection, RemoveConnection,
       DeleteConnection
  <1>4. received'[c] = Nothing
    <2>1. received' = [received EXCEPT ![c] = Nothing]
      BY DEF Connect, Leave
    <2> HIDE DEF Nothing
    <2> QED BY <1>1, <2>1
  <1>5. \A k \in 1..Len(toServer'[c]) : toServer'[c][k] = SettingsFrame(0)
    <2>1. toServer'[c] = <<>> \/ toServer'[c] = <<SettingsFrame(0)>>
      BY <1>1 DEF Connect, Leave
    <2>2. ASSUME NEW x PROVE \A k \in 1..Len(<<x>>) : <<x>>[k] = x
      OBVIOUS
    <2> QED BY <2>1, <2>2
  <1>6. connState'[c] = "Deleted" \/ (c \notin acked' /\ c \notin prefaceSettingsAckd')
    BY <1>1 DEF Connect, Leave, AddConnection, NewConnection, RemoveConnection,
       DeleteConnection
  <1>7. ConnInv(c)'
    <2>1. PICK live \in BOOLEAN, cack \in BOOLEAN, sack \in BOOLEAN :
             /\ live <=> connState'[c] # "Deleted"
             /\ cack <=> c \in acked'
             /\ sack <=> c \in prefaceSettingsAckd'
      BY TruthValuesPrimed
    <2>2. Rows(c)' = <<>>
      BY <1>1, <1>3, EmptyRowsPrimed
    <2>3. ConnState(c, live, toServer'[c], cack, sack, NoCalls, Nothing, Rows(c)')
      BY <1>5, <1>6, <2>1, <2>2, FreshConn
    <2>4. toServer'[c] \in Seq(ClientFrames)
      BY DEF UInv
    <2> HIDE DEF ClientFrames, NoCalls, Nothing
    <2>5. ConnInv(c)' <=>
             \E q \in Seq(ClientFrames) :
                /\ connState'[c] # "Failed" => q = toServer'[c]
                /\ ConnState(c, live, q, cack, sack, call'[c], received'[c], Rows(c)')
      BY <2>1, NamedPrimed
    <2>6. ConnState(c, live, toServer'[c], cack, sack, call'[c], received'[c], Rows(c)')
      BY <1>3, <1>4, <2>3
    <2> QED BY <2>4, <2>5, <2>6, Zenon
  <1>8. \A d \in Conn \ {c} : DOMAIN received'[d] = ReplyIDs
    BY <1>3 DEF OutcomeInv
  <1>9. DOMAIN received'[c] = ReplyIDs
    BY <1>4 DEF Nothing
  <1>10. \A d \in Conn \ {c} : ConnInv(d)'
    BY <1>2, <1>3, <1>8, OthersKept
  <1> QED BY <1>7, <1>8, <1>9, <1>10 DEF OutcomeInv

(* A client puts frames in the queue, and the server notices nothing. *)
LEMMA Sent ==
    ASSUME OutcomeInv, UInv', NEW c \in Conn, NEW frames \in Seq(ClientFrames),
           Transmit(c, frames), UNCHANGED <<vars, received>>,
           \A d \in Conn \ {c} : call'[d] = call[d] /\ (d \in acked' <=> d \in acked),
           \A live, cack, cack2, sack \in BOOLEAN : \A q \in Seq(ClientFrames) :
              /\ live <=> connState[c] # "Deleted"
              /\ cack <=> c \in acked
              /\ cack2 <=> c \in acked'
              /\ ConnState(c, live, q, cack, sack, call[c], received[c], Rows(c))
              => ConnState(c, live, q \o frames, cack2, sack, call'[c], received[c], Rows(c))
    PROVE  OutcomeInv'
  <1>1. /\ UInv /\ IInv /\ IInv' /\ toServer \in [Conn -> Seq(ClientFrames)]
    BY DEF OutcomeInv, UInv
  <1>2. /\ UNCHANGED <<connState, prefaceSettingsAckd, streams, heap, grpcStreams>>
        /\ UNCHANGED received
    BY DEF vars, connectionVars
  <1>3. \A d \in Conn : View(d)' = View(d)
    BY <1>1, <1>2, SameServer
  <1>4. \A d \in Conn : toServer'[d] = IF d = c THEN toServer[c] \o frames ELSE toServer[d]
    <2> HIDE DEF ClientFrames
    <2> QED BY <1>1 DEF Transmit
  <1>5. ASSUME NEW d \in Conn, d # c PROVE ConnInv(d)'
    BY <1>2, <1>3, <1>4, <1>5, ConnKept DEF OutcomeInv
  <1>6. \A d \in Conn : DOMAIN received'[d] = ReplyIDs
    BY <1>2 DEF OutcomeInv
  <1>7. PICK live \in BOOLEAN, cack \in BOOLEAN, sack \in BOOLEAN :
           /\ live <=> connState[c] # "Deleted"
           /\ cack <=> c \in acked
           /\ sack <=> c \in prefaceSettingsAckd
    BY TruthValues
  <1>8. PICK cack2 \in BOOLEAN : cack2 <=> c \in acked'
    <2>1. (c \in acked') \in BOOLEAN
      OBVIOUS
    <2> QED BY <2>1
  <1> HIDE DEF ClientFrames
  <1>9. PICK q \in Seq(ClientFrames) :
           /\ connState[c] # "Failed" => q = toServer[c]
           /\ ConnState(c, live, q, cack, sack, call[c], received[c], Rows(c))
    <2>1. ConnInv(c) <=>
             \E q \in Seq(ClientFrames) :
                /\ connState[c] # "Failed" => q = toServer[c]
                /\ ConnState(c, live, q, cack, sack, call[c], received[c], Rows(c))
      BY <1>7, Named
    <2> QED BY <2>1 DEF OutcomeInv
  <1>10. ConnState(c, live, q \o frames, cack2, sack, call'[c], received[c], Rows(c))
    BY <1>7, <1>8, <1>9
  <1>11. /\ q \o frames \in Seq(ClientFrames)
         /\ connState'[c] # "Failed" => q \o frames = toServer'[c]
    <2>1. q \o frames \in Seq(ClientFrames)
      OBVIOUS
    <2>2. connState' = connState /\ toServer'[c] = toServer[c] \o frames
      BY <1>2, <1>4
    <2>3. connState[c] # "Failed" => q = toServer[c]
      BY <1>9
    <2> QED BY <2>1, <2>2, <2>3, Zenon
  <1>12. ConnInv(c)'
    <2> DEFINE p == q \o frames
    <2>1. /\ live <=> connState'[c] # "Deleted"
          /\ sack <=> c \in prefaceSettingsAckd'
          /\ Rows(c)' = Rows(c) /\ received'[c] = received[c]
      BY <1>2, <1>3, <1>7, SameView
    <2>2. ConnInv(c)' <=>
             \E g \in Seq(ClientFrames) :
                /\ connState'[c] # "Failed" => g = toServer'[c]
                /\ ConnState(c, live, g, cack2, sack, call'[c], received'[c], Rows(c)')
      BY <1>8, <2>1, NamedPrimed
    <2>3. ConnState(c, live, p, cack2, sack, call'[c], received'[c], Rows(c)')
      BY <1>10, <2>1
    <2>4. p \in Seq(ClientFrames) /\ (connState'[c] # "Failed" => p = toServer'[c])
      BY <1>11
    <2> HIDE DEF p
    <2> QED BY <2>2, <2>3, <2>4, Zenon
  <1> QED BY <1>5, <1>6, <1>12 DEF OutcomeInv

LEMMA AckOutcome ==
    ASSUME OutcomeInv, UInv', NEW c \in Conn, Acknowledge(c)
    PROVE  OutcomeInv'
  <1> DEFINE f == SettingsFrame(1)
  <1>1. /\ f \in ClientFrames /\ IsAck(f) /\ f.streamID = 0
    <2>1. 1 \in 0..1
      BY SMT
    <2> QED BY <2>1, FramesTyped DEF SettingsFrame, IsAck
  <1> HIDE DEF f, ClientFrames
  <1>2. /\ connState[c] = "Connected" /\ c \notin acked /\ acked' = acked \cup {c}
        /\ Transmit(c, <<f>>) /\ UNCHANGED <<vars, received>> /\ UNCHANGED call
    BY DEF Acknowledge, f
  <1>3. ASSUME NEW live \in BOOLEAN, NEW cack \in BOOLEAN, NEW cack2 \in BOOLEAN,
               NEW sack \in BOOLEAN, NEW q \in Seq(ClientFrames),
               live <=> connState[c] # "Deleted",
               cack <=> c \in acked,
               cack2 <=> c \in acked',
               ConnState(c, live, q, cack, sack, call[c], received[c], Rows(c))
        PROVE  ConnState(c, live, q \o <<f>>, cack2, sack, call'[c], received[c], Rows(c))
    <2>1. live /\ Acks(f, cack, cack2) /\ call'[c] = call[c]
      BY <1>1, <1>2, <1>3 DEF Acks
    <2> QED BY <1>1, <1>3, <2>1, AckSent
  <1>4. <<f>> \in Seq(ClientFrames)
    BY <1>1
  <1> QED BY <1>2, <1>3, <1>4, Sent

LEMMA GoAwayOutcome ==
    ASSUME OutcomeInv, UInv', NEW c \in Conn, GoAway(c)
    PROVE  OutcomeInv'
  <1> DEFINE f == GoAwayFrame
  <1>1. f \in ClientFrames /\ f.type = GOAWAY /\ f.streamID = 0
    BY FramesTyped DEF GoAwayFrame
  <1> HIDE DEF f, ClientFrames
  <1>2. /\ connState[c] \in {"Started", "Connected"}
        /\ Transmit(c, <<f>>) /\ UNCHANGED <<vars, received>> /\ UNCHANGED <<acked, call>>
    BY DEF GoAway, f
  <1>3. ASSUME NEW live \in BOOLEAN, NEW cack \in BOOLEAN, NEW cack2 \in BOOLEAN,
               NEW sack \in BOOLEAN, NEW q \in Seq(ClientFrames),
               live <=> connState[c] # "Deleted",
               cack <=> c \in acked,
               cack2 <=> c \in acked',
               ConnState(c, live, q, cack, sack, call[c], received[c], Rows(c))
        PROVE  ConnState(c, live, q \o <<f>>, cack2, sack, call'[c], received[c], Rows(c))
    <2>1. live /\ (cack2 <=> cack) /\ call'[c] = call[c]
      BY <1>2, <1>3
    <2>2. Expected(f, call[c]) /\ f.type \in {GOAWAY, CONTINUATION}
      BY <1>1 DEF Expected
    <2>3. cack2 = cack
      BY <2>1
    <2>4. ConnState(c, live, q \o <<f>>, cack, sack, call[c], received[c], Rows(c))
      BY <1>1, <1>3, <2>1, <2>2, Passed
    <2> QED BY <2>1, <2>3, <2>4
  <1>4. <<f>> \in Seq(ClientFrames)
    BY <1>1
  <1> QED BY <1>2, <1>3, <1>4, Sent

LEMMA CallOutcome ==
    ASSUME OutcomeInv, UInv', NEW c \in Conn, NEW f \in ClientFrames, NEW id \in CallIDs,
           connState[c] # "Deleted", Transmit(c, <<f>>),
           UNCHANGED <<vars, acked, received>>,
           \A d \in Conn \ {c} : call'[d] = call[d],
           \A cack \in BOOLEAN : (cack <=> c \in acked) => Acts(call[c], call'[c], id, f, cack)
    PROVE  OutcomeInv'
  <1> HIDE DEF ClientFrames
  <1>1. ASSUME NEW live \in BOOLEAN, NEW cack \in BOOLEAN, NEW cack2 \in BOOLEAN,
               NEW sack \in BOOLEAN, NEW q \in Seq(ClientFrames),
               live <=> connState[c] # "Deleted",
               cack <=> c \in acked,
               cack2 <=> c \in acked',
               ConnState(c, live, q, cack, sack, call[c], received[c], Rows(c))
        PROVE  ConnState(c, live, q \o <<f>>, cack2, sack, call'[c], received[c], Rows(c))
    <2>1. live /\ Acts(call[c], call'[c], id, f, cack) /\ cack2 = cack
      BY <1>1
    <2>2. ConnState(c, live, q \o <<f>>, cack, sack, call'[c], received[c], Rows(c))
      BY <1>1, <2>1, Acted
    <2> QED BY <2>1, <2>2
  <1>2. <<f>> \in Seq(ClientFrames)
    OBVIOUS
  <1> QED BY <1>1, <1>2, Sent

(* A header block that goes on in a second frame. *)
LEMMA BlockOutcome ==
    ASSUME OutcomeInv, UInv', NEW c \in Conn, NEW f \in ClientFrames, NEW g \in ClientFrames,
           NEW id \in CallIDs, g.type = CONTINUATION, g.streamID = id,
           connState[c] # "Deleted", Transmit(c, <<f, g>>),
           UNCHANGED <<vars, acked, received>>,
           \A d \in Conn \ {c} : call'[d] = call[d], call'[c][id].phase # "idle",
           \A cack \in BOOLEAN : (cack <=> c \in acked) => Acts(call[c], call'[c], id, f, cack)
    PROVE  OutcomeInv'
  <1> DEFINE frames == <<f, g>>
  <1> HIDE DEF ClientFrames
  <1>1. frames \in Seq(ClientFrames) /\ Transmit(c, frames)
    <2>1. ASSUME NEW S, NEW x \in S, NEW y \in S PROVE <<x, y>> \in Seq(S)
      OBVIOUS
    <2> QED BY <2>1
  <1>2. ASSUME NEW live \in BOOLEAN, NEW cack \in BOOLEAN, NEW cack2 \in BOOLEAN,
               NEW sack \in BOOLEAN, NEW q \in Seq(ClientFrames),
               live <=> connState[c] # "Deleted",
               cack <=> c \in acked,
               cack2 <=> c \in acked',
               ConnState(c, live, q, cack, sack, call[c], received[c], Rows(c))
        PROVE  ConnState(c, live, q \o frames, cack2, sack, call'[c], received[c], Rows(c))
    <2> DEFINE calls == call[c]
               calls2 == call'[c]
               recv == received[c]
               T == Rows(c)
    <2>1. live /\ Acts(calls, calls2, id, f, cack) /\ cack2 = cack /\ calls2[id].phase # "idle"
      BY <1>2
    <2>2. ConnState(c, live, q, cack, sack, calls, recv, T)
      BY <1>2
    <2> HIDE DEF calls, calls2, recv, T
    <2>4. /\ live /\ Acts(calls, calls2, id, f, cack) /\ calls2[id].phase # "idle"
          /\ g.type = CONTINUATION /\ g.streamID = id
      BY <2>1
    <2>3. ConnState(c, live, q \o <<f, g>>, cack, sack, calls2, recv, T)
      BY ONLY q \in Seq(ClientFrames), f \in ClientFrames, g \in ClientFrames, id \in CallIDs,
         live \in BOOLEAN, cack \in BOOLEAN, sack \in BOOLEAN, <2>2, <2>4, ActedTwice
    <2> QED BY <2>1, <2>3 DEF calls2, recv, T
  <1> HIDE DEF frames
  <1> QED BY <1>1, <1>2, Sent

LEMMA OpenOutcome ==
    ASSUME OutcomeInv, UInv', NEW c \in Conn, NEW id \in CallIDs, NEW path \in Names,
           NEW frames \in Blocks(id, path), Open(c, id, path, frames)
    PROVE  OutcomeInv'
  <1> DEFINE g == ContinuationFrame(id)
             k == [phase |-> "open", path |-> path, message |-> Null, early |-> c \notin acked]
  <1>1. PICK f \in ClientFrames :
           /\ f.type = HEADERS /\ f.streamID = id /\ f.path = path
           /\ frames = <<f>> \/ frames = <<f, g>>
    <2>1. \A decodes \in BOOLEAN :
             /\ HeadersFrame(id, path, decodes) \in ClientFrames
             /\ HeadersFrame(id, path, decodes).type = HEADERS
             /\ HeadersFrame(id, path, decodes).streamID = id
             /\ HeadersFrame(id, path, decodes).path = path
      BY FramesTyped DEF HeadersFrame
    <2>2. \/ frames = <<HeadersFrame(id, path, TRUE)>>
          \/ frames = <<HeadersFrame(id, path, FALSE)>>
          \/ frames = <<HeadersFrame(id, path, TRUE), g>>
      BY DEF Blocks
    <2>3. TRUE \in BOOLEAN /\ FALSE \in BOOLEAN
      OBVIOUS
    <2> HIDE DEF g, ClientFrames
    <2> QED BY <2>1, <2>2, <2>3, Zenon
  <1>2. k.phase = "open" /\ k.path = path /\ (k.early <=> c \notin acked)
    OBVIOUS
  <1>3. g \in ClientFrames /\ g.type = CONTINUATION /\ g.streamID = id
    BY FramesTyped DEF ContinuationFrame
  <1> HIDE DEF g, k, ClientFrames
  <1>4. /\ connState[c] # "Deleted" /\ call[c][id].phase = "idle"
        /\ call' = [call EXCEPT ![c][id] = k]
        /\ Transmit(c, frames) /\ UNCHANGED <<vars, acked, received>>
    BY DEF Open, k
  <1>5. call \in [Conn -> [CallIDs -> CallType]]
    BY ClientTypes DEF OutcomeInv, ClientTypeOK
  <1>6. /\ \A d \in Conn \ {c} : call'[d] = call[d]
        /\ call'[c][id] = k /\ \A j \in CallIDs : j # id => call'[c][j] = call[c][j]
    BY <1>4, <1>5
  <1>7. ASSUME NEW cack \in BOOLEAN, cack <=> c \in acked
        PROVE  Acts(call[c], call'[c], id, f, cack)
    <2>1. Follows(call[c][id], k) /\ Expected(f, call'[c])
      BY <1>1, <1>2, <1>4, <1>6 DEF Follows, Expected
    <2>2. (~cack => k.early) /\ (k.early => ~cack)
      BY <1>2, <1>7
    <2> QED BY <1>1, <1>2, <1>4, <1>6, <2>1, <2>2 DEF Acts, CallTypes
  <1>8. CASE frames = <<f>>
    BY <1>4, <1>6, <1>7, <1>8, CallOutcome
  <1>9. CASE frames = <<f, g>>
    <2>1. call'[c][id].phase # "idle"
      BY <1>2, <1>6
    <2> QED BY <1>3, <1>4, <1>6, <1>7, <1>9, <2>1, BlockOutcome
  <1> QED BY <1>1, <1>8, <1>9

(* A call that is under way has its place before or after the              *)
(* acknowledgement.                                                        *)
LEMMA NotEarly ==
    ASSUME OutcomeInv, NEW c \in Conn, NEW id \in CallIDs, call[c][id].phase # "idle",
           c \notin acked
    PROVE  call[c][id].early
  <1>1. PICK live \in BOOLEAN, cack \in BOOLEAN, sack \in BOOLEAN :
           /\ live <=> connState[c] # "Deleted"
           /\ cack <=> c \in acked
           /\ sack <=> c \in prefaceSettingsAckd
    BY TruthValues
  <1>2. \E q : ConnState(c, live, q, cack, sack, call[c], received[c], Rows(c))
    BY <1>1, Named DEF OutcomeInv
  <1>3. EarlyUnlessAcked(call[c], cack)
    BY <1>2 DEF ConnState
  <1> QED BY <1>1, <1>3 DEF EarlyUnlessAcked

LEMMA RequestOutcome ==
    ASSUME WholeRequests, OutcomeInv, UInv', NEW c \in Conn, NEW id \in CallIDs,
           NEW message \in Messages, NEW lengths \in Segmentations,
           Request(c, id, message, lengths)
    PROVE  OutcomeInv'
  <1> DEFINE f == [type |-> DATA, streamID |-> id, flag |-> 1, message |-> message,
                   length |-> lengths[1]]
             k == [call[c][id] EXCEPT !.phase = "sent", !.message = message]
  <1>1. f.type = DATA /\ f.streamID = id /\ f.flag = 1 /\ f.message = message
    OBVIOUS
  <1>2. DataFrames(id, message, lengths) = <<f>> /\ f \in ClientFrames
    <2>1. Len(lengths) = 1
      BY DEF WholeRequests
    <2>2. DataFrames(id, message, lengths) = [i \in 1..1 |-> f]
      <3>1. \A i \in 1..1 : i = 1
        BY SMT
      <3>2. DataFrames(id, message, lengths) =
               [i \in 1..1 |->
                  [type |-> DATA, streamID |-> id, flag |-> IF i = 1 THEN 1 ELSE 0,
                   message |-> message, length |-> lengths[i]]]
        BY <2>1 DEF DataFrames
      <3> QED BY <3>1, <3>2
    <2>3. DataFrames(id, message, lengths) \in Seq(ClientFrames)
      BY DataTyped
    <2> HIDE DEF f, ClientFrames
    <2>4. [i \in 1..1 |-> f] = <<f>>
      OBVIOUS
    <2>5. f \in ClientFrames
      <3>1. <<f>> \in Seq(ClientFrames)
        BY <2>2, <2>3, <2>4
      <3>2. Len(<<f>>) = 1 /\ <<f>>[1] = f
        OBVIOUS
      <3>3. ASSUME NEW S, NEW s \in Seq(S), Len(s) = 1 PROVE s[1] \in S
        BY <3>3
      <3> QED BY <3>1, <3>2, <3>3
    <2> QED BY <2>2, <2>4, <2>5
  <1>3. call \in [Conn -> [CallIDs -> CallType]]
    BY ClientTypes DEF OutcomeInv, ClientTypeOK
  <1>4. /\ k.phase = "sent" /\ k.message = message
        /\ k.path = call[c][id].path /\ k.early = call[c][id].early
    <2>1. call[c][id] \in CallType
      BY <1>3
    <2> QED BY <2>1 DEF CallType
  <1>5. /\ connState[c] # "Deleted" /\ call[c][id].phase = "open"
        /\ call' = [call EXCEPT ![c][id] = k]
        /\ Transmit(c, DataFrames(id, message, lengths))
        /\ UNCHANGED <<vars, acked, received>>
    BY <1>3 DEF Request
  <1> HIDE DEF f, k, ClientFrames
  <1>6. /\ \A d \in Conn \ {c} : call'[d] = call[d]
        /\ call'[c][id] = k /\ \A j \in CallIDs : j # id => call'[c][j] = call[c][j]
    BY <1>3, <1>5
  <1>7. ASSUME NEW cack \in BOOLEAN, cack <=> c \in acked
        PROVE  Acts(call[c], call'[c], id, f, cack)
    <2>1. Follows(call[c][id], k) /\ Expected(f, call'[c])
      BY <1>1, <1>4, <1>5, <1>6 DEF Follows, Expected
    <2>2. ~cack => k.early
      BY <1>4, <1>5, <1>7, NotEarly
    <2> QED BY <1>1, <1>5, <1>6, <2>1, <2>2 DEF Acts, EndsStream, SETTINGS, HEADERS, CallTypes, GOAWAY, CONTINUATION, DATA
  <1> QED BY <1>2, <1>5, <1>6, <1>7, CallOutcome

LEMMA CancelOutcome ==
    ASSUME OutcomeInv, UInv', NEW c \in Conn, NEW id \in CallIDs, Cancel(c, id)
    PROVE  OutcomeInv'
  <1> DEFINE f == ResetFrameOf(id)
             k == [call[c][id] EXCEPT !.phase = "cancelled"]
  <1>1. f \in ClientFrames /\ f.type = RST_STREAM /\ f.streamID = id
    BY FramesTyped DEF ResetFrameOf
  <1>2. call \in [Conn -> [CallIDs -> CallType]]
    BY ClientTypes DEF OutcomeInv, ClientTypeOK
  <1>3. /\ k.phase = "cancelled" /\ k.message = call[c][id].message
        /\ k.path = call[c][id].path /\ k.early = call[c][id].early
    <2>1. call[c][id] \in CallType
      BY <1>2
    <2> QED BY <2>1 DEF CallType
  <1>4. /\ connState[c] # "Deleted" /\ call[c][id].phase \in {"open", "sent"}
        /\ call' = [call EXCEPT ![c][id] = k]
        /\ Transmit(c, <<f>>) /\ UNCHANGED <<vars, acked, received>>
    BY <1>2 DEF Cancel
  <1> HIDE DEF f, k, ClientFrames
  <1>5. /\ \A d \in Conn \ {c} : call'[d] = call[d]
        /\ call'[c][id] = k /\ \A j \in CallIDs : j # id => call'[c][j] = call[c][j]
    BY <1>2, <1>4
  <1>6. ASSUME NEW cack \in BOOLEAN, cack <=> c \in acked
        PROVE  Acts(call[c], call'[c], id, f, cack)
    <2>1. Follows(call[c][id], k) /\ Expected(f, call'[c])
      BY <1>1, <1>3, <1>4, <1>5 DEF Follows, Expected
    <2>2. ~cack => k.early
      BY <1>3, <1>4, <1>6, NotEarly
    <2> QED BY <1>1, <1>4, <1>5, <2>1, <2>2
        DEF Acts, EndsStream, SETTINGS, HEADERS, CallTypes, GOAWAY, CONTINUATION, RST_STREAM
  <1> QED BY <1>1, <1>4, <1>5, <1>6, CallOutcome

LEMMA ServeOutcome ==
    ASSUME OneByte, OutcomeInv, UInv', NEW c \in Conn, Serve(c)
    PROVE  OutcomeInv'
  <1>1. /\ UInv /\ IInv /\ IInv'
        /\ toServer \in [Conn -> Seq(ClientFrames)]
    BY DEF OutcomeInv, UInv
  <1>2. CASE ServePreface(c)
    <2>1. /\ PumpByte(c) /\ connState[c] = "Started" /\ connState'[c] # "Deleted"
          /\ UNCHANGED <<prefaceSettingsAckd, streams, heap, grpcStreams>>
          /\ UNCHANGED <<toServer, acked, call, received>>
      <3>1. connState \in [Conn -> {"Deleted", "Started", "Connected", "Failed",
                            "Undefined"}]
        BY <1>1 DEF IInv, TypeOK, ConnectionTypeOK
      <3> QED BY <1>2, <3>1 DEF ServePreface, PumpByte, PrefaceByte, NoCallback, clientVars
    <2>2. \A d \in Conn \ {c} : ConnInv(d)' /\ DOMAIN received'[d] = ReplyIDs
      BY <1>1, <2>1, PumpByteShape, OthersKept DEF OutcomeInv
    <2>3. ConnInv(c)'
      <3>1. PICK live \in BOOLEAN, cack \in BOOLEAN, sack \in BOOLEAN :
               /\ live <=> connState[c] # "Deleted"
               /\ cack <=> c \in acked
               /\ sack <=> c \in prefaceSettingsAckd
        BY TruthValues
      <3> HIDE DEF ClientFrames
      <3>2. ConnInv(c) <=>
               \E q \in Seq(ClientFrames) :
                  /\ connState[c] # "Failed" => q = toServer[c]
                  /\ ConnState(c, live, q, cack, sack, call[c], received[c], Rows(c))
        BY <3>1, Named
      <3>3. /\ Rows(c)' = Rows(c) /\ (live <=> connState'[c] # "Deleted")
            /\ connState[c] # "Failed" /\ call'[c] = call[c] /\ received'[c] = received[c]
            /\ toServer'[c] = toServer[c] /\ (cack <=> c \in acked')
            /\ sack <=> c \in prefaceSettingsAckd'
        BY <1>1, <2>1, <3>1, SameTables
      <3>4. ConnInv(c)' <=>
               \E q \in Seq(ClientFrames) :
                  /\ connState'[c] # "Failed" => q = toServer'[c]
                  /\ ConnState(c, live, q, cack, sack, call'[c], received'[c], Rows(c)')
        BY <3>1, <3>3, NamedPrimed
      <3>5. ConnInv(c)
        BY DEF OutcomeInv
      <3> QED BY <3>2, <3>3, <3>4, <3>5
    <2>4. DOMAIN received'[c] = ReplyIDs
      BY <2>1 DEF OutcomeInv
    <2> QED BY <2>2, <2>3, <2>4 DEF OutcomeInv
  <1>3. CASE ServeFrame(c)
    <2> DEFINE f == Head(toServer[c])
    <2>1. /\ toServer[c] # <<>> /\ toServer' = [toServer EXCEPT ![c] = Tail(toServer[c])]
          /\ Record /\ UNCHANGED <<acked, call>>
      BY <1>3 DEF ServeFrame
    <2>2. f \in PeerFrames /\ (PumpFrame(c, f) \/ (DiscardByte(c) /\ NoCallback))
      BY <1>1, <1>3, <2>1, NextFrame DEF ServeFrame
    <2>3. Others(c) /\ (written' = <<>> \/ written'[1].to = c)
      <3>1. CASE PumpFrame(c, f)
        BY <1>1, <2>2, <3>1, PumpFrameShape, FirstWrite
      <3>2. CASE DiscardByte(c) /\ NoCallback
        <4>1. /\ UNCHANGED <<connState, prefaceSettingsAckd, streams, heap, grpcStreams>>
              /\ written' = <<>>
          BY <3>2 DEF DiscardByte, NoCallback
        <4> QED BY <1>1, <4>1, SameServer, SameView DEF Others
      <3> QED BY <2>2, <3>1, <3>2
    <2>4. ASSUME NEW d \in Conn, d # c
          PROVE  /\ toServer'[d] = toServer[d] /\ call'[d] = call[d]
                 /\ d \in acked' <=> d \in acked
                 /\ DOMAIN received'[d] = ReplyIDs
                 /\ \A id \in CallIDs : received'[d][id] = received[d][id]
      <3>1. toServer'[d] = toServer[d] /\ call'[d] = call[d] /\ (d \in acked' <=> d \in acked)
        <4> HIDE DEF ClientFrames
        <4> QED BY <1>1, <2>1, <2>4
      <3>2. /\ DOMAIN received'[d] = ReplyIDs
            /\ \A id \in CallIDs : received'[d][id] = received[d][id]
        BY <2>1, <2>3, <2>4, Recorded
      <3> QED BY <3>1, <3>2
    <2>5. \A d \in Conn \ {c} : ConnInv(d)' /\ DOMAIN received'[d] = ReplyIDs
      BY <2>3, <2>4, OthersKept
    <2>6. ConnInv(c)' /\ DOMAIN received'[c] = ReplyIDs
      BY <1>3, <2>1, ServeFrameOwn, Recorded
    <2> QED BY <2>5, <2>6 DEF OutcomeInv
  <1> QED BY <1>2, <1>3 DEF Serve

(* The server learns a method, or nothing happens. *)
LEMMA QuietOutcome ==
    ASSUME OutcomeInv, UInv', UNCHANGED clientVars,
           UNCHANGED <<connState, prefaceSettingsAckd, streams, heap, grpcStreams>>
    PROVE  OutcomeInv'
  <1>1. IInv /\ IInv' /\ UNCHANGED <<toServer, acked, call, received>>
    BY DEF OutcomeInv, UInv, clientVars
  <1>2. \A d \in Conn : View(d)' = View(d)
    BY <1>1, SameServer
  <1>3. \A d \in Conn : ConnInv(d)' /\ DOMAIN received'[d] = ReplyIDs
    BY <1>1, <1>2, ConnKept DEF OutcomeInv
  <1> QED BY <1>3 DEF OutcomeInv

-----------------------------------------------------------------------------
(* The induction.                                                          *)

LEMMA InitOutcome == OneByte /\ UnaryInit => OutcomeInv
  <1> SUFFICES ASSUME OneByte, UnaryInit PROVE OutcomeInv
    OBVIOUS
  <1>1. UInv
    BY InitUInv
  <1>2. ASSUME NEW c \in Conn PROVE ConnInv(c) /\ DOMAIN received[c] = ReplyIDs
    <2>1. /\ connState[c] = "Deleted" /\ toServer[c] = <<>> /\ call[c] = NoCalls
          /\ received[c] = Nothing /\ streams[c] = <<>>
      BY DEF UnaryInit, Init, ConnectionInit
    <2>2. Rows(c) = <<>>
      BY <1>1, <2>1, EmptyRows DEF UInv
    <2>3. PICK live \in BOOLEAN, cack \in BOOLEAN, sack \in BOOLEAN :
             /\ live <=> connState[c] # "Deleted"
             /\ cack <=> c \in acked
             /\ sack <=> c \in prefaceSettingsAckd
      BY TruthValues
    <2>4. \A k \in 1..Len(toServer[c]) : toServer[c][k] = SettingsFrame(0)
      BY <2>1
    <2>5. ConnState(c, live, toServer[c], cack, sack, NoCalls, Nothing, Rows(c))
      BY <2>1, <2>2, <2>3, <2>4, FreshConn
    <2>6. DOMAIN received[c] = ReplyIDs
      BY <2>1 DEF Nothing
    <2>7. toServer[c] \in Seq(ClientFrames)
      BY <1>1 DEF UInv
    <2> HIDE DEF ClientFrames, NoCalls, Nothing
    <2>8. ConnInv(c) <=>
             \E q \in Seq(ClientFrames) :
                /\ connState[c] # "Failed" => q = toServer[c]
                /\ ConnState(c, live, q, cack, sack, call[c], received[c], Rows(c))
      BY <2>3, Named
    <2>9. ConnState(c, live, toServer[c], cack, sack, call[c], received[c], Rows(c))
      BY <2>1, <2>5
    <2> QED BY <2>6, <2>7, <2>8, <2>9, Zenon
  <1> QED BY <1>1, <1>2 DEF OutcomeInv

LEMMA NextOutcome == OneByte /\ WholeRequests /\ OutcomeInv /\ UnaryNext => OutcomeInv'
  <1> SUFFICES ASSUME OneByte, WholeRequests, OutcomeInv, UnaryNext PROVE OutcomeInv'
    OBVIOUS
  <1>1. UInv'
    BY NextUInv DEF OutcomeInv
  <1>2. ASSUME NEW h \in Handlers, Register(h) PROVE OutcomeInv'
    BY <1>1, <1>2, QuietOutcome DEF Register, RegisterUnaryMethod
  <1>3. ASSUME NEW c \in Conn, Connect(c) \/ Leave(c) PROVE OutcomeInv'
    BY <1>1, <1>3, ConnectOutcome
  <1>4. ASSUME NEW c \in Conn, Acknowledge(c) PROVE OutcomeInv'
    BY <1>1, <1>4, AckOutcome
  <1>5. ASSUME NEW c \in Conn, Serve(c) PROVE OutcomeInv'
    BY <1>1, <1>5, ServeOutcome
  <1>6. ASSUME NEW c \in Conn, NEW id \in CallIDs, NEW path \in Names,
               NEW frames \in Blocks(id, path), Open(c, id, path, frames)
        PROVE  OutcomeInv'
    BY <1>1, <1>6, OpenOutcome
  <1>7. ASSUME NEW c \in Conn, NEW id \in CallIDs, NEW message \in Messages,
               NEW lengths \in Segmentations, Request(c, id, message, lengths)
        PROVE  OutcomeInv'
    BY <1>1, <1>7, RequestOutcome
  <1>8. ASSUME NEW c \in Conn, NEW id \in CallIDs, Cancel(c, id) PROVE OutcomeInv'
    BY <1>1, <1>8, CancelOutcome
  <1>9. ASSUME NEW c \in Conn, GoAway(c) PROVE OutcomeInv'
    BY <1>1, <1>9, GoAwayOutcome
  <1> QED BY <1>2, <1>3, <1>4, <1>5, <1>6, <1>7, <1>8, <1>9 DEF UnaryNext

LEMMA StutterOutcome == OutcomeInv /\ UNCHANGED allVars => OutcomeInv'
  <1> SUFFICES ASSUME OutcomeInv, UNCHANGED allVars PROVE OutcomeInv'
    OBVIOUS
  <1>1. UInv'
    BY StutterUInv DEF OutcomeInv
  <1> QED BY <1>1, QuietOutcome DEF allVars, vars, connectionVars

LEMMA OutcomeInvariance ==
    ASSUME OneByte, WholeRequests
    PROVE  UnarySpec => []OutcomeInv
  <1>1. UnaryInit => OutcomeInv
    BY InitOutcome
  <1>2. OutcomeInv /\ [UnaryNext]_allVars => OutcomeInv'
    BY NextOutcome, StutterOutcome
  <1> QED BY <1>1, <1>2, PTL DEF UnarySpec

-----------------------------------------------------------------------------
(* What the invariant says of the properties.                              *)

LEMMA ReplyOf ==
    ASSUME OneByte, OutcomeInv, NEW c \in Conn, NEW id \in ReplyIDs
    PROVE  /\ id \in CallIDs
           /\ \E sack \in BOOLEAN : Reply(c, id, received[c][id], call[c][id], sack)
  <1>1. id \in CallIDs
    BY OwnBytes
  <1>2. PICK live \in BOOLEAN, cack \in BOOLEAN, sack \in BOOLEAN :
           /\ live <=> connState[c] # "Deleted"
           /\ cack <=> c \in acked
           /\ sack <=> c \in prefaceSettingsAckd
    BY TruthValues
  <1>3. \E q : ConnState(c, live, q, cack, sack, call[c], received[c], Rows(c))
    BY <1>2, Named DEF OutcomeInv
  <1>4. Reply(c, id, received[c][id], call[c][id], sack)
    BY <1>1, <1>3 DEF ConnState, ReplyInv
  <1> QED BY <1>1, <1>4

(* A sequence over one value holds nothing else. *)
LEMMA SameFrames ==
    ASSUME NEW x, NEW r \in Seq({x}), NEW i \in 1..Len(r)
    PROVE  r[i] = x
  OBVIOUS

LEMMA FlagsOfReply ==
    ASSUME NEW s, NEW h, NEW message, NEW code
    PROVE  /\ "END_STREAM" \notin ResponseHeaders(s).flags
           /\ ResponseHeaders(s).type # RST_STREAM /\ ResponseHeaders(s).type # DATA
           /\ Trailers(s, code).type # RST_STREAM /\ Trailers(s, code).type # DATA
           /\ LET d == Out(s.frameWriter, DATA, {}, s.id, <<h, message>>)
              IN /\ "END_STREAM" \notin d.flags /\ d.type # RST_STREAM
                 /\ d.content[1] = h /\ d.content[2] = message
  BY DEF ResponseHeaders, Trailers, Out, DATA, HEADERS, RST_STREAM

LEMMA ErrorShape ==
    ASSUME NEW s, NEW code, NEW r, r = WriteResponseError(s, code)
    PROVE  /\ r # <<>> /\ Len(r) = 2
           /\ "END_STREAM" \notin r[1].flags
           /\ \A i \in 1..2 : r[i].type # RST_STREAM /\ r[i].type # DATA
  <1>1. ASSUME NEW x, NEW y
        PROVE  Len(<<x, y>>) = 2 /\ <<x, y>>[1] = x /\ <<x, y>>[2] = y /\ <<x, y>> # <<>>
    OBVIOUS
  <1>2. Len(r) = 2 /\ r[1] = ResponseHeaders(s) /\ r[2] = Trailers(s, code) /\ r # <<>>
    BY <1>1, Zenon DEF WriteResponseError
  <1>3. \A i \in 1..2 : i = 1 \/ i = 2
    BY SMT
  <1>4. /\ "END_STREAM" \notin ResponseHeaders(s).flags
        /\ ResponseHeaders(s).type # RST_STREAM /\ ResponseHeaders(s).type # DATA
        /\ Trailers(s, code).type # RST_STREAM /\ Trailers(s, code).type # DATA
    BY FlagsOfReply
  <1> QED BY <1>2, <1>3, <1>4

LEMMA AnswerShape ==
    ASSUME NEW s, NEW h, NEW message, NEW r, r = WriteResponse(s, h, message)
    PROVE  /\ r # <<>> /\ Len(r) = 3
           /\ "END_STREAM" \notin r[1].flags /\ "END_STREAM" \notin r[2].flags
           /\ \A i \in 1..3 : r[i].type # RST_STREAM
           /\ \A i \in 1..3 : r[i].type = DATA =>
                 r[i].content[1] = h /\ r[i].content[2] = message
  <1> DEFINE d == Out(s.frameWriter, DATA, {}, s.id, <<h, message>>)
  <1>1. ASSUME NEW x, NEW y, NEW z
        PROVE  /\ Len(<<x, y, z>>) = 3 /\ <<x, y, z>> # <<>>
               /\ <<x, y, z>>[1] = x /\ <<x, y, z>>[2] = y /\ <<x, y, z>>[3] = z
    OBVIOUS
  <1>2. Len(r) = 3 /\ r[1] = ResponseHeaders(s) /\ r[2] = d /\ r[3] = Trailers(s, OK)
        /\ r # <<>>
    BY <1>1, Zenon DEF WriteResponse
  <1>3. \A i \in 1..3 : i = 1 \/ i = 2 \/ i = 3
    BY SMT
  <1>4. /\ "END_STREAM" \notin ResponseHeaders(s).flags
        /\ ResponseHeaders(s).type # RST_STREAM /\ ResponseHeaders(s).type # DATA
        /\ Trailers(s, OK).type # RST_STREAM /\ Trailers(s, OK).type # DATA
        /\ "END_STREAM" \notin d.flags /\ d.type # RST_STREAM
        /\ d.content[1] = h /\ d.content[2] = message
    BY FlagsOfReply
  <1> HIDE DEF d
  <1> QED BY <1>2, <1>3, <1>4

LEMMA RefusalShape ==
    ASSUME NEW c, NEW id, NEW r \in Seq({RstStreamFrame(c, id)}), NEW i \in 1..Len(r)
    PROVE  /\ "END_STREAM" \notin r[i].flags
           /\ r[i].type = RST_STREAM /\ r[i].type # DATA
  <1> DEFINE x == RstStreamFrame(c, id)
  <1>1. "END_STREAM" \notin x.flags /\ x.type = RST_STREAM /\ RST_STREAM # DATA
    BY DEF RstStreamFrame, Out, RST_STREAM, DATA
  <1> HIDE DEF x
  <1>2. r[i] = x
    BY SameFrames DEF x
  <1> QED BY <1>1, <1>2

LEMMA EndsOnce ==
    ASSUME NEW c, NEW id, NEW r, NEW k, NEW sack \in BOOLEAN, Reply(c, id, r, k, sack)
    PROVE  /\ \A i \in Ends(r) : i = Len(r)
           /\ Resets(r) # {} => Resets(r) = 1..Len(r)
  <1>1. CASE r = <<>>
    BY <1>1 DEF Ends, Resets
  <1>2. CASE r \in Seq({RstStreamFrame(c, id)})
    BY <1>2, RefusalShape, Zenon DEF Ends, Resets
  <1>3. CASE r = WriteResponseError(Served(c, id), UNIMPLEMENTED)
    <2>1. Len(r) = 2 /\ "END_STREAM" \notin r[1].flags
          /\ \A i \in 1..2 : r[i].type # RST_STREAM
      BY <1>3, ErrorShape
    <2> QED BY <2>1, SMT DEF Ends, Resets
  <1>4. ASSUME NEW h, r = WriteResponse(Served(c, id), h, k.message)
        PROVE  /\ \A i \in Ends(r) : i = Len(r)
               /\ Resets(r) # {} => Resets(r) = 1..Len(r)
    <2>1. Len(r) = 3 /\ "END_STREAM" \notin r[1].flags /\ "END_STREAM" \notin r[2].flags
          /\ \A i \in 1..3 : r[i].type # RST_STREAM
      BY <1>4, AnswerShape
    <2> QED BY <2>1, SMT DEF Ends, Resets
  <1> QED BY <1>1, <1>2, <1>3, <1>4 DEF Reply

LEMMA AnswersItsCall ==
    ASSUME NEW c, NEW id, NEW r, NEW k, NEW sack \in BOOLEAN, Reply(c, id, r, k, sack)
    PROVE  /\ r # <<>> => k.phase # "idle"
           /\ \A i \in 1..Len(r) : r[i].type = DATA =>
                 /\ k.phase \in {"sent", "cancelled"}
                 /\ NameOf[r[i].content[1]] = k.path
                 /\ r[i].content[2] = k.message
  <1>1. CASE r = <<>>
    BY <1>1
  <1>2. CASE k.phase # "idle" /\ r \in Seq({RstStreamFrame(c, id)})
    BY <1>2, RefusalShape, Zenon
  <1>3. CASE k.phase # "idle" /\ r = WriteResponseError(Served(c, id), UNIMPLEMENTED)
    <2>1. Len(r) = 2 /\ \A i \in 1..2 : r[i].type # DATA
      BY <1>3, ErrorShape
    <2> QED BY <1>3, <2>1
  <1>4. ASSUME NEW h \in Handlers, k.phase \in {"sent", "cancelled"}, NameOf[h] = k.path,
               r = WriteResponse(Served(c, id), h, k.message)
        PROVE  /\ r # <<>> => k.phase # "idle"
               /\ \A i \in 1..Len(r) : r[i].type = DATA =>
                     /\ k.phase \in {"sent", "cancelled"}
                     /\ NameOf[r[i].content[1]] = k.path
                     /\ r[i].content[2] = k.message
    <2>1. Len(r) = 3
          /\ \A i \in 1..3 : r[i].type = DATA =>
                r[i].content[1] = h /\ r[i].content[2] = k.message
      BY <1>4, AnswerShape
    <2>2. k.phase # "idle"
      BY <1>4
    <2> QED BY <1>4, <2>1, <2>2, Zenon
  <1> QED BY <1>1, <1>2, <1>3, <1>4 DEF Reply

LEMMA RowsMatchCalls ==
    ASSUME OutcomeInv, NEW c \in Conn, connState[c] # "Failed",
           NEW i \in 1..Len(streams[c])
    PROVE  LET id == heap[streams[c][i]].id
           IN /\ \/ call[c][id].phase = "open"
                 \/ \E k \in 1..Len(toServer[c]) : EndsStream(toServer[c][k], id)
              /\ \A j \in 1..Len(streams[c]) : heap[streams[c][j]].id = id => i = j
  <1> DEFINE id == heap[streams[c][i]].id
             T == Rows(c)
  <1>1. PICK live \in BOOLEAN, cack \in BOOLEAN, sack \in BOOLEAN :
           /\ live <=> connState[c] # "Deleted"
           /\ cack <=> c \in acked
           /\ sack <=> c \in prefaceSettingsAckd
    BY TruthValues
  <1>2. TableInv(T, call[c], received[c]) /\ EndInv(toServer[c], call[c], T)
    <2>1. \E q : /\ q = toServer[c]
                 /\ ConnState(c, live, q, cack, sack, call[c], received[c], Rows(c))
      BY <1>1, Named DEF OutcomeInv
    <2> QED BY <2>1 DEF ConnState
  <1>3. IInv
    BY DEF OutcomeInv, UInv
  <1>4. /\ Len(T) = Len(streams[c])
        /\ \A j \in 1..Len(streams[c]) : T[j][1] = heap[streams[c][j]]
    <2>1. T = [j \in 1..Len(streams[c]) |->
                  <<heap[streams[c][j]], HandlerIn(grpcStreams, streams[c][j])>>]
      BY <1>3, RowsAre
    <2>2. Len(T) = Len(streams[c])
      BY <1>3, GetStreamRow
    <2>3. ASSUME NEW j \in 1..Len(streams[c]) PROVE T[j][1] = heap[streams[c][j]]
      <3> HIDE DEF T
      <3>1. T[j] = <<heap[streams[c][j]], HandlerIn(grpcStreams, streams[c][j])>>
        BY <2>1
      <3> QED BY <3>1
    <2> QED BY <2>2, <2>3
  <1> HIDE DEF T
  <1>5. id \in CallIDs /\ T[i][1].id = id
    BY <1>2, <1>4 DEF TableInv
  <1>6. \/ call[c][id].phase = "open"
        \/ \E k \in 1..Len(toServer[c]) : EndsStream(toServer[c][k], id)
    BY <1>2, <1>4, <1>5, Zenon DEF EndInv
  <1>7. \A j \in 1..Len(streams[c]) : heap[streams[c][j]].id = id => i = j
    <2> SUFFICES ASSUME NEW j \in 1..Len(streams[c]), heap[streams[c][j]].id = id
                 PROVE  i = j
      OBVIOUS
    <2>1. T[j][1].id = T[i][1].id /\ i \in 1..Len(T) /\ j \in 1..Len(T)
      BY <1>4, <1>5
    <2> QED BY <1>2, <2>1 DEF TableInv
  <1> QED BY <1>6, <1>7

-----------------------------------------------------------------------------
(* The theorems.                                                           *)

(* However calls, connections and the acknowledgement interleave, a client *)
(* finds at most one end on a stream: an answer or an error closed by its  *)
(* trailers, or refusals and nothing else.                                 *)
THEOREM OneOutcomePerCall ==
    ASSUME OneByte, WholeRequests
    PROVE  UnarySpec => []OneOutcome
  <1>1. OutcomeInv => OneOutcome
    BY ReplyOf, EndsOnce DEF OneOutcome
  <1> QED BY <1>1, OutcomeInvariance, PTL

(* An answer is to the request of its own stream, by a handler of the      *)
(* method that the call named, whatever else the server's tables hold.     *)
THEOREM AnswersMatchRequests ==
    ASSUME OneByte, WholeRequests
    PROVE  UnarySpec => []AnswerMatchesRequest
  <1>1. OutcomeInv => AnswerMatchesRequest
    BY ReplyOf, AnswersItsCall DEF AnswerMatchesRequest
  <1> QED BY <1>1, OutcomeInvariance, PTL

(* The table of streams holds, once each, calls whose end is still to come, *)
(* so finished, refused and cancelled calls leave no stream behind.         *)
THEOREM TablesMatchCalls ==
    ASSUME OneByte, WholeRequests
    PROVE  UnarySpec => []TableMatchesCalls
  <1>1. OutcomeInv => TableMatchesCalls
    BY RowsMatchCalls DEF TableMatchesCalls
  <1> QED BY <1>1, OutcomeInvariance, PTL

-----------------------------------------------------------------------------
(***************************************************************************)
(* Frames, streams, queues and tables implement UnaryCall: what a client   *)
(* sees of its calls is what that specification says of them.              *)
(***************************************************************************)

(* The variables of UnaryCall that are not those of UnaryClient. *)
Ended == [c \in Conn |-> [id \in CallIDs |-> Outcome(received[c][U8(id)])]]
Methods == {NameOf[h] : h \in ToSet(unaryMethods)}

-----------------------------------------------------------------------------
(* What a client makes of what it receives.                                *)

LEMMA OutcomeOfRefusals ==
    ASSUME NEW c, NEW id, NEW r \in Seq({RstStreamFrame(c, id)}), r # <<>>
    PROVE  Outcome(r) = <<"refused">>
  <1>1. \A i \in 1..Len(r) : r[i].type = RST_STREAM
    BY RefusalShape
  <1> QED BY <1>1 DEF Outcome

LEMMA OutcomeOfError ==
    ASSUME NEW s
    PROVE  Outcome(WriteResponseError(s, UNIMPLEMENTED)) = <<"unimplemented">>
  <1> DEFINE x == ResponseHeaders(s)
             y == Trailers(s, UNIMPLEMENTED)
             r == <<x, y>>
  <1>1. WriteResponseError(s, UNIMPLEMENTED) = r
    BY Zenon DEF WriteResponseError
  <1>2. /\ x.type = HEADERS /\ x.flags = {"END_HEADERS"} /\ HEADERS # RST_STREAM
        /\ y.content = <<"grpc-status", UNIMPLEMENTED>> /\ "END_STREAM" \in y.flags
    BY DEF ResponseHeaders, Trailers, Out, HEADERS, RST_STREAM
  <1> HIDE DEF x, y
  <1>3. r # <<>> /\ Len(r) = 2 /\ r[1] = x /\ r[2] = y /\ 1 \in 1..Len(r)
    OBVIOUS
  <1> HIDE DEF r
  <1>4. ~\A i \in 1..Len(r) : r[i].type = RST_STREAM
    BY <1>2, <1>3
  <1>5. /\ Len(r) = 2 /\ r[1].type = HEADERS /\ r[1].flags = {"END_HEADERS"}
        /\ r[2].content = <<"grpc-status", UNIMPLEMENTED>> /\ "END_STREAM" \in r[2].flags
    BY <1>2, <1>3
  <1>6. Outcome(r) = <<"unimplemented">>
    BY <1>3, <1>4, <1>5 DEF Outcome
  <1> QED BY <1>1, <1>6

LEMMA OutcomeOfAnswer ==
    ASSUME NEW s, NEW h, NEW m
    PROVE  Outcome(WriteResponse(s, h, m)) = <<"answer", NameOf[h], m>>
  <1> DEFINE x == ResponseHeaders(s)
             d == Out(s.frameWriter, DATA, {}, s.id, <<h, m>>)
             y == Trailers(s, OK)
             r == <<x, d, y>>
  <1>1. WriteResponse(s, h, m) = r
    BY Zenon DEF WriteResponse
  <1>2. /\ x.type = HEADERS /\ x.flags = {"END_HEADERS"} /\ HEADERS # RST_STREAM
        /\ y.content = <<"grpc-status", OK>> /\ "END_STREAM" \in y.flags
        /\ d.type = DATA /\ d.flags = {} /\ d.content = <<h, m>>
    BY DEF ResponseHeaders, Trailers, Out, HEADERS, RST_STREAM
  <1> HIDE DEF x, y, d
  <1>3. r # <<>> /\ Len(r) = 3 /\ r[1] = x /\ r[2] = d /\ r[3] = y /\ 1 \in 1..Len(r)
    OBVIOUS
  <1> HIDE DEF r
  <1>4. ~\A i \in 1..Len(r) : r[i].type = RST_STREAM
    BY <1>2, <1>3
  <1>5. /\ r[1].type = HEADERS /\ r[2].type = DATA
        /\ r[1].flags = {"END_HEADERS"} /\ r[2].flags = {}
        /\ r[3].content = <<"grpc-status", OK>>
        /\ "END_STREAM" \in r[3].flags
    BY <1>2, <1>3
  <1>6. r[2].content[1] = h /\ r[2].content[2] = m
    <2>1. ASSUME NEW z, z = <<h, m>> PROVE z[1] = h /\ z[2] = m
      BY <2>1
    <2> QED BY <1>2, <1>3, <2>1
  <1>7. Outcome(r) = <<"answer", NameOf[r[2].content[1]], r[2].content[2]>>
    BY <1>3, <1>4, <1>5 DEF Outcome
  <1> QED BY <1>1, <1>6, <1>7

LEMMA EndedAt ==
    ASSUME OneByte, NEW c \in Conn, NEW id \in CallIDs
    PROVE  Ended[c][id] = Outcome(received[c][id]) /\ Ended[c][id]' = Outcome(received'[c][id])
  BY OwnBytes, Zenon DEF Ended

(* What is received on one call at most changes how calls have ended. *)
LEMMA OneEnds ==
    ASSUME OneByte, NEW c \in Conn, NEW id \in CallIDs,
           \A d \in Conn, j \in CallIDs :
              d # c \/ j # id => received'[d][j] = received[d][j]
    PROVE  Ended' = [Ended EXCEPT ![c][id] = Outcome(received'[c][id])]
  <1> DEFINE e == Outcome(received'[c][id])
  <1>1. Ended' = [d \in Conn |-> [j \in CallIDs |-> Outcome(received'[d][j])]]
    BY OwnBytes, Zenon DEF Ended
  <1>2. Ended = [d \in Conn |-> [j \in CallIDs |-> Outcome(received[d][j])]]
    BY OwnBytes, Zenon DEF Ended
  <1> HIDE DEF e
  <1>3. Ended'[c] = [Ended[c] EXCEPT ![id] = e]
    <2>1. Ended[c] = [j \in CallIDs |-> Outcome(received[c][j])]
      BY <1>2
    <2>2. Ended'[c] = [j \in CallIDs |-> IF j = id THEN e ELSE Outcome(received[c][j])]
      <3>1. Ended'[c] = [j \in CallIDs |-> Outcome(received'[c][j])]
        BY <1>1
      <3>2. \A j \in CallIDs : Outcome(received'[c][j]) =
               IF j = id THEN e ELSE Outcome(received[c][j])
        BY DEF e
      <3> QED BY <3>1, <3>2
    <2> QED BY <2>1, <2>2
  <1>4. \A d \in Conn : d # c => Ended'[d] = Ended[d]
    <2> SUFFICES ASSUME NEW d \in Conn, d # c PROVE Ended'[d] = Ended[d]
      OBVIOUS
    <2>1. \A j \in CallIDs : Outcome(received'[d][j]) = Outcome(received[d][j])
      OBVIOUS
    <2>2. /\ Ended'[d] = [j \in CallIDs |-> Outcome(received'[d][j])]
          /\ Ended[d] = [j \in CallIDs |-> Outcome(received[d][j])]
      BY <1>1, <1>2
    <2> QED BY <2>1, <2>2
  <1>5. /\ Ended' = [d \in Conn |-> Ended'[d]]
        /\ Ended = [d \in Conn |-> Ended[d]]
    BY <1>1, <1>2
  <1>6. Ended' = [Ended EXCEPT ![c] = [Ended[c] EXCEPT ![id] = e]]
    <2>1. ASSUME NEW S, NEW F, NEW G, NEW a \in S, NEW v,
                 F = [x \in S |-> F[x]], G = [x \in S |-> G[x]],
                 G[a] = v, \A x \in S : x # a => G[x] = F[x]
          PROVE  G = [F EXCEPT ![a] = v]
      BY <2>1
    <2> QED BY <1>3, <1>4, <1>5, <2>1
  <1> QED BY <1>6 DEF e

-----------------------------------------------------------------------------
(* What the server writes, and for which calls.                            *)

(* A method is unknown exactly when nobody has registered its name. *)
LEMMA UnknownMethod ==
    ASSUME IInv, NEW path, FindMethod(path) = Null
    PROVE  path \notin Methods
  <1> DEFINE I == {i \in 1..Len(unaryMethods) : NameOf[unaryMethods[i]] = path}
  <1>1. unaryMethods \in Seq(Handlers)
    BY DEF IInv, TypeOK
  <1>2. I = {}
    <2> SUFFICES ASSUME I # {} PROVE FALSE
      OBVIOUS
    <2>1. FindMethod(path) = unaryMethods[FirstIndex(I)]
      BY DEF FindMethod
    <2>2. I \subseteq Nat
      BY <1>1
    <2>3. FirstIndex(I) \in 1..Len(unaryMethods)
      BY <2>2, FirstIndexIn
    <2> QED BY <1>1, <2>1, <2>3, HandlersAssumption
  <1>3. ASSUME NEW h \in ToSet(unaryMethods) PROVE NameOf[h] # path
    <2>1. PICK i \in 1..Len(unaryMethods) : h = unaryMethods[i]
      BY <1>1 DEF ToSet
    <2> QED BY <1>2, <2>1
  <1> QED BY <1>3 DEF Methods

(* A request is answered by a registered handler. *)
LEMMA AnsweredBy ==
    ASSUME IInv, NEW c \in Conn, NEW id, NEW message, NEW length,
           StreamData(GetStream(c, id), message, length), written' # <<>>
    PROVE  \E n \in 1..Len(Rows(c)) :
              /\ Rows(c)[n][1].id = id
              /\ Rows(c)[n][2] \in Handlers /\ Rows(c)[n][2] \in ToSet(unaryMethods)
              /\ written' = WriteResponse(Served(c, id), Rows(c)[n][2], message)
  <1> DEFINE a == GetStream(c, id)
             g == grpcStreams
             k == FindStream(a)
  <1>1. g \in CallVectors /\ OneCallEach(g)
    BY DEF IInv, TypeOK, CallsLive, CallVectors, OneCallEach
  <1>2. k # 0 /\ written' = WriteResponse(heap[g[k].stream], g[k].handler, message)
    BY DEF StreamData
  <1>3. k \in 1..Len(g) /\ g[k].stream = a
    BY <1>2, FindStreamFacts
  <1>4. g[k].stream \in Addr /\ g[k].handler \in Handlers
    BY <1>1, <1>3, GRPCStreamType DEF CallVectors
  <1>5. g[k].handler \in ToSet(unaryMethods)
    BY <1>3 DEF IInv, CallsLive
  <1>6. HandlerIn(g, a) = g[k].handler
    BY <1>1, <1>3, HandlerFacts
  <1>7. a # Null
    BY <1>3, <1>4, NullAssumption
  <1>8. PICK n \in 1..Len(Rows(c)) :
           /\ Rows(c)[n][1] = Served(c, id) /\ Rows(c)[n][1] = heap[a]
           /\ Rows(c)[n][2] = HandlerIn(g, a)
    BY <1>7, GetStreamRow
  <1>9. Served(c, id).id = id
    BY DEF Served
  <1> HIDE DEF k, a, g
  <1> QED BY <1>2, <1>3, <1>4, <1>5, <1>6, <1>8, <1>9

(* How the frame f ends the call k of stream id on connection c, if at all. *)
Refuses(c, id, k) ==
    /\ k.phase # "idle" /\ k.early
    /\ received[c][id] \in Seq({RstStreamFrame(c, id)})
    /\ received'[c][id] = received[c][id] \o <<RstStreamFrame(c, id)>>

Denies(c, id, k) ==
    /\ k.phase # "idle" /\ ~k.early /\ k.path \notin Methods
    /\ received[c][id] = <<>>
    /\ received'[c][id] = WriteResponseError(Served(c, id), UNIMPLEMENTED)

Answers(c, id, k) ==
    /\ k.phase # "idle" /\ ~k.early /\ k.path \in Methods /\ k.message \in Messages
    /\ received[c][id] = <<>>
    /\ \E h : /\ NameOf[h] = k.path
              /\ received'[c][id] = WriteResponse(Served(c, id), h, k.message)

(* Nothing is received, or one call is told how it ends. *)
Told(c) ==
    \/ \A id \in CallIDs : received'[c][id] = received[c][id]
    \/ \E id \in CallIDs :
          /\ \A j \in CallIDs : j # id => received'[c][j] = received[c][j]
          /\ \/ Refuses(c, id, call[c][id])
             \/ Denies(c, id, call[c][id])
             \/ Answers(c, id, call[c][id])

LEMMA FrameRead ==
    ASSUME OneByte, OutcomeInv, UInv', NEW c \in Conn, ServeFrame(c),
           PumpFrame(c, Head(toServer[c])), Readable(Head(toServer[c]))
    PROVE  Told(c)
  <1> DEFINE q == toServer[c]
             f == Head(q)
             id0 == f.streamID
             calls == call[c]
             recv == received[c]
             recv2 == received'[c]
             T == Rows(c)
  <1> USE DEF Told
  <1>1. /\ UInv /\ IInv /\ IInv' /\ ConnInv(c)
        /\ q \in Seq(ClientFrames)
    BY DEF OutcomeInv, UInv
  <1>2. q # <<>> /\ Record
    BY DEF ServeFrame
  <1>3. /\ f \in PeerFrames /\ Readable(f) /\ id0 \in IDs
        /\ f.type = SETTINGS => f.sixes
    <2>1. f \in PeerFrames /\ Readable(f) /\ (f.type = SETTINGS => f.sixes)
      BY <1>1, <1>2, NextFrame
    <2> QED BY <2>1 DEF PeerFrames
  <1>4. PumpFrame(c, f) /\ connState[c] # "Failed"
    BY <1>3 DEF PumpFrame, DropFrame, Settings, Ping, IgnoredFrame, Headers, Data,
       RstStream, Dispatched
  <1>5. PICK live \in BOOLEAN, cack \in BOOLEAN, sack \in BOOLEAN :
           /\ live <=> connState[c] # "Deleted"
           /\ cack <=> c \in acked
           /\ sack <=> c \in prefaceSettingsAckd
    BY TruthValues
  <1>6. ConnState(c, live, q, cack, sack, calls, recv, T)
    <2> HIDE DEF f, ClientFrames
    <2>1. ConnInv(c) <=>
             \E g \in Seq(ClientFrames) :
                /\ connState[c] # "Failed" => g = toServer[c]
                /\ ConnState(c, live, g, cack, sack, call[c], received[c], Rows(c))
      BY <1>5, Named
    <2>2. \E g \in Seq(ClientFrames) :
             /\ connState[c] # "Failed" => g = toServer[c]
             /\ ConnState(c, live, g, cack, sack, call[c], received[c], Rows(c))
      BY <1>1, <2>1
    <2> QED BY <1>4, <2>2
  <1>7. Expected(f, calls)
    BY <1>1, <1>2, <1>6, PopQueue DEF ConnState
  <1>14. /\ f.type \in {SETTINGS, HEADERS, DATA, RST_STREAM}
         /\ f.type # SETTINGS => f.type \in CallTypes
    BY <1>3, <1>7 DEF Expected, Readable, CallTypes
  <1>8. f.type # SETTINGS => id0 \in CallIDs \cup {0} /\ id0 \in CallIDs
    BY <1>3, <1>7 DEF Expected, Readable, SETTINGS, GOAWAY
  <1>9. CASE f.type = SETTINGS
    <2>1. Settings(c, id0, f.flag = 1) /\ NoCallback
      BY <1>3, <1>4, <1>9 DEF PumpFrame, SETTINGS, PING, PRIORITY, WINDOW_UPDATE, HEADERS,
         DATA, RST_STREAM
    <2>2. id0 = 0
      BY <1>7, <1>9 DEF Expected, SETTINGS, HEADERS, DATA, RST_STREAM,
       GOAWAY, CONTINUATION
    <2>3. /\ \/ written' = <<>>
             \/ written' = <<Out(c, SETTINGS, {"ACK"}, 0, <<>>)>>
          /\ Out(c, SETTINGS, {"ACK"}, 0, <<>>).to = c
          /\ Out(c, SETTINGS, {"ACK"}, 0, <<>>).streamID = U8(0)
      BY <2>1, <2>2 DEF Settings, Out
    <2>4. ASSUME NEW x PROVE <<x>>[1] = x
      OBVIOUS
    <2>5. written' = <<>> \/ (written'[1].to = c /\ written'[1].streamID = U8(0))
      BY <2>3, <2>4, Zenon
    <2>6. 0 \notin CallIDs
      BY CallIDsAssumption
    <2>7. \A id \in CallIDs : recv2[id] = recv[id]
      BY <1>2, <2>5, <2>6, RecordedOne
    <2> QED BY <2>7
  <1>10. CASE f.type # SETTINGS /\ DropFrame(c, id0) /\ NoCallback
    <2>1. ~sack /\ written' = <<RstStreamFrame(c, id0)>>
      BY <1>5, <1>10 DEF DropFrame
    <2>2. /\ written' # <<>> /\ written'[1].to = c /\ written'[1].streamID = U8(id0)
      <3>1. RstStreamFrame(c, id0).to = c /\ RstStreamFrame(c, id0).streamID = U8(id0)
        BY DEF RstStreamFrame, Out
      <3>2. ASSUME NEW x PROVE <<x>>[1] = x /\ <<x>> # <<>>
        OBVIOUS
      <3> QED BY <2>1, <3>1, <3>2, Zenon
    <2>3. \A id \in CallIDs : recv2[id] = IF id = id0 THEN recv[id] \o written' ELSE recv[id]
      BY <1>1, <1>2, <1>8, <1>10, <2>2, RecordedOne
    <2>4. calls[id0].phase # "idle"
      BY <1>7, <1>10, <1>14 DEF Expected, CallTypes, HEADERS, DATA, RST_STREAM, SETTINGS,
         GOAWAY, CONTINUATION
    <2>5. calls[id0].early
      <3>1. Len(q) \in Nat /\ Len(q) # 0 /\ f = q[1]
        <4> HIDE DEF ClientFrames
        <4> QED BY <1>1, <1>2, Positions
      <3>2. 1 \in 1..Len(q) /\ ~\E j \in 1..(1 - 1) : IsAck(q[j])
        BY <3>1
      <3>3. q[1].type \in CallTypes /\ q[1].streamID = id0
        BY <1>10, <1>14, <3>1
      <3> HIDE DEF q, calls
      <3> QED BY <1>6, <2>1, <3>2, <3>3 DEF ConnState, EarlyBefore
    <2>6. Reply(c, id0, recv[id0], calls[id0], sack)
      BY <1>6, <1>8, <1>10 DEF ConnState, ReplyInv
    <2>7. recv[id0] \in Seq({RstStreamFrame(c, id0)})
      <3>1. ASSUME NEW S PROVE <<>> \in Seq(S)
        OBVIOUS
      <3> QED BY <2>5, <2>6, <3>1, Zenon DEF Reply
    <2>8. Refuses(c, id0, calls[id0])
      BY <1>8, <1>10, <2>1, <2>3, <2>4, <2>5, <2>7, Zenon DEF Refuses
    <2> QED BY <1>8, <1>10, <2>3, <2>8, Zenon
  <1>11. CASE f.type = HEADERS /\ Headers(c, id0, f.path)
    <2> DEFINE h == FindMethod(f.path)
               e == WriteResponseError(Served(c, id0), UNIMPLEMENTED)
    <2>1. /\ id0 \in CallIDs /\ f.path \in Names
          /\ calls[id0].phase # "idle" /\ f.path = calls[id0].path
      BY <1>7, <1>11 DEF Expected, SETTINGS, HEADERS, DATA, RST_STREAM,
       GOAWAY, CONTINUATION
    <2>2. written' = (IF h = Null THEN e ELSE <<>>) /\ sack
      BY <1>1, <1>3, <1>5, <1>11, <2>1, HeadersRows
    <2>3. e # <<>> /\ e[1].to = c /\ e[1].streamID = U8(id0)
      BY FirstFrames
    <2>4. \A id \in CallIDs : recv2[id] =
             IF id = id0 /\ written' # <<>> THEN recv[id] \o written' ELSE recv[id]
      <3> HIDE DEF h, e
      <3>1. written' = <<>> \/ (written'[1].to = c /\ written'[1].streamID = U8(id0))
        BY <2>2, <2>3
      <3> QED BY <1>2, <2>1, <3>1, RecordedOne
    <2>5. CASE h # Null
      BY <2>2, <2>4, <2>5
    <2>6. CASE h = Null
      <3>1. q[1].type = HEADERS /\ q[1].streamID = id0 /\ 1 \in 1..Len(q)
        <4>1. Len(q) \in Nat /\ Len(q) # 0 /\ f = q[1]
          <5> HIDE DEF ClientFrames
          <5> QED BY <1>1, <1>2, Positions
        <4> QED BY <1>11, <4>1
      <3> HIDE DEF q
      <3>2. recv[id0] = <<>>
        BY <1>6, <3>1 DEF ConnState, HeadInv
      <3>3. ~calls[id0].early
        <4> HIDE DEF calls
        <4> QED BY <1>6, <2>2, <3>1, <1>11 DEF ConnState, EarlyBefore, SETTINGS, HEADERS, CallTypes, GOAWAY, CONTINUATION
      <3>4. calls[id0].path \notin Methods
        BY <1>1, <2>1, <2>6, UnknownMethod
      <3>5. recv2[id0] = e
        <4>1. ASSUME NEW x, NEW y PROVE <<>> \o <<x, y>> = <<x, y>>
          OBVIOUS
        <4>2. <<>> \o e = e
          BY <4>1, Zenon DEF WriteResponseError
        <4> HIDE DEF e, h
        <4> QED BY <2>1, <2>2, <2>3, <2>4, <2>6, <3>2, <4>2
      <3>6. Denies(c, id0, calls[id0])
        BY <2>1, <3>2, <3>3, <3>4, <3>5, Zenon DEF Denies
      <3> QED BY <2>1, <2>4, <3>6, Zenon
    <2> QED BY <2>5, <2>6
  <1>12. CASE f.type = DATA /\ Data(c, id0, f.message, f.length, f.flag = 1)
    <2>1. /\ id0 \in CallIDs /\ f.message = calls[id0].message /\ calls[id0].phase # "idle"
      BY <1>7, <1>12 DEF Expected, SETTINGS, HEADERS, DATA, RST_STREAM,
       GOAWAY, CONTINUATION
    <2>2. f.message \in Messages
      BY <1>3, <1>12 DEF PeerFrames, SETTINGS, HEADERS, DATA, RST_STREAM, PING, PRIORITY,
         WINDOW_UPDATE, PUSH_PROMISE, GOAWAY, CONTINUATION
    <2>3. StreamData(GetStream(c, id0), f.message, f.length)
      BY <1>12 DEF Data
    <2>4. CASE written' = <<>>
      BY <1>2, <2>1, <2>4, RecordedOne
    <2>5. CASE written' # <<>>
      <3>1. PICK n \in 1..Len(T) :
               /\ T[n][1].id = id0 /\ T[n][2] \in Handlers /\ T[n][2] \in ToSet(unaryMethods)
               /\ written' = WriteResponse(Served(c, id0), T[n][2], f.message)
        BY <1>1, <2>3, <2>5, AnsweredBy
      <3> DEFINE h == T[n][2]
      <3>2. written'[1].to = c /\ written'[1].streamID = U8(id0)
        BY <3>1, FirstFrames
      <3>3. \A id \in CallIDs : recv2[id] = IF id = id0 THEN recv[id] \o written' ELSE recv[id]
        BY <1>2, <2>1, <2>5, <3>2, RecordedOne
      <3>4. /\ ~calls[id0].early
            /\ NameOf[h] = calls[id0].path /\ recv[id0] = <<>>
        <4>1. h # Null
          BY <3>1, HandlersAssumption
        <4> HIDE DEF q, calls, recv, T
        <4> QED BY <1>6, <3>1, <4>1 DEF ConnState, TableInv
      <3>5. calls[id0].path \in Methods
        BY <3>1, <3>4 DEF Methods
      <3>6. recv2[id0] = WriteResponse(Served(c, id0), h, calls[id0].message)
        <4>1. ASSUME NEW x, NEW y, NEW z PROVE <<>> \o <<x, y, z>> = <<x, y, z>>
          OBVIOUS
        <4>2. <<>> \o WriteResponse(Served(c, id0), h, f.message)
                 = WriteResponse(Served(c, id0), h, f.message)
          BY <4>1, Zenon DEF WriteResponse
        <4> HIDE DEF h, T, q, recv, recv2, calls
        <4>3. written' = WriteResponse(Served(c, id0), h, f.message)
          BY <3>1 DEF h
        <4> QED BY <2>1, <3>3, <3>4, <4>2, <4>3
      <3>7. Answers(c, id0, calls[id0])
        BY <2>1, <2>2, <3>4, <3>5, <3>6, Zenon DEF Answers
      <3> QED BY <2>1, <3>3, <3>7, Zenon
    <2> QED BY <2>4, <2>5
  <1>13. CASE f.type = RST_STREAM /\ RstStream(c, id0)
    <2>1. id0 \in CallIDs \cup {0} /\ written' = <<>>
      BY <1>8, <1>13 DEF RstStream, RST_STREAM, SETTINGS
    <2> QED BY <1>2, <2>1, RecordedOne
  <1> QED BY <1>3, <1>4, <1>9, <1>10, <1>11, <1>12, <1>13, <1>14 DEF PumpFrame, SETTINGS,
          PING, PRIORITY, WINDOW_UPDATE, HEADERS, DATA, RST_STREAM

LEMMA FrameServed ==
    ASSUME OneByte, OutcomeInv, UInv', NEW c \in Conn, ServeFrame(c)
    PROVE  Told(c)
  <1>1. ASSUME written' = <<>> PROVE Told(c)
    <2>1. IInv /\ Record
      BY DEF OutcomeInv, UInv, ServeFrame
    <2>2. 0 \in IDs /\ 0 \notin CallIDs
      BY CallIDsAssumption
    <2>3. \A id \in CallIDs : received'[c][id] = received[c][id]
      BY <1>1, <2>1, <2>2, RecordedOne
    <2> QED BY <2>3 DEF Told
  <1>2. CASE PumpFrame(c, Head(toServer[c]))
    <2>1. CASE Readable(Head(toServer[c]))
      BY <1>2, <2>1, FrameRead
    <2>2. CASE ~Readable(Head(toServer[c]))
      BY <1>1, <1>2, <2>2 DEF PumpFrame, UnreadableFrame
    <2> QED BY <2>1, <2>2
  <1>3. CASE DiscardByte(c)
    BY <1>1, <1>3 DEF DiscardByte
  <1> QED BY <1>2, <1>3 DEF ServeFrame

-----------------------------------------------------------------------------
(* Each step is a step of UnaryCall, or none.                              *)

LEMMA CallsVars ==
    UNCHANGED <<acked, call, Ended, Methods>> => UNCHANGED Calls!vars
  BY DEF Calls!vars, Ended, Methods

LEMMA FrameEnds ==
    ASSUME OneByte, OutcomeInv, UInv', NEW c \in Conn, ServeFrame(c)
    PROVE  Calls!Next \/ UNCHANGED Calls!vars
  <1>1. /\ UInv /\ IInv /\ UNCHANGED <<acked, call, unaryMethods>> /\ Record
        /\ toServer[c] # <<>>
    BY DEF OutcomeInv, UInv, ServeFrame, DiscardByte, PumpFrame
  <1>2. UNCHANGED Methods
    BY <1>1 DEF Methods
  <1>3. ASSUME NEW d \in Conn, d # c
        PROVE  \A id \in CallIDs : received'[d][id] = received[d][id]
    <2>1. Head(toServer[c]) \in PeerFrames
      BY <1>1, NextFrame
    <2>2. written' = <<>> \/ written'[1].to = c
      <3>1. CASE PumpFrame(c, Head(toServer[c]))
        BY <1>1, <2>1, <3>1, FirstWrite
      <3>2. CASE DiscardByte(c)
        BY <3>2 DEF DiscardByte
      <3> QED BY <3>1, <3>2 DEF ServeFrame
    <2> QED BY <1>1, <1>3, <2>2, Recorded
  <1>4. CASE \A id \in CallIDs : received'[c][id] = received[c][id]
    <2>1. \A d \in Conn, j \in CallIDs : Outcome(received'[d][U8(j)]) = Outcome(received[d][U8(j)])
      BY <1>3, <1>4, OwnBytes
    <2>2. UNCHANGED Ended
      BY <2>1, Zenon DEF Ended
    <2> QED BY <1>1, <1>2, <2>2, CallsVars
  <1>5. CASE \E id \in CallIDs :
                 /\ \A j \in CallIDs : j # id => received'[c][j] = received[c][j]
                 /\ \/ Refuses(c, id, call[c][id])
                    \/ Denies(c, id, call[c][id])
                    \/ Answers(c, id, call[c][id])
    <2>1. PICK id \in CallIDs :
             /\ \A j \in CallIDs : j # id => received'[c][j] = received[c][j]
             /\ \/ Refuses(c, id, call[c][id])
                \/ Denies(c, id, call[c][id])
                \/ Answers(c, id, call[c][id])
      BY <1>5
    <2> DEFINE k == call[c][id]
               e == Outcome(received'[c][id])
    <2>2. \A d \in Conn, j \in CallIDs : d # c \/ j # id => received'[d][j] = received[d][j]
      BY <1>3, <2>1
    <2>3. Ended' = [Ended EXCEPT ![c][id] = e]
      BY <2>2, OneEnds
    <2>4. Ended[c][id] = Outcome(received[c][id])
      BY EndedAt
    <2>5. Outcome(<<>>) = <<>>
      BY DEF Outcome
    <2>6. ASSUME Ended[c][id] = <<>>, k.phase # "idle", e \in Calls!Ends(k)
          PROVE  Calls!End(c, id)
      <3> HIDE DEF e
      <3>1. \E end \in Calls!Ends(k) : Ended' = [Ended EXCEPT ![c][id] = end]
        BY <2>3, <2>6
      <3> QED BY <1>1, <1>2, <2>6, <3>1, Zenon DEF Calls!End, Calls!None, Ended, Methods
    <2>7. CASE Refuses(c, id, k)
      <3> DEFINE x == RstStreamFrame(c, id)
                 r == received[c][id]
      <3>1. r \in Seq({x}) /\ received'[c][id] = r \o <<x>> /\ k.phase # "idle" /\ k.early
        BY <2>7, Zenon DEF Refuses
      <3>2. r \o <<x>> \in Seq({x}) /\ r \o <<x>> # <<>>
        <4> HIDE DEF x, r
        <4> QED BY <3>1
      <3>3. e = <<"refused">>
        BY <3>1, <3>2, OutcomeOfRefusals
      <3>4. CASE r = <<>>
        <4>1. e \in Calls!Ends(k)
          BY <3>1, <3>3 DEF Calls!Ends, Calls!Refused
        <4> QED BY <2>4, <2>5, <2>6, <3>1, <3>4, <4>1 DEF Calls!Next
      <3>5. CASE r # <<>>
        <4>1. Ended[c][id] = e
          BY <2>4, <3>1, <3>3, <3>5, OutcomeOfRefusals
        <4>2. UNCHANGED Ended
          <5>1. Ended \in [Conn -> [CallIDs -> {Ended[d][j] : d \in Conn, j \in CallIDs}]]
            BY DEF Ended
          <5> HIDE DEF Ended, e
          <5> QED BY <2>3, <4>1, <5>1
        <4> QED BY <1>1, <1>2, <4>2, CallsVars
      <3> QED BY <3>4, <3>5
    <2>8. CASE Denies(c, id, k)
      <3>1. /\ k.phase # "idle" /\ ~k.early /\ k.path \notin Methods
            /\ received[c][id] = <<>> /\ e = <<"unimplemented">>
        BY <2>8, OutcomeOfError DEF Denies
      <3>2. e \in Calls!Ends(k)
        BY <3>1 DEF Calls!Ends, Calls!Unimplemented, Methods
      <3> QED BY <2>4, <2>5, <2>6, <3>1, <3>2 DEF Calls!Next
    <2>9. CASE Answers(c, id, k)
      <3>1. /\ k.phase # "idle" /\ ~k.early /\ k.path \in Methods /\ k.message \in Messages
            /\ received[c][id] = <<>> /\ e = <<"answer", k.path, k.message>>
        BY <2>9, OutcomeOfAnswer DEF Answers
      <3>2. k.message # Null
        BY <3>1, MessagesAssumption
      <3>3. e \in Calls!Ends(k)
        BY <3>1, <3>2 DEF Calls!Ends, Calls!Answer, Methods
      <3> QED BY <2>4, <2>5, <2>6, <3>1, <3>3 DEF Calls!Next
    <2> QED BY <2>1, <2>7, <2>8, <2>9
  <1> QED BY <1>4, <1>5, FrameServed DEF Told

(* The client edits the record of one call. *)
LEMMA CallAdvances ==
    ASSUME UInv, NEW c \in Conn, NEW id \in CallIDs,
           UNCHANGED <<vars, acked, received>>,
           \/ \E path \in Names : \E frames \in Blocks(id, path) : Open(c, id, path, frames)
           \/ \E message \in Messages, lengths \in Segmentations :
                 Request(c, id, message, lengths)
           \/ Cancel(c, id),
           call[c][id].phase = "idle" => call[c][id] = NoCall
    PROVE  Calls!Advance(c, id)
  <1>1. call \in [Conn -> [CallIDs -> CallType]]
    BY ClientTypes DEF ClientTypeOK
  <1>2. UNCHANGED <<acked, Ended, Methods>>
    BY DEF vars, Ended, Methods
  <1>3. CASE \E path \in Names : \E frames \in Blocks(id, path) : Open(c, id, path, frames)
    <2>1. PICK path \in Names : \E frames \in Blocks(id, path) : Open(c, id, path, frames)
      BY <1>3
    <2> DEFINE k == [phase |-> "open", path |-> path, message |-> Null, early |-> c \notin acked]
    <2>2. call[c][id].phase = "idle" /\ call' = [call EXCEPT ![c][id] = k]
      BY <2>1 DEF Open
    <2>3. call[c][id] = [phase |-> "idle", path |-> Null, message |-> Null, early |-> FALSE]
      BY <2>2 DEF NoCall
    <2>4. call' = [call EXCEPT ![c][id].phase = "open", ![c][id].path = path,
                               ![c][id].early = c \notin acked]
      <3>1. ASSUME NEW e
            PROVE  [call EXCEPT ![c][id].phase = "open", ![c][id].path = path,
                                ![c][id].early = e]
                     = [call EXCEPT ![c][id] = [phase |-> "open", path |-> path,
                                                message |-> Null, early |-> e]]
        <4> DEFINE i == [phase |-> "idle", path |-> Null, message |-> Null, early |-> FALSE]
                   o == [phase |-> "open", path |-> path, message |-> Null, early |-> e]
        <4>1. [i EXCEPT !.phase = "open", !.path = path, !.early = e] = o
          <5> DEFINE i2 == [i EXCEPT !.phase = "open", !.path = path, !.early = e]
          <5>1. i = [phase |-> "idle", path |-> Null, message |-> Null, early |-> FALSE]
            OBVIOUS
          <5> HIDE DEF i
          <5>2. i2 = [i EXCEPT !.phase = "open", !.path = path, !.early = e]
            OBVIOUS
          <5> HIDE DEF i2
          <5>3. i2 = [phase |-> "open", path |-> path, message |-> Null, early |-> e]
            BY <5>1, <5>2
          <5> QED BY <5>3 DEF i2
        <4>2. [call[c] EXCEPT ![id].phase = "open", ![id].path = path, ![id].early = e]
                 = [call[c] EXCEPT ![id] = o]
          <5>1. call[c] \in [CallIDs -> CallType] /\ call[c][id] = i
            BY <1>1, <2>3
          <5> HIDE DEF i, o
          <5> QED BY <4>1, <5>1
        <4> HIDE DEF i, o
        <4>3. [call EXCEPT ![c][id].phase = "open", ![c][id].path = path, ![c][id].early = e]
                 = [call EXCEPT ![c][id] = o]
          BY <1>1, <4>2
        <4> QED BY <4>3 DEF o
      <3> QED BY <2>2, <3>1
    <2> QED BY <1>2, <2>2, <2>4 DEF Calls!Advance, Calls!Open, Ended, Methods
  <1>4. CASE \E message \in Messages, lengths \in Segmentations :
                Request(c, id, message, lengths)
    <2>1. PICK message \in Messages, lengths \in Segmentations :
             Request(c, id, message, lengths)
      BY <1>4
    <2> QED BY <1>2, <2>1 DEF Request, Calls!Advance, Calls!Open, Calls!Sent, Ended, Methods
  <1>5. CASE Cancel(c, id)
    BY <1>2, <1>5 DEF Cancel, Calls!Advance, Calls!Open, Calls!Sent, Ended, Methods
  <1> QED BY <1>3, <1>4, <1>5

LEMMA Renews ==
    ASSUME OneByte, UInv, NEW c \in Conn, Connect(c) \/ Leave(c)
    PROVE  Calls!Renew(c)
  <1>1. /\ call' = [call EXCEPT ![c] = NoCalls]
        /\ received' = [received EXCEPT ![c] = Nothing]
        /\ acked' \in {acked, acked \ {c}} /\ UNCHANGED unaryMethods
    BY DEF Connect, Leave, AddConnection, RemoveConnection
  <1>2. UNCHANGED Methods
    BY <1>1 DEF Methods
  <1>3. NoCalls = [id \in CallIDs |-> Calls!Idle]
    BY DEF NoCalls, NoCall, Calls!Idle
  <1>4. DOMAIN received = Conn
    BY DEF UInv, UnaryTypeOK
  <1>5. Ended' = [Ended EXCEPT ![c] = [id \in CallIDs |-> <<>>]]
    <2>1. \A d \in Conn : received'[d] = IF d = c THEN Nothing ELSE received[d]
      BY <1>1, <1>4
    <2>2. \A id \in CallIDs : Outcome(Nothing[U8(id)]) = <<>>
      <3>1. \A id \in CallIDs : Nothing[U8(id)] = <<>>
        BY OwnBytes DEF Nothing
      <3> QED BY <3>1 DEF Outcome
    <2>3. \A d \in Conn :
             [id \in CallIDs |-> Outcome(received'[d][U8(id)])] =
             IF d = c THEN [id \in CallIDs |-> <<>>]
             ELSE [id \in CallIDs |-> Outcome(received[d][U8(id)])]
      <3>1. [id \in CallIDs |-> Outcome(Nothing[U8(id)])] = [id \in CallIDs |-> <<>>]
        BY <2>2, Zenon
      <3> QED BY <2>1, <3>1
    <2>4. Ended' = [d \in Conn |-> IF d = c THEN [id \in CallIDs |-> <<>>]
                                   ELSE [id \in CallIDs |-> Outcome(received[d][U8(id)])]]
      BY <2>3, Zenon DEF Ended
    <2> QED BY <2>4, Zenon DEF Ended
  <1>6. Methods' = Methods
    BY <1>2
  <1> QED BY <1>1, <1>3, <1>5, <1>6, Zenon DEF Calls!Renew, Calls!None, Ended, Methods

LEMMA Registers ==
    ASSUME IInv, NEW h \in Handlers, Register(h)
    PROVE  \E name \in Names : Calls!Register(name)
  <1>1. /\ unaryMethods' = Append(unaryMethods, h) /\ unaryMethods \in Seq(Handlers)
        /\ UNCHANGED <<acked, call, received>>
    BY DEF Register, RegisterUnaryMethod, clientVars, IInv, TypeOK
  <1>2. ToSet(unaryMethods') = ToSet(unaryMethods) \cup {h}
    <2>1. ASSUME NEW S, NEW s \in Seq(S), NEW x \in S
          PROVE  ToSet(Append(s, x)) = ToSet(s) \cup {x}
      BY DEF ToSet
    <2> QED BY <1>1, <2>1
  <1>3. Methods' = Methods \cup {NameOf[h]}
    BY <1>2 DEF Methods
  <1>4. UNCHANGED Ended
    BY <1>1 DEF Ended
  <1>5. NameOf[h] \in Names
    BY NamesAssumption
  <1> QED BY <1>1, <1>3, <1>4, <1>5, Zenon DEF Calls!Register, Ended, Methods

LEMMA InitCalls == UnaryInit => Calls!Init
  <1> SUFFICES ASSUME UnaryInit PROVE Calls!Init
    OBVIOUS
  <1>1. /\ acked = {} /\ call = [c \in Conn |-> NoCalls]
        /\ received = [c \in Conn |-> Nothing] /\ unaryMethods = <<>>
    BY DEF UnaryInit, Init
  <1>2. call = [c \in Conn |-> [id \in CallIDs |-> Calls!Idle]]
    BY <1>1, Zenon DEF NoCalls, NoCall, Calls!Idle
  <1>3. \A c \in Conn, id \in CallIDs : Outcome(received[c][U8(id)]) = <<>>
    <2>1. \A id \in CallIDs : U8(id) \in ReplyIDs
      BY DEF ReplyIDs
    <2>2. \A c \in Conn, id \in CallIDs : received[c][U8(id)] = <<>>
      BY <1>1, <2>1, Zenon DEF Nothing
    <2> QED BY <2>2 DEF Outcome
  <1>4. [c \in Conn |-> [id \in CallIDs |-> Outcome(received[c][U8(id)])]]
           = [c \in Conn |-> [id \in CallIDs |-> <<>>]]
    BY <1>3, Zenon
  <1>5. {NameOf[h] : h \in ToSet(unaryMethods)} = {}
    BY <1>1 DEF ToSet
  <1> QED BY <1>1, <1>2, <1>4, <1>5, Zenon DEF Calls!Init, Calls!None

LEMMA NextCalls ==
    ASSUME OneByte, OutcomeInv, UInv', [UnaryNext]_allVars
    PROVE  [Calls!Next]_(Calls!vars)
  <1>1. UInv /\ IInv
    BY DEF OutcomeInv, UInv
  <1>2. ASSUME NEW h \in Handlers, Register(h) PROVE Calls!Next
    BY <1>1, <1>2, Registers DEF Calls!Next
  <1>3. ASSUME NEW c \in Conn, Connect(c) \/ Leave(c) PROVE Calls!Next
    BY <1>1, <1>3, Renews DEF Calls!Next
  <1>4. ASSUME NEW c \in Conn, Acknowledge(c) PROVE Calls!Next
    <2>1. acked' = acked \cup {c} /\ UNCHANGED <<call, received, unaryMethods>>
      BY <1>4 DEF Acknowledge, vars
    <2> QED BY <2>1 DEF Calls!Next, Calls!Acknowledge
  <1>5. ASSUME NEW c \in Conn, Serve(c) PROVE Calls!Next \/ UNCHANGED Calls!vars
    <2>1. CASE ServePreface(c)
      <3>1. UNCHANGED <<acked, call, received, unaryMethods>>
        BY <2>1 DEF ServePreface, clientVars
      <3>2. UNCHANGED <<Ended, Methods>>
        BY <3>1 DEF Ended, Methods
      <3> QED BY <3>1, <3>2, CallsVars
    <2>2. CASE ServeFrame(c)
      BY <2>2, FrameEnds
    <2> QED BY <1>5, <2>1, <2>2 DEF Serve
  <1>6. ASSUME NEW c \in Conn, NEW id \in CallIDs,
               \/ \E path \in Names :
                     \E frames \in Blocks(id, path) : Open(c, id, path, frames)
               \/ \E message \in Messages, lengths \in Segmentations :
                     Request(c, id, message, lengths)
               \/ Cancel(c, id)
        PROVE  Calls!Next
    <2>1. UNCHANGED <<vars, acked, received>>
      BY <1>6 DEF Open, Request, Cancel
    <2>2. call[c][id].phase = "idle" => call[c][id] = NoCall
      <3>1. \E q : ConnState(c, connState[c] # "Deleted", q, c \in acked,
                             c \in prefaceSettingsAckd, call[c], received[c], Rows(c))
        BY DEF OutcomeInv, ConnInv
      <3> QED BY <3>1 DEF ConnState, IdleInv
    <2>3. Calls!Advance(c, id)
      BY <1>1, <1>6, <2>1, <2>2, CallAdvances
    <2> QED BY <2>3 DEF Calls!Next
  <1>7. CASE UNCHANGED allVars
    <2>1. UNCHANGED <<acked, call, received, unaryMethods>>
      BY <1>7 DEF allVars, vars, clientVars
    <2>2. UNCHANGED <<Ended, Methods>>
      BY <2>1 DEF Ended, Methods
    <2> QED BY <2>1, <2>2, CallsVars
  <1>9. ASSUME NEW c \in Conn, GoAway(c) PROVE UNCHANGED Calls!vars
    <2>1. UNCHANGED <<acked, call, received, unaryMethods>>
      BY <1>9 DEF GoAway, vars
    <2>2. UNCHANGED <<Ended, Methods>>
      BY <2>1 DEF Ended, Methods
    <2> QED BY <2>1, <2>2, CallsVars
  <1>8. UnaryNext => Calls!Next \/ UNCHANGED Calls!vars
    BY <1>2, <1>3, <1>4, <1>5, <1>6, <1>9 DEF UnaryNext
  <1> QED BY <1>7, <1>8

-----------------------------------------------------------------------------

(* The server with its clients implements UnaryCall: for any number of     *)
(* clients, calls and registered methods, a client sees each call come to  *)
(* one end, that is never revised, from its own request, by a handler of a *)
(* method registered by then; and a call opened after the acknowledgement  *)
(* is not refused.                                                         *)
THEOREM CallsImplemented ==
    ASSUME OneByte, WholeRequests
    PROVE  UnarySpec => RefinesCalls
  <1>1. UnaryInit => Calls!Init
    BY InitCalls
  <1>2. UnarySpec => []OutcomeInv
    BY OutcomeInvariance
  <1>3. OutcomeInv /\ OutcomeInv' /\ [UnaryNext]_allVars => [Calls!Next]_(Calls!vars)
    <2>1. OutcomeInv' => UInv'
      BY DEF OutcomeInv
    <2> QED BY <2>1, NextCalls
  <1> QED BY <1>1, <1>2, <1>3, PTL DEF UnarySpec, RefinesCalls, Calls!Spec
=============================================================================
