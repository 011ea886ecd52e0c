---------------------------- MODULE Servers_proofs ----------------------------
(***************************************************************************)
(* Proofs about the socket servers, for any number of threads and clients, *)
(* any datagrams and streams, and any sizes.  None of them uses fairness.  *)
(***************************************************************************)
EXTENDS Servers, FiniteSetTheorems, SequenceTheorems, TLAPS

(* A set of numbers that is not empty has a least element. *)
LEMMA MinIsLeast ==
  ASSUME NEW S \in SUBSET Nat, S # {}
  PROVE  Min(S) \in S /\ \A y \in S : Min(S) <= y
<1>1. PICK x \in S : \A y \in S : ~ (<<y, x>> \in OpToRel(<, Nat))
  BY NatLessThanWellFounded, WFMin, Zenon
<1>2. \A y \in S : ~ (y < x)
  BY <1>1 DEF OpToRel
<1>3. \A y \in S : x <= y
  BY <1>2
<1> QED
  BY <1>3 DEF Min

(* A bounded set of numbers that is not empty has a greatest element. *)
LEMMA MaxIsGreatest ==
  ASSUME NEW n \in Nat, NEW S \in SUBSET (0..n), S # {}
  PROVE  Max(S) \in S /\ \A y \in S : Max(S) >= y
<1> DEFINE back == {n - i : i \in S}
<1>1. back \in SUBSET Nat /\ back # {}
  <2>1. \A i \in S : i \in 0..n /\ n - i \in Nat
    OBVIOUS
  <2> QED
    BY <2>1
<1>2. Min(back) \in back /\ \A y \in back : Min(back) <= y
  BY <1>1, MinIsLeast
<1>3. PICK m \in S : Min(back) = n - m
  BY <1>2
<1>4. \A i \in S : n - m <= n - i
  BY <1>2, <1>3
<1>5. \A i \in S : m >= i
  BY <1>4
<1> QED
  BY <1>5 DEF Max

-----------------------------------------------------------------------------
(* The variables of the UDP server, and which threads have a socket open.   *)
Running == {"bind", "loop", "recv", "lines"}

UDPType ==
  /\ pc \in [Thread -> {"start", "bind", "loop", "recv", "lines", "ended"}]
  /\ waiting \in [Thread -> Seq(Datagram)]
  /\ \A t \in Thread : Len(waiting[t]) <= RcvBuf
  /\ buff \in [Thread -> Seq(Char)]
  /\ \A t \in Thread : Len(buff[t]) = MaxMsgSize + 1
  /\ held = {t \in Thread : pc[t] \in Running}

LEMMA CharHas == NL \in Char /\ NUL \in Char
  BY Zenon DEF Char

LEMMA UDPTypeInit == UDPInit => UDPType
<1> SUFFICES ASSUME UDPInit PROVE UDPType
  OBVIOUS
<1>1. MaxMsgSize + 1 \in Nat /\ RcvBuf \in Nat /\ NUL \in Char
  BY UDPAssumption, CharHas
<1>2. [i \in 1..MaxMsgSize + 1 |-> NUL] \in Seq(Char)
  BY <1>1
<1>3. Len([i \in 1..MaxMsgSize + 1 |-> NUL]) = MaxMsgSize + 1
  BY <1>1
<1> QED
  BY <1>1, <1>2, <1>3 DEF UDPInit, UDPType, Running

(* What a datagram leaves in the buffer: itself, a terminator and the end   *)
(* of what was there.                                                       *)
LEMMA Received ==
  ASSUME UDPType, NEW t \in Thread, NEW d \in Datagram
  PROVE  LET b == d \o <<NUL>> \o SubSeq(buff[t], Len(d) + 2, MaxMsgSize + 1)
         IN  /\ b \in Seq(Char)
             /\ Len(b) = MaxMsgSize + 1
             /\ \A i \in 1..Len(d) : b[i] = d[i]
             /\ b[Len(d) + 1] = NUL
<1> DEFINE r == SubSeq(buff[t], Len(d) + 2, MaxMsgSize + 1)
<1>1. /\ d \in Seq(Char) /\ Len(d) <= MaxMsgSize /\ MaxMsgSize \in Nat /\ Len(d) \in Nat
      /\ NUL \in Char /\ buff[t] \in Seq(Char) /\ Len(buff[t]) = MaxMsgSize + 1
  BY UDPAssumption, CharHas DEF UDPType
<1>2. r \in Seq(Char) /\ Len(r) = MaxMsgSize - Len(d)
  BY <1>1
<1> HIDE DEF r
<1>3. /\ d \o <<NUL>> \in Seq(Char) /\ Len(d \o <<NUL>>) = Len(d) + 1
      /\ \A i \in 1..Len(d) : (d \o <<NUL>>)[i] = d[i]
      /\ (d \o <<NUL>>)[Len(d) + 1] = NUL
  BY <1>1
<1> DEFINE e == d \o <<NUL>>
<1>4. e \in Seq(Char) /\ Len(e) = Len(d) + 1
  BY <1>3
<1> HIDE DEF e
<1>5. e \o r \in Seq(Char) /\ Len(e \o r) = Len(e) + Len(r)
  BY <1>2, <1>4
<1>6. \A i \in 1..Len(e) : (e \o r)[i] = e[i]
  BY <1>2, <1>4
<1> QED
  <2>1. Len(e \o r) = MaxMsgSize + 1
    BY <1>1, <1>2, <1>4, <1>5
  <2>2. \A i \in 1..Len(d) : (e \o r)[i] = d[i]
    BY <1>1, <1>3, <1>4, <1>6 DEF e
  <2>3. (e \o r)[Len(d) + 1] = NUL
    BY <1>1, <1>3, <1>4, <1>6 DEF e
  <2> QED
    BY <1>5, <2>1, <2>2, <2>3 DEF e, r

LEMMA UDPTypeStep == UDPType /\ UDPNext => UDPType'
<1> SUFFICES ASSUME UDPType, NEW t \in Thread,
                    ThreadStep(t) \/ CallFails(t) \/ \E d \in Datagram : Arrive(t, d)
             PROVE  UDPType'
  BY DEF UDPNext
<1>0. waiting[t] \in Seq(Datagram) /\ Len(waiting[t]) \in Nat /\ RcvBuf \in Nat
  BY UDPAssumption DEF UDPType
<1>1. CASE OpenSocket(t)
  BY <1>1 DEF OpenSocket, At, UDPType, Running
<1>2. ASSUME NEW from \in Running, Leave(t, from) PROVE UDPType'
  BY <1>0, <1>2 DEF Leave, At, UDPType, Running
<1>3. CASE Bind(t) \/ TimeOut(t) \/ EndOfPacket(t)
  BY <1>3 DEF Bind, TimeOut, EndOfPacket, At, UDPType, Running
<1>4. CASE TestDone(t)
  <2>1. CASE Leave(t, "loop")
    BY <1>2, <2>1 DEF Running
  <2>2. CASE At(t, "loop", "recv") /\ UNCHANGED <<held, waiting, buff>>
    BY <2>2 DEF At, UDPType, Running
  <2> QED
    BY <1>4, <2>1, <2>2 DEF TestDone
<1>5. CASE Receive(t)
  <2> DEFINE d == Head(waiting[t])
  <2> DEFINE b == d \o <<NUL>> \o SubSeq(buff[t], Len(d) + 2, MaxMsgSize + 1)
  <2>1. /\ waiting[t] # <<>> /\ At(t, "recv", "lines") /\ held' = held
        /\ waiting' = [waiting EXCEPT ![t] = Tail(@)]
        /\ buff' = [buff EXCEPT ![t] = b]
    BY <1>5 DEF Receive
  <2>2. d \in Datagram /\ Tail(waiting[t]) \in Seq(Datagram)
        /\ Len(Tail(waiting[t])) <= RcvBuf
    BY <1>0, <2>1 DEF UDPType
  <2>3. b \in Seq(Char) /\ Len(b) = MaxMsgSize + 1
    BY <2>2, Received
  <2> HIDE DEF b, d
  <2>4. waiting' \in [Thread -> Seq(Datagram)] /\ \A u \in Thread : Len(waiting'[u]) <= RcvBuf
    BY <2>1, <2>2 DEF UDPType
  <2>5. buff' \in [Thread -> Seq(Char)] /\ \A u \in Thread : Len(buff'[u]) = MaxMsgSize + 1
    BY <2>1, <2>3 DEF UDPType
  <2> QED
    BY <2>1, <2>4, <2>5 DEF UDPType, At, Running
<1>6. CASE NextLine(t)
  BY <1>6 DEF NextLine, UDPType
<1>7. ASSUME NEW d \in Datagram, Arrive(t, d) PROVE UDPType'
  <2>1. /\ Append(waiting[t], d) \in Seq(Datagram)
        /\ Len(Append(waiting[t], d)) = Len(waiting[t]) + 1 /\ Len(waiting[t]) < RcvBuf
    BY <1>0, <1>7 DEF Arrive
  <2> QED
    BY <1>0, <1>7, <2>1 DEF Arrive, UDPType
<1>8. CASE CallFails(t)
  BY <1>2, <1>8 DEF CallFails, Running
<1> QED
  BY <1>1, <1>3, <1>4, <1>5, <1>6, <1>7, <1>8 DEF ThreadStep

-----------------------------------------------------------------------------
TCPType ==
  /\ client \in [Client -> {"out", "open", "closed", "reset"}]
  /\ stream \in [Client -> Seq({"text", "newline"})]
  /\ unread \in [Client -> Seq({"text", "newline"})]
  /\ queue \in Seq(Client)
  /\ Len(queue) <= Backlog
  /\ conn \in [Fd -> Client \cup {NoClient}]
  /\ tpc \in {"new", "failed", "loop", "select", "scan", "ended"}
  /\ active \subseteq Fd \cup {Listener}
  /\ ready \subseteq active
  /\ tpc = "scan" <=> ready # {}
  /\ pos \in Nat /\ overrun \in BOOLEAN

(* A client that has connected waits in the queue or has a descriptor, in   *)
(* one place only; select watches just the connections; and whoever was     *)
(* found waiting for accept still waits, because nobody else accepts.       *)
Connections ==
  /\ active \ {Listener} = {fd \in Fd : conn[fd] # NoClient}
  /\ \A f, g \in Fd : conn[f] = conn[g] /\ conn[f] # NoClient => f = g
  /\ \A i, j \in 1..Len(queue) : queue[i] = queue[j] => i = j
  /\ \A i \in 1..Len(queue) : \A fd \in Fd : queue[i] # conn[fd]
  /\ \A i \in 1..Len(queue) : client[queue[i]] # "out"
  /\ \A fd \in Fd : conn[fd] # NoClient => client[conn[fd]] # "out"
  /\ Listener \in ready => queue # <<>>

TCPInv == TCPType /\ Connections

(* The listening socket from the constructor to the end of the thread. *)
Listening ==
  /\ listener \in {"closed", "bound", "listening"}
  /\ tpc = "new" => active = {}
  /\ tpc \in {"loop", "select", "scan"} => listener = "listening" /\ Listener \in active
  /\ tpc = "ended" => listener = "closed"

LEMMA ListenerIsNoFd == Cardinality(Client) \in Nat /\ Fd \subseteq Nat /\ Listener \in Nat \ Fd
<1>1. Cardinality(Client) \in Nat
  BY FS_CardinalityType, TCPAssumption
<1> QED
  BY <1>1 DEF Fd, Listener

LEMMA TCPInvInit == TCPInit => TCPInv
<1> SUFFICES ASSUME TCPInit PROVE TCPInv
  OBVIOUS
<1>1. queue \in Seq(Client) /\ Len(queue) = 0 /\ Backlog \in Nat /\ <<>> \in Seq({"text", "newline"})
  BY TCPAssumption DEF TCPInit
<1>2. TCPType
  <2>1. overrun \in BOOLEAN /\ conn \in [Fd -> Client \cup {NoClient}]
    BY DEF TCPInit
  <2> QED
    BY <1>1, <2>1, TCPAssumption DEF TCPInit, TCPType
<1>3. Connections
  BY <1>1 DEF TCPInit, Connections
<1> QED
  BY <1>2, <1>3 DEF TCPInv

(* The descriptor the loop looks at is one that select reported. *)
LEMMA ScanIsReady ==
  ASSUME TCPInv, NEW fd, Scan(fd)
  PROVE  /\ fd \in ready /\ fd \in active
         /\ fd # Listener => fd \in Fd /\ conn[fd] \in Client
<1>1. ready \subseteq Nat /\ ready # {}
  BY ListenerIsNoFd DEF TCPInv, TCPType, Scan
<1>2. fd \in ready
  BY <1>1, MinIsLeast DEF Scan
<1> QED
  BY <1>2 DEF TCPInv, TCPType, Connections

(* While a client waits for accept, there is a free descriptor. *)
LEMMA FreeDescriptor ==
  ASSUME TCPInv, queue # <<>>
  PROVE  LET fd == Min({f \in Fd : conn[f] = NoClient})
         IN  fd \in Fd /\ conn[fd] = NoClient
<1> DEFINE free == {f \in Fd : conn[f] = NoClient}
<1>1. free # {}
  <2> SUFFICES ASSUME free = {} PROVE FALSE
    OBVIOUS
  <2> DEFINE h == queue[1]
  <2>1. /\ queue \in Seq(Client) /\ 1 \in 1..Len(queue) /\ h \in Client
    BY DEF TCPInv, TCPType
  <2>2. conn \in [Fd -> Client \ {h}]
    BY <2>1 DEF TCPInv, TCPType, Connections
  <2>3. /\ IsFiniteSet(Fd) /\ Cardinality(Fd) = Cardinality(Client)
        /\ Cardinality(Client) \in Nat
    BY FS_Interval, ListenerIsNoFd DEF Fd
  <2>4. IsFiniteSet(Client \ {h}) /\ Cardinality(Client \ {h}) = Cardinality(Client) - 1
    BY <2>1, FS_RemoveElement, TCPAssumption
  <2>5. Cardinality(Client \ {h}) < Cardinality(Fd)
    BY <2>3, <2>4
  <2> HIDE DEF h
  <2>6. PICK f, g \in Fd : f # g /\ conn[f] = conn[g]
    BY <2>2, <2>3, <2>4, <2>5, FS_PigeonHole
  <2> QED
    BY <2>6 DEF TCPInv, Connections
<1>2. free \in SUBSET Nat
  BY ListenerIsNoFd
<1>3. Min(free) \in free
  BY <1>1, <1>2, MinIsLeast
<1> QED
  BY <1>3

LEMMA ConstructStep == ASSUME TCPInv, Listening, Construct \/ NoThread PROVE TCPInv'
<1>1. /\ tpc = "new" /\ active = {}
      /\ UNCHANGED <<client, stream, unread, queue, conn, ready, pos, overrun>>
      /\ \/ tpc' = "failed" /\ active' = active
         \/ tpc' = "loop" /\ active' = {Listener}
  BY DEF Construct, NoThread, Listening, clients, line
<1>2. ready = {} /\ active' \ {Listener} = active \ {Listener}
  BY <1>1 DEF TCPInv, TCPType
<1>3. TCPType'
  BY <1>1, <1>2 DEF TCPInv, TCPType
<1>4. Connections'
  BY <1>1, <1>2 DEF TCPInv, Connections
<1> QED
  BY <1>3, <1>4 DEF TCPInv

(* Steps of the thread that open and close nothing. *)
LEMMA LoopStep == ASSUME TCPInv, Loop PROVE TCPInv'
<1>1. TCPType'
  BY DEF TCPInv, TCPType, Loop, clients, line
<1>2. Connections'
  BY DEF TCPInv, TCPType, Connections, Loop, clients
<1> QED
  BY <1>1, <1>2 DEF TCPInv

LEMMA SelectStep == ASSUME TCPInv, Select PROVE TCPInv'
<1>1. /\ ready' = {} \/ ready' = {fd \in active : Readable(fd)}
      /\ tpc' = (IF ready' = {} THEN "loop" ELSE "scan")
      /\ UNCHANGED <<client, stream, unread, queue, conn, active, pos, overrun>>
  BY DEF Select, clients, line, sockets
<1>2. TCPType'
  BY <1>1 DEF TCPInv, TCPType
<1>3. Listener \in ready' => queue # <<>>
  BY <1>1 DEF Readable
<1> QED
  BY <1>1, <1>2, <1>3 DEF TCPInv, Connections

LEMMA AcceptStep == ASSUME TCPInv, Accept PROVE TCPInv'
<1> DEFINE fd == Min({f \in Fd : conn[f] = NoClient})
<1> DEFINE c == Head(queue)
<1>1. /\ Scan(Listener) /\ conn' = [conn EXCEPT ![fd] = c] /\ queue' = Tail(queue)
      /\ active' = active \cup {fd} /\ UNCHANGED <<unread, pos, overrun>>
  BY DEF Accept, line
<1>2. Listener \in ready /\ queue # <<>>
  BY <1>1, ScanIsReady DEF TCPInv, Connections
<1>3. fd \in Fd /\ conn[fd] = NoClient
  BY <1>2, FreeDescriptor
<1> HIDE DEF fd
<1>4. /\ c = queue[1] /\ c \in Client /\ queue' \in Seq(Client) /\ Len(queue) \in Nat \ {0}
      /\ Len(queue') = Len(queue) - 1
      /\ \A i \in 1..Len(queue) - 1 : queue'[i] = queue[i + 1]
  BY <1>1, <1>2 DEF TCPInv, TCPType
<1> HIDE DEF c
<1>5. /\ ready' = ready \ {Listener} /\ (tpc' = "scan" <=> ready' # {})
      /\ tpc' \in {"loop", "scan"} /\ client' = client /\ stream' = stream
  BY <1>1 DEF Scan, clients
<1>6. /\ conn' \in [Fd -> Client \cup {NoClient}] /\ conn'[fd] = c
      /\ \A f \in Fd : f # fd => conn'[f] = conn[f]
      /\ c # NoClient
  BY <1>1, <1>3, <1>4, TCPAssumption DEF TCPInv, TCPType
<1>7. TCPType'
  <2>1. Len(queue') <= Backlog
    BY <1>4, TCPAssumption DEF TCPInv, TCPType
  <2> QED
    BY <1>1, <1>3, <1>4, <1>5, <1>6, <2>1 DEF TCPInv, TCPType
<1>8. Connections'
  <2>1. active' \ {Listener} = {f \in Fd : conn'[f] # NoClient}
    BY <1>1, <1>3, <1>6, ListenerIsNoFd DEF TCPInv, Connections
  <2>2. \A f, g \in Fd : conn'[f] = conn'[g] /\ conn'[f] # NoClient => f = g
    <3>1. \A f \in Fd : conn[f] # c
      BY <1>4 DEF TCPInv, Connections
    <3> QED
      BY <1>6, <3>1 DEF TCPInv, Connections
  <2>3. \A i \in 1..Len(queue') : i + 1 \in 1..Len(queue) /\ queue'[i] = queue[i + 1]
    BY <1>4
  <2>4. \A i, j \in 1..Len(queue') : queue'[i] = queue'[j] => i = j
    BY <1>4, <2>3 DEF TCPInv, Connections
  <2>5. \A i \in 1..Len(queue') : queue'[i] # c
    BY <1>4, <2>3 DEF TCPInv, Connections
  <2>6. \A i \in 1..Len(queue') : \A f \in Fd : queue'[i] # conn'[f]
    BY <1>6, <2>3, <2>5 DEF TCPInv, Connections
  <2>7. client[c] # "out"
    BY <1>4 DEF TCPInv, Connections
  <2>8. /\ \A i \in 1..Len(queue') : client'[queue'[i]] # "out"
        /\ \A f \in Fd : conn'[f] # NoClient => client'[conn'[f]] # "out"
    BY <1>5, <1>6, <2>3, <2>7 DEF TCPInv, Connections
  <2> QED
    BY <1>5, <2>1, <2>2, <2>4, <2>6, <2>8 DEF Connections
<1> QED
  BY <1>7, <1>8 DEF TCPInv

LEMMA AcceptFailsStep == ASSUME TCPInv, AcceptFails PROVE TCPInv'
<1>1. /\ ready' = ready \ {Listener} /\ (tpc' = "scan" <=> ready' # {})
      /\ tpc' \in {"loop", "scan"}
      /\ UNCHANGED <<client, stream, unread, queue, conn, active, pos, overrun>>
  BY DEF AcceptFails, Scan, clients, line, sockets
<1> QED
  BY <1>1 DEF TCPInv, TCPType, Connections

LEMMA ReadNothingStep == ASSUME TCPInv, NEW fd \in Fd, ReadNothing(fd) PROVE TCPInv'
<1>1. /\ Scan(fd) /\ fd # Listener
      /\ unread' = [unread EXCEPT ![conn[fd]] = <<>>]
      /\ conn' = [conn EXCEPT ![fd] = NoClient] /\ active' = active \ {fd}
      /\ UNCHANGED <<queue, pos, overrun>>
  BY DEF ReadNothing, CloseConn, line
<1>2. fd \in ready /\ fd \in Fd /\ conn[fd] \in Client
  BY <1>1, ScanIsReady
<1>3. /\ ready' = ready \ {fd} /\ (tpc' = "scan" <=> ready' # {})
      /\ tpc' \in {"loop", "scan"} /\ client' = client /\ stream' = stream
  BY <1>1 DEF Scan, clients
<1>4. /\ conn' \in [Fd -> Client \cup {NoClient}] /\ conn'[fd] = NoClient
      /\ \A f \in Fd : f # fd => conn'[f] = conn[f]
  BY <1>1, <1>2 DEF TCPInv, TCPType
<1>5. <<>> \in Seq({"text", "newline"})
  OBVIOUS
<1>6. TCPType'
  BY <1>1, <1>3, <1>4, <1>5 DEF TCPInv, TCPType
<1>7. \A i \in 1..Len(queue) : queue[i] # NoClient
  BY TCPAssumption DEF TCPInv, TCPType
<1>8. Connections'
  BY <1>1, <1>3, <1>4, <1>7 DEF TCPInv, Connections
<1> QED
  BY <1>6, <1>8 DEF TCPInv

(* A full buffer or less: what is read and what is left. *)
LEMMA ReadSize ==
  ASSUME NEW s \in Seq({"text", "newline"})
  PROVE  LET size == Min({Len(s), BufSize - 1})
         IN  /\ size \in 0..Len(s) /\ size <= BufSize - 1
             /\ size = Len(s) \/ size = BufSize - 1
             /\ SubSeq(s, size + 1, Len(s)) \in Seq({"text", "newline"})
             /\ SubSeq(s, 1, size) \in Seq({"text", "newline"})
             /\ Len(SubSeq(s, 1, size)) = size
<1> DEFINE size == Min({Len(s), BufSize - 1})
<1>1. Len(s) \in Nat /\ BufSize - 1 \in Nat
  BY TCPAssumption
<1>2. size \in {Len(s), BufSize - 1} /\ size <= Len(s) /\ size <= BufSize - 1
  BY <1>1, MinIsLeast
<1> HIDE DEF size
<1>3. size \in 0..Len(s)
  BY <1>1, <1>2
<1>4. /\ SubSeq(s, size + 1, Len(s)) \in Seq({"text", "newline"})
      /\ SubSeq(s, 1, size) \in Seq({"text", "newline"})
      /\ Len(SubSeq(s, 1, size)) = size
  BY <1>1, <1>3
<1> QED
  BY <1>2, <1>3, <1>4 DEF size

(* Where the copy loop leaves pos: behind the last newline, if there is one.*)
LEMMA PosAfterIs ==
  ASSUME NEW p \in Nat, NEW s \in Seq({"text", "newline"})
  PROVE  /\ PosAfter(p, s) \in Nat
         /\ \A i \in 1..Len(s) : s[i] = "newline" => PosAfter(p, s) <= Len(s) - i
<1> DEFINE ends == {i \in DOMAIN s : s[i] = "newline"}
<1>0. Len(s) \in Nat /\ DOMAIN s = 1..Len(s)
  OBVIOUS
<1>1. CASE ends = {}
  BY <1>0, <1>1 DEF PosAfter
<1>2. CASE ends # {}
  <2>1. Max(ends) \in ends /\ \A i \in ends : Max(ends) >= i
    <3>1. ends \in SUBSET (0..Len(s))
      BY <1>0
    <3> QED
      BY <1>0, <1>2, <3>1, MaxIsGreatest
  <2>2. PosAfter(p, s) = Len(s) - Max(ends)
    BY <1>2 DEF PosAfter
  <2>3. Max(ends) \in 1..Len(s) /\ \A i \in 1..Len(s) : s[i] = "newline" => Max(ends) >= i
    BY <1>0, <2>1
  <2> DEFINE m == Max(ends)
  <2>4. m \in 1..Len(s) /\ PosAfter(p, s) = Len(s) - m
    BY <2>2, <2>3
  <2>5. \A i \in 1..Len(s) : s[i] = "newline" => m >= i
    BY <2>3
  <2> HIDE DEF m
  <2> QED
    BY <1>0, <2>4, <2>5
<1> QED
  BY <1>1, <1>2

LEMMA ReadSomeStep == ASSUME TCPInv, NEW fd \in Fd, ReadSome(fd) PROVE TCPInv'
<1> DEFINE c == conn[fd]
<1> DEFINE size == Min({Len(unread[c]), BufSize - 1})
<1>1. /\ Scan(fd) /\ fd # Listener
      /\ unread' = [unread EXCEPT ![c] = SubSeq(@, size + 1, Len(@))]
      /\ UNCHANGED <<queue, conn, active>>
  BY DEF ReadSome, sockets
<1>2. PICK stray \in {"text", "newline"} :
        LET chars == SubSeq(unread[c], 1, size) \o <<stray>>
        IN  /\ pos' = PosAfter(pos, chars)
            /\ overrun' = (overrun \/ Reach(pos, chars) >= BufSize)
  BY DEF ReadSome
<1>3. fd \in ready /\ c \in Client
  BY <1>1, ScanIsReady
<1>4. /\ SubSeq(unread[c], size + 1, Len(unread[c])) \in Seq({"text", "newline"})
      /\ SubSeq(unread[c], 1, size) \in Seq({"text", "newline"})
  BY <1>3, ReadSize DEF TCPInv, TCPType
<1> HIDE DEF size
<1>5. SubSeq(unread[c], 1, size) \o <<stray>> \in Seq({"text", "newline"})
  BY <1>4
<1>6. pos' \in Nat /\ overrun' \in BOOLEAN
  BY <1>2, <1>5, PosAfterIs DEF TCPInv, TCPType
<1>7. unread' \in [Client -> Seq({"text", "newline"})]
  BY <1>1, <1>3, <1>4 DEF TCPInv, TCPType
<1>8. /\ ready' = ready \ {fd} /\ (tpc' = "scan" <=> ready' # {})
      /\ tpc' \in {"loop", "scan"} /\ client' = client /\ stream' = stream
  BY <1>1 DEF Scan, clients
<1>9. TCPType'
  BY <1>1, <1>6, <1>7, <1>8 DEF TCPInv, TCPType
<1>10. Connections'
  BY <1>1, <1>8 DEF TCPInv, Connections
<1> QED
  BY <1>9, <1>10 DEF TCPInv

(* The clients. *)
LEMMA ConnectsStep == ASSUME TCPInv, NEW c \in Client, Connects(c) PROVE TCPInv'
<1>1. /\ client[c] = "out" /\ Len(queue) < Backlog /\ queue' = Append(queue, c)
      /\ client' = [client EXCEPT ![c] = "open"]
      /\ UNCHANGED <<unread, conn, tpc, active, ready, pos, overrun>>
  BY DEF Connects, line, sockets
<1>2. PICK s \in Stream : stream' = [stream EXCEPT ![c] = s]
  BY DEF Connects
<1>3. /\ queue \in Seq(Client) /\ queue' \in Seq(Client) /\ Len(queue) \in Nat
      /\ Len(queue') = Len(queue) + 1 /\ queue'[Len(queue) + 1] = c
      /\ \A i \in 1..Len(queue) : queue'[i] = queue[i]
  BY <1>1 DEF TCPInv, TCPType
<1>4. TCPType'
  <2>1. s \in Seq({"text", "newline"}) /\ Len(queue') <= Backlog
    BY <1>1, <1>3, TCPAssumption
  <2> QED
    BY <1>1, <1>2, <1>3, <2>1 DEF TCPInv, TCPType
<1>5. /\ \A i \in 1..Len(queue) : queue[i] # c
      /\ \A fd \in Fd : conn[fd] # c
  BY <1>1, TCPAssumption DEF TCPInv, TCPType, Connections
<1>6. \A i \in 1..Len(queue') : i \in 1..Len(queue) \/ i = Len(queue) + 1
  BY <1>3
<1>7. /\ client'[c] = "open" /\ \A d \in Client : d # c => client'[d] = client[d]
      /\ \A i \in 1..Len(queue) : queue[i] \in Client
      /\ \A fd \in Fd : conn[fd] \in Client \cup {NoClient}
  BY <1>1, <1>3 DEF TCPInv, TCPType
<1>8. \A i, j \in 1..Len(queue') : queue'[i] = queue'[j] => i = j
  BY <1>3, <1>5, <1>6 DEF TCPInv, Connections
<1>9. \A i \in 1..Len(queue') : \A fd \in Fd : queue'[i] # conn[fd]
  BY <1>3, <1>5, <1>6 DEF TCPInv, Connections
<1>10. /\ \A i \in 1..Len(queue') : client'[queue'[i]] # "out"
       /\ \A fd \in Fd : conn[fd] # NoClient => client'[conn[fd]] # "out"
  BY <1>3, <1>5, <1>6, <1>7 DEF TCPInv, Connections
<1>11. queue' # <<>>
  BY <1>3
<1>12. Connections'
  BY <1>1, <1>8, <1>9, <1>10, <1>11 DEF TCPInv, Connections
<1> QED
  BY <1>4, <1>12 DEF TCPInv

LEMMA SendsStep == ASSUME TCPInv, NEW c \in Client, Sends(c) PROVE TCPInv'
<1>1. /\ stream[c] # <<>>
      /\ stream' = [stream EXCEPT ![c] = Tail(@)]
      /\ unread' = [unread EXCEPT ![c] = Append(@, Head(stream[c]))]
      /\ UNCHANGED <<client, queue, conn, tpc, active, ready, pos, overrun>>
  BY DEF Sends, line, sockets
<1>2. /\ Tail(stream[c]) \in Seq({"text", "newline"})
      /\ Append(unread[c], Head(stream[c])) \in Seq({"text", "newline"})
  BY <1>1 DEF TCPInv, TCPType
<1> QED
  BY <1>1, <1>2 DEF TCPInv, TCPType, Connections

LEMMA EndsStep ==
  ASSUME TCPInv, NEW c \in Client, Closes(c) \/ Resets(c) \/ Forgets(c)
  PROVE  TCPInv'
<1>1. UNCHANGED <<unread, queue, conn, tpc, active, ready, pos, overrun>>
  BY DEF Closes, Resets, Forgets, line, sockets
<1>2. /\ DOMAIN queue = 1..Len(queue) /\ <<>> \in Seq({"text", "newline"})
      /\ \A i \in 1..Len(queue) : queue[i] \in Client
      /\ \A fd \in Fd : conn[fd] \in Client \cup {NoClient}
  BY DEF TCPInv, TCPType
<1>3. /\ client' \in [Client -> {"out", "open", "closed", "reset"}]
      /\ \A d \in Client : d # c => client'[d] = client[d]
      /\ stream' \in [Client -> Seq({"text", "newline"})]
      /\ \/ client'[c] # "out"
         \/ (\A i \in 1..Len(queue) : queue[i] # c) /\ (\A fd \in Fd : conn[fd] # c)
  <2>1. CASE Closes(c)
    BY <2>1 DEF Closes, TCPInv, TCPType
  <2>2. CASE Resets(c)
    BY <2>2 DEF Resets, TCPInv, TCPType
  <2>3. CASE Forgets(c)
    BY <1>2, <2>3 DEF Forgets, TCPInv, TCPType
  <2> QED
    BY <2>1, <2>2, <2>3
<1>4. TCPType'
  BY <1>1, <1>3 DEF TCPInv, TCPType
<1>5. /\ \A i \in 1..Len(queue) : client'[queue[i]] # "out"
      /\ \A fd \in Fd : conn[fd] # NoClient => client'[conn[fd]] # "out"
  BY <1>2, <1>3 DEF TCPInv, Connections
<1>6. Connections'
  BY <1>1, <1>5 DEF TCPInv, Connections
<1> QED
  BY <1>4, <1>6 DEF TCPInv

LEMMA TCPInvStep == TCPInv /\ Listening /\ TCPNext => TCPInv'
  BY ConstructStep, LoopStep, SelectStep, AcceptStep, AcceptFailsStep, ReadNothingStep, ReadSomeStep,
     ConnectsStep, SendsStep, EndsStep
     DEF TCPNext, TCPThread, ClientStep

(* Only the constructor and the end of the thread touch the listening       *)
(* socket, and the loop closes no other descriptor than a connection's.     *)
LEMMA ListeningStep == TCPInv /\ Listening /\ TCPNext => Listening'
<1> SUFFICES ASSUME TCPInv, Listening, TCPNext PROVE Listening'
  OBVIOUS
<1>1. CASE Construct \/ NoThread
  BY <1>1 DEF Listening, Construct, NoThread
<1>2. CASE Loop
  BY <1>2 DEF Listening, Loop
<1>3. CASE Select
  BY <1>3 DEF Listening, Select, sockets
<1>4. CASE Accept \/ AcceptFails
  BY <1>4 DEF Listening, Accept, AcceptFails, Scan, sockets
<1>5. ASSUME NEW fd \in Fd, ReadNothing(fd) \/ ReadSome(fd) PROVE Listening'
  <2>1. fd # Listener
    BY ListenerIsNoFd
  <2> QED
    BY <1>5, <2>1 DEF Listening, ReadNothing, ReadSome, CloseConn, Scan, sockets
<1>6. ASSUME NEW c \in Client, ClientStep(c) PROVE Listening'
  BY <1>6 DEF Listening, ClientStep, Connects, Sends, Closes, Resets, Forgets, sockets
<1> QED
  BY <1>1, <1>2, <1>3, <1>4, <1>5, <1>6 DEF TCPNext, TCPThread

-----------------------------------------------------------------------------
(* Both kinds of server: a step of one leaves the other's variables alone.  *)
Inv ==
  /\ kind \in {"udp", "tcp"} /\ done \in BOOLEAN /\ long \in BOOLEAN
  /\ UDPType /\ TCPInv /\ Listening

LEMMA UDPTypeStays == UDPType /\ UNCHANGED udp => UDPType'
  BY DEF UDPType, udp

LEMMA TCPInvStays ==
  /\ TCPInv /\ UNCHANGED tcp => TCPInv'
  /\ Listening /\ UNCHANGED tcp => Listening' /\ long' = long
  BY DEF TCPInv, TCPType, Connections, Listening, tcp, clients, line, sockets

LEMMA ThreadsLeaveServer ==
  /\ UDPNext => UNCHANGED server
  /\ TCPNext => kind' = kind /\ (done' = done \/ done' = TRUE)
<1>1. UDPNext => UNCHANGED server
  BY DEF UDPNext, ThreadStep, CallFails, OpenSocket, Bind, TestDone, TimeOut, Receive,
         NextLine, EndOfPacket, Leave, Arrive
<1>2. TCPNext => kind' = kind /\ (done' = done \/ done' = TRUE)
  BY DEF TCPNext, Construct, NoThread, TCPThread, ClientStep, Loop, Select, Accept,
         AcceptFails, ReadNothing, ReadSome, Scan, Connects, Sends, Closes, Resets,
         Forgets, server
<1> QED
  BY <1>1, <1>2

(* A client with a long line is not forgotten. *)
LEMMA LongStays ==
  ASSUME TCPNext, long \in BOOLEAN
  PROVE  long' \in BOOLEAN /\ (long => long')
<1>1. CASE \E c \in Client : Connects(c)
  BY <1>1 DEF Connects
<1>2. CASE Construct \/ NoThread \/ Loop \/ Select
  BY <1>2 DEF Construct, NoThread, Loop, Select, clients
<1>3. CASE \E fd : Scan(fd)
  BY <1>3 DEF Scan, clients
<1>4. CASE \E c \in Client : Sends(c) \/ Closes(c) \/ Resets(c) \/ Forgets(c)
  BY <1>4 DEF Sends, Closes, Resets, Forgets
<1>5. TCPThread => Loop \/ Select \/ \E fd : Scan(fd)
  BY DEF TCPThread, Accept, AcceptFails, ReadNothing, ReadSome
<1> QED
  BY <1>1, <1>2, <1>3, <1>4, <1>5, Zenon DEF TCPNext, ClientStep

LEMMA InvInit == Init => Inv
<1>1. TCPInit => Listening /\ long \in BOOLEAN
  BY DEF TCPInit, Listening
<1> QED
  BY <1>1, UDPTypeInit, TCPInvInit DEF Init, ServerInit, Inv

LEMMA InvStep == Inv /\ [Next]_vars => Inv'
<1> SUFFICES ASSUME Inv, [Next]_vars PROVE Inv'
  OBVIOUS
<1>1. CASE Stop /\ UNCHANGED <<udp, tcp>>
  BY <1>1, UDPTypeStays, TCPInvStays DEF Inv, Stop
<1>2. CASE UDPNext /\ UNCHANGED tcp
  BY <1>2, UDPTypeStep, TCPInvStays, ThreadsLeaveServer DEF Inv, server
<1>3. CASE TCPNext /\ UNCHANGED udp
  BY <1>3, TCPInvStep, ListeningStep, LongStays, UDPTypeStays, ThreadsLeaveServer DEF Inv
<1>4. CASE UNCHANGED vars
  BY <1>4, UDPTypeStays, TCPInvStays DEF Inv, vars, server
<1> QED
  BY <1>1, <1>2, <1>3, <1>4 DEF Next

LEMMA InvAlways == Spec => []Inv
  BY InvInit, InvStep, PTL DEF Spec

(* The variables of a server keep their types, for any number of threads    *)
(* and clients: in particular the kernel's queues stay inside their bounds, *)
(* what a thread receives fits its buffer with the terminator               *)
(* (udp_server.cc:49,99), and the TCP thread goes through descriptors only  *)
(* while there are some that it has not looked at (tcp_server.cc:66-74).    *)
THEOREM TypeCorrect == Spec => []TypeOK
<1>1. Inv => TypeOK
  BY UDPAssumption DEF Inv, UDPType, TCPInv, TCPType, Listening, TypeOK
<1> QED
  BY <1>1, InvAlways, PTL

(* A thread that runs has exactly the descriptors it reads, for any number  *)
(* of threads and clients, however clients come, go, are reset and come     *)
(* again; one that has ended has closed the socket it received or listened  *)
(* on (udp_server.cc:86,115; tcp_server.cc:73,81,99).                       *)
THEOREM NoDescriptorLeaks == Spec => []DescriptorsInUse
<1>1. Inv => DescriptorsInUse
  <2> SUFFICES ASSUME Inv PROVE DescriptorsInUse
    OBVIOUS
  <2>1. held = {t \in Thread : pc[t] \in {"bind", "loop", "recv", "lines"}}
    BY DEF Inv, UDPType, Running
  <2>2. Listener \in active => active = {Listener} \cup {fd \in Fd : conn[fd] # NoClient}
    BY DEF Inv, TCPInv, Connections
  <2>3. \A f, g \in active \ {Listener} : conn[f] = conn[g] => f = g
    BY DEF Inv, TCPInv, Connections
  <2> QED
    BY <2>1, <2>2, <2>3 DEF Inv, Listening, DescriptorsInUse
<1> QED
  BY <1>1, InvAlways, PTL

-----------------------------------------------------------------------------
(* What keeps the line buffer of the TCP server from overflowing: what is   *)
(* left in it after a read is at most half a buffer, and whatever a client  *)
(* has still to be read consists of short lines and the end of one.  What   *)
(* a client that left has sent is gone, so that it starts afresh when it    *)
(* comes again.                                                             *)
Rest(c) == unread[c] \o stream[c]
Absent(c) == (\A i \in 1..Len(queue) : queue[i] # c) /\ (\A fd \in Fd : conn[fd] # c)

LineInv ==
  /\ ~overrun
  /\ pos <= BufSize \div 2
  /\ \A c \in Client : ShortLines(Rest(c))
  /\ \A c \in Client : client[c] = "closed" => stream[c] = <<>>
  /\ \A c \in Client : Absent(c) => unread[c] = <<>> /\ client[c] # "open"

LEMMA HalfBuffer ==
  /\ BufSize \div 2 \in Nat \ {0}
  /\ 2 * (BufSize \div 2) <= BufSize
  /\ BufSize \div 2 <= BufSize - 1
  /\ BufSize \in Nat
BY TCPAssumption

(* What is left of a text of short lines is one, too. *)
LEMMA SuffixShort ==
  ASSUME NEW s \in Seq({"text", "newline"}), ShortLines(s), NEW n \in 0..Len(s),
         NEW r \in Seq({"text", "newline"}), Len(r) = Len(s) - n,
         \A i \in 1..Len(r) : r[i] = s[n + i]
  PROVE  ShortLines(r)
<1> SUFFICES ASSUME NEW i \in 1..Len(r)
             PROVE  \E j \in i..Len(r) : j < i + BufSize \div 2 /\ r[j] = "newline"
  BY DEF ShortLines
<1>1. Len(s) \in Nat /\ Len(r) \in Nat /\ n + i \in 1..Len(s)
  OBVIOUS
<1>2. PICK k \in (n + i)..Len(s) : k < (n + i) + BufSize \div 2 /\ s[k] = "newline"
  BY <1>1 DEF ShortLines
<1>3. k - n \in i..Len(r) /\ k - n \in 1..Len(r) /\ n + (k - n) = k
  BY <1>1
<1>4. k - n < i + BufSize \div 2
  BY <1>2, <1>1, HalfBuffer
<1> QED
  BY <1>2, <1>3, <1>4

(* The copy loop on the first characters of a text of short lines, and one  *)
(* more, starting with at most half a buffer.                               *)
LEMMA CopyFits ==
  ASSUME NEW p \in Nat, p <= BufSize \div 2,
         NEW s \in Seq({"text", "newline"}), ShortLines(s),
         NEW size \in 1..Len(s), size = BufSize - 1 \/ size = Len(s),
         size <= BufSize - 1,
         NEW chunk \in Seq({"text", "newline"}), Len(chunk) = size,
         \A i \in 1..size : chunk[i] = s[i],
         NEW stray \in {"text", "newline"}
  PROVE  /\ PosAfter(p, chunk \o <<stray>>) <= BufSize \div 2
         /\ Reach(p, chunk \o <<stray>>) \in 0..BufSize - 1
<1> DEFINE chars == chunk \o <<stray>>
<1> DEFINE w == BufSize \div 2
<1>1. w \in Nat \ {0} /\ 2 * w <= BufSize /\ w <= BufSize - 1 /\ BufSize \in Nat
  BY HalfBuffer
<1>2. /\ chars \in Seq({"text", "newline"}) /\ Len(chars) = size + 1
      /\ \A i \in 1..size : chars[i] = s[i]
      /\ chars[size + 1] = stray /\ size \in Nat \ {0} /\ Len(s) \in Nat
  OBVIOUS
<1> HIDE DEF chars
<1>3. \A i \in 1..size : i + w <= size + 1 => \E j \in 1..size : i <= j /\ j < i + w /\ s[j] = "newline"
  <2> SUFFICES ASSUME NEW i \in 1..size, i + w <= size + 1
               PROVE  \E j \in 1..size : i <= j /\ j < i + w /\ s[j] = "newline"
    OBVIOUS
  <2>1. PICK j \in i..Len(s) : j < i + w /\ s[j] = "newline"
    BY <1>2 DEF ShortLines
  <2>2. j \in 1..size
    BY <1>1, <1>2, <2>1
  <2> QED
    BY <1>1, <1>2, <2>1, <2>2
<1>4. PICK k \in 1..size : k <= w /\ s[k] = "newline"
  <2>0. 1 \in 1..Len(s)
    BY <1>2
  <2>1. PICK j \in 1..Len(s) : j < 1 + w /\ s[j] = "newline"
    BY <2>0 DEF ShortLines
  <2>2. j \in 1..size /\ j <= w
    BY <1>1, <1>2, <2>1
  <2> QED
    BY <2>1, <2>2
<1> HIDE DEF w
<1>5. PosAfter(p, chars) <= w
  <2> DEFINE ends == {i \in DOMAIN chars : chars[i] = "newline"}
  <2>1. k \in ends /\ ends \in SUBSET (0..size + 1) /\ DOMAIN chars = 1..size + 1
    BY <1>2, <1>4
  <2>2. \A i \in 1..size : s[i] = "newline" => i \in ends
    BY <1>2, <2>1
  <2>3. PosAfter(p, chars) = (size + 1) - Max(ends)
    BY <1>2, <2>1 DEF PosAfter
  <2> HIDE DEF ends
  <2>4. Max(ends) \in ends /\ \A i \in ends : Max(ends) >= i
    <3>1. size + 1 \in Nat /\ ends # {}
      BY <1>2, <2>1
    <3> QED
      BY <2>1, <3>1, MaxIsGreatest
  <2> DEFINE m == Max(ends)
  <2>5. m \in 0..size + 1 /\ (\A i \in 1..size : s[i] = "newline" => m >= i)
        /\ PosAfter(p, chars) = (size + 1) - m
    BY <2>1, <2>2, <2>3, <2>4
  <2> HIDE DEF m
  <2>6. (size + 1) - m <= w
    <3> SUFFICES ASSUME m + w <= size PROVE FALSE
      BY <1>1, <1>2, <2>5
    <3>1. m + 1 \in 1..size /\ (m + 1) + w <= size + 1
      BY <1>1, <1>2, <2>5
    <3>2. PICK j \in 1..size : m + 1 <= j /\ s[j] = "newline"
      BY <1>3, <3>1
    <3> QED
      BY <1>2, <2>5, <3>2
  <2> QED
    BY <2>5, <2>6
<1>6. ASSUME NEW n \in 0..size
      PROVE  PosAfter(p, SubSeq(chars, 1, n)) \in 0..BufSize - 1
  <2> DEFINE b == SubSeq(chars, 1, n)
  <2>1. /\ b \in Seq({"text", "newline"}) /\ Len(b) = n
        /\ \A i \in 1..n : b[i] = s[i]
    BY <1>2
  <2> HIDE DEF b
  <2>2. PosAfter(p, b) \in Nat
    BY <2>1, PosAfterIs
  <2>3. CASE \E i \in 1..n : b[i] = "newline"
    <3>1. PICK i \in 1..n : b[i] = "newline"
      BY <2>3
    <3>2. PosAfter(p, b) <= n - i
      BY <2>1, <3>1, PosAfterIs
    <3> QED
      BY <1>1, <1>2, <2>2, <3>2 DEF b
  <2>4. CASE ~ \E i \in 1..n : b[i] = "newline"
    <3>1. n < k
      BY <1>2, <1>4, <2>1, <2>4
    <3>2. PosAfter(p, b) = p + n
      <4>1. {i \in DOMAIN b : b[i] = "newline"} = {}
        BY <2>1, <2>4
      <4> QED
        BY <2>1, <4>1 DEF PosAfter
    <3>3. p + n <= BufSize - 1
      BY <1>1, <1>4, <3>1 DEF w
    <3> QED
      BY <1>1, <3>2, <3>3 DEF b
  <2> QED
    BY <2>3, <2>4
<1>7. Reach(p, chars) \in 0..BufSize - 1
  <2> DEFINE at == {PosAfter(p, SubSeq(chars, 1, n)) : n \in 0..Len(chars) - 1}
  <2>1. 0..Len(chars) - 1 = 0..size
    BY <1>2
  <2>2. at \in SUBSET (0..BufSize - 1) /\ at # {}
    <3>1. 0 \in 0..size
      BY <1>2
    <3>2. at = {PosAfter(p, SubSeq(chars, 1, n)) : n \in 0..size}
      BY <2>1
    <3> QED
      BY <1>6, <3>1, <3>2
  <2>3. BufSize - 1 \in Nat
    BY <1>1
  <2> HIDE DEF at
  <2>4. Max(at) \in at
    BY <2>2, <2>3, MaxIsGreatest
  <2>5. Reach(p, chars) = Max(at)
    BY DEF Reach, at
  <2>6. Max(at) \in 0..BufSize - 1
    BY <2>2, <2>4
  <2> QED
    BY <1>1, <2>5, <2>6
<1> QED
  BY <1>5, <1>7 DEF chars, w

(* The parts of a concatenation. *)
LEMMA ConcatIs ==
  ASSUME NEW S, NEW s \in Seq(S), NEW t \in Seq(S)
  PROVE  /\ s \o t \in Seq(S) /\ Len(s \o t) = Len(s) + Len(t)
         /\ \A i \in 1..Len(s) : (s \o t)[i] = s[i]
         /\ \A i \in 1..Len(t) : (s \o t)[Len(s) + i] = t[i]
  OBVIOUS

LEMMA TextConcatIs ==
  ASSUME NEW s \in Seq({"text", "newline"}), NEW t \in Seq({"text", "newline"})
  PROVE  /\ s \o t \in Seq({"text", "newline"}) /\ Len(s \o t) = Len(s) + Len(t)
         /\ \A i \in 1..Len(s) : (s \o t)[i] = s[i]
         /\ \A i \in 1..Len(t) : (s \o t)[Len(s) + i] = t[i]
  OBVIOUS

LEMMA NothingBefore == ASSUME NEW S, NEW s \in Seq(S) PROVE <<>> \o s = s
  OBVIOUS

LEMMA HeadMoves ==
  ASSUME NEW S, NEW s \in Seq(S), NEW t \in Seq(S), t # <<>>
  PROVE  Append(s, Head(t)) \o Tail(t) = s \o t
  OBVIOUS

(* What remains of short lines when the first characters have been read. *)
LEMMA RestOfConcat ==
  ASSUME NEW u \in Seq({"text", "newline"}), NEW s \in Seq({"text", "newline"}),
         NEW n \in 0..Len(u), ShortLines(u \o s)
  PROVE  ShortLines(SubSeq(u, n + 1, Len(u)) \o s)
<1> DEFINE v == SubSeq(u, n + 1, Len(u))
<1>1. /\ v \in Seq({"text", "newline"}) /\ Len(v) = Len(u) - n
      /\ \A i \in 1..Len(v) : v[i] = u[n + i]
  OBVIOUS
<1> HIDE DEF v
<1> DEFINE a == u \o s
<1> DEFINE b == v \o s
<1>2. /\ a \in Seq({"text", "newline"}) /\ Len(a) = Len(u) + Len(s)
      /\ \A i \in 1..Len(u) : a[i] = u[i]
      /\ \A i \in 1..Len(s) : a[Len(u) + i] = s[i]
  BY TextConcatIs, Zenon
<1>3. /\ b \in Seq({"text", "newline"}) /\ Len(b) = Len(v) + Len(s)
      /\ \A i \in 1..Len(v) : b[i] = v[i]
      /\ \A i \in 1..Len(s) : b[Len(v) + i] = s[i]
  BY <1>1, TextConcatIs, Zenon
<1>4. ShortLines(a)
  OBVIOUS
<1> HIDE DEF a, b
<1>5. Len(u) \in Nat /\ Len(s) \in Nat /\ Len(v) \in Nat
  BY <1>1
<1>6. ASSUME NEW i \in 1..Len(b) PROVE b[i] = a[n + i]
  <2>1. CASE i <= Len(v)
    <3>1. i \in 1..Len(v) /\ n + i \in 1..Len(u)
      BY <1>1, <1>5, <2>1
    <3> QED
      BY <1>1, <1>2, <1>3, <3>1
  <2>2. CASE ~(i <= Len(v))
    <3> DEFINE j == i - Len(v)
    <3>1. j \in 1..Len(s) /\ i = Len(v) + j /\ n + i = Len(u) + j
      BY <1>1, <1>3, <1>5, <2>2
    <3> HIDE DEF j
    <3> QED
      BY <1>2, <1>3, <3>1
  <2> QED
    BY <2>1, <2>2
<1>7. Len(b) = Len(a) - n /\ n \in 0..Len(a)
  BY <1>1, <1>2, <1>3, <1>5
<1>8. ShortLines(b)
  BY <1>2, <1>3, <1>4, <1>6, <1>7, SuffixShort
<1> QED
  BY <1>8 DEF b, v

LEMMA NothingIsShort == ShortLines(<<>>)
  BY DEF ShortLines

LEMMA RestIs ==
  ASSUME TCPInv, NEW c \in Client
  PROVE  /\ unread[c] \in Seq({"text", "newline"}) /\ Len(unread[c]) \in Nat
         /\ stream[c] \in Seq({"text", "newline"}) /\ Len(stream[c]) \in Nat
         /\ Rest(c) \in Seq({"text", "newline"})
         /\ Len(Rest(c)) = Len(unread[c]) + Len(stream[c])
         /\ \A i \in 1..Len(unread[c]) : Rest(c)[i] = unread[c][i]
         /\ \A i \in 1..Len(stream[c]) : Rest(c)[Len(unread[c]) + i] = stream[c][i]
<1>1. /\ unread[c] \in Seq({"text", "newline"}) /\ Len(unread[c]) \in Nat
      /\ stream[c] \in Seq({"text", "newline"}) /\ Len(stream[c]) \in Nat
  BY DEF TCPInv, TCPType
<1>2. Rest(c) = unread[c] \o stream[c]
  BY DEF Rest
<1>3. /\ unread[c] \o stream[c] \in Seq({"text", "newline"})
      /\ Len(unread[c] \o stream[c]) = Len(unread[c]) + Len(stream[c])
      /\ \A i \in 1..Len(unread[c]) : (unread[c] \o stream[c])[i] = unread[c][i]
      /\ \A i \in 1..Len(stream[c]) :
           (unread[c] \o stream[c])[Len(unread[c]) + i] = stream[c][i]
  BY <1>1, TextConcatIs, Zenon
<1> QED
  BY <1>1, <1>2, <1>3, Zenon

LEMMA LineInvInit == TCPInit => LineInv
<1> SUFFICES ASSUME TCPInit PROVE LineInv
  OBVIOUS
<1>1. \A c \in Client : Rest(c) = <<>>
  BY DEF TCPInit, Rest
<1>2. pos <= BufSize \div 2
  BY HalfBuffer DEF TCPInit
<1>3. \A c \in Client : client[c] = "out" /\ stream[c] = <<>> /\ unread[c] = <<>>
  BY DEF TCPInit
<1>4. ~overrun
  BY DEF TCPInit
<1> QED
  BY <1>1, <1>2, <1>3, <1>4, NothingIsShort DEF LineInv

(* Steps that neither read nor send. *)
LEMMA LineInvKept ==
  ASSUME LineInv, UNCHANGED <<pos, overrun, client, stream, unread>>,
         \A c \in Client : Absent(c)' => Absent(c)
  PROVE  LineInv'
<1>1. \A c \in Client : Rest(c)' = Rest(c)
  BY DEF Rest
<1>2. \A c \in Client : ShortLines(Rest(c))'
  BY <1>1 DEF LineInv, ShortLines
<1> QED
  BY <1>2 DEF LineInv

LEMMA LineInvQuiet ==
  ASSUME LineInv, Construct \/ NoThread \/ Loop \/ Select \/ AcceptFails \/ UNCHANGED tcp
  PROVE  LineInv'
<1>1. UNCHANGED <<pos, overrun, client, stream, unread, queue, conn>>
  BY DEF Construct, NoThread, Loop, Select, AcceptFails, Scan, clients, line, sockets, tcp
<1>2. \A c \in Client : Absent(c)' => Absent(c)
  BY <1>1 DEF Absent
<1> QED
  BY <1>1, <1>2, LineInvKept

LEMMA LineInvAccept == ASSUME TCPInv, LineInv, Accept PROVE LineInv'
<1> DEFINE fd == Min({f \in Fd : conn[f] = NoClient})
<1> DEFINE c == Head(queue)
<1>1. /\ Scan(Listener) /\ conn' = [conn EXCEPT ![fd] = c] /\ queue' = Tail(queue)
      /\ UNCHANGED <<pos, overrun, client, stream, unread>>
  BY DEF Accept, Scan, clients, line
<1>2. queue # <<>>
  BY <1>1, ScanIsReady DEF TCPInv, Connections
<1>3. fd \in Fd /\ conn[fd] = NoClient
  BY <1>2, FreeDescriptor
<1> HIDE DEF fd
<1>4. /\ c = queue[1] /\ Len(queue) \in Nat \ {0} /\ Len(queue') = Len(queue) - 1
      /\ \A i \in 1..Len(queue) - 1 : queue'[i] = queue[i + 1]
  BY <1>1, <1>2 DEF TCPInv, TCPType
<1> HIDE DEF c
<1>5. conn'[fd] = c /\ \A f \in Fd : f # fd => conn'[f] = conn[f]
  BY <1>1, <1>3 DEF TCPInv, TCPType
<1>6. ASSUME NEW d \in Client, Absent(d)' PROVE Absent(d)
  <2>1. d # c
    BY <1>3, <1>5, <1>6 DEF Absent
  <2>2. \A f \in Fd : conn[f] # d
    BY <1>3, <1>5, <1>6, TCPAssumption DEF Absent
  <2>3. \A i \in 1..Len(queue) : queue[i] # d
    <3> SUFFICES ASSUME NEW i \in 1..Len(queue), queue[i] = d PROVE FALSE
      OBVIOUS
    <3>1. i # 1
      BY <1>4, <2>1
    <3>2. i - 1 \in 1..Len(queue) - 1 /\ (i - 1) + 1 = i
      BY <1>4, <3>1
    <3> QED
      BY <1>4, <1>6, <3>2 DEF Absent
  <2> QED
    BY <2>2, <2>3 DEF Absent
<1> QED
  BY <1>1, <1>6, LineInvKept

(* A client's part of LineInv, for the steps that change one client's. *)
LEMMA LineInvOne ==
  ASSUME LineInv, NEW c \in Client,
         \A d \in Client : d # c => /\ unread'[d] = unread[d] /\ stream'[d] = stream[d]
                                    /\ client'[d] = client[d]
                                    /\ (Absent(d)' => Absent(d)),
         ~overrun', pos' <= BufSize \div 2,
         ShortLines(Rest(c))',
         client'[c] = "closed" => stream'[c] = <<>>,
         Absent(c)' => unread'[c] = <<>> /\ client'[c] # "open"
  PROVE  LineInv'
<1>1. ASSUME NEW d \in Client
      PROVE  /\ ShortLines(Rest(d))'
             /\ client'[d] = "closed" => stream'[d] = <<>>
             /\ Absent(d)' => unread'[d] = <<>> /\ client'[d] # "open"
  <2>1. CASE d = c
    BY <2>1
  <2>2. CASE d # c
    <3>1. Rest(d)' = Rest(d)
      BY <2>2 DEF Rest
    <3>2. ShortLines(Rest(d))'
      BY <3>1 DEF LineInv, ShortLines
    <3> QED
      BY <2>2, <3>2 DEF LineInv
  <2> QED
    BY <2>1, <2>2
<1> QED
  BY <1>1 DEF LineInv

LEMMA LineInvReadNothing ==
  ASSUME TCPInv, TCPInv', LineInv, NEW fd \in Fd, ReadNothing(fd)
  PROVE  LineInv'
<1>0. PICK c \in Client : c = conn[fd]
  BY ScanIsReady DEF ReadNothing
<1>1. /\ Scan(fd) /\ fd # Listener /\ client[c] \in {"closed", "reset"}
      /\ unread' = [unread EXCEPT ![c] = <<>>] /\ conn' = [conn EXCEPT ![fd] = NoClient]
      /\ UNCHANGED <<queue, pos, overrun, client, stream>>
  BY <1>0 DEF ReadNothing, CloseConn, Scan, clients, line
<1>2. c \in Client
  OBVIOUS
<1>3. unread'[c] = <<>> /\ \A d \in Client : d # c => unread'[d] = unread[d]
  BY <1>1, <1>2 DEF TCPInv, TCPType
<1>4. \A d \in Client : d # c => (Absent(d)' => Absent(d))
  BY <1>0, <1>1, TCPAssumption DEF Absent, TCPInv, TCPType
<1>5. SubSeq(unread[c], Len(unread[c]) + 1, Len(unread[c])) = <<>> /\ Len(unread[c]) \in 0..Len(unread[c])
  BY <1>2 DEF TCPInv, TCPType
<1>6. ShortLines(Rest(c)')
  <2>1. /\ unread[c] \in Seq({"text", "newline"}) /\ stream[c] \in Seq({"text", "newline"})
        /\ ShortLines(unread[c] \o stream[c])
    BY DEF TCPInv, TCPType, LineInv, Rest
  <2>2. ShortLines(<<>> \o stream[c])
    BY <1>5, <2>1, RestOfConcat
  <2>3. Rest(c)' = <<>> \o stream[c]
    BY <1>1, <1>3 DEF Rest
  <2> QED
    BY <2>2, <2>3, Zenon
<1>7. ShortLines(Rest(c))'
  BY <1>6 DEF ShortLines
<1> QED
  BY <1>1, <1>2, <1>3, <1>4, <1>7, LineInvOne DEF LineInv

LEMMA LineInvReadSome ==
  ASSUME TCPInv, LineInv, NEW fd \in Fd, ReadSome(fd)
  PROVE  LineInv'
<1>0. PICK c \in Client : c = conn[fd]
  BY ScanIsReady DEF ReadSome
<1> DEFINE size == Min({Len(unread[c]), BufSize - 1})
<1> DEFINE chunk == SubSeq(unread[c], 1, size)
<1>1. /\ Scan(fd) /\ fd # Listener
      /\ size = BufSize - 1 \/ (client[c] = "closed" /\ size > 0)
      /\ unread' = [unread EXCEPT ![c] = SubSeq(@, size + 1, Len(@))]
      /\ UNCHANGED <<queue, conn, client, stream>>
  BY <1>0 DEF ReadSome, Scan, clients, sockets
<1>2. PICK stray \in {"text", "newline"} :
        /\ pos' = PosAfter(pos, chunk \o <<stray>>)
        /\ overrun' = (overrun \/ Reach(pos, chunk \o <<stray>>) >= BufSize)
  BY <1>0 DEF ReadSome
<1>3. c \in Client
  OBVIOUS
<1>4. /\ unread[c] \in Seq({"text", "newline"}) /\ Len(unread[c]) \in Nat
      /\ stream[c] \in Seq({"text", "newline"}) /\ Len(stream[c]) \in Nat
      /\ Rest(c) \in Seq({"text", "newline"})
      /\ Len(Rest(c)) = Len(unread[c]) + Len(stream[c])
      /\ \A i \in 1..Len(unread[c]) : Rest(c)[i] = unread[c][i]
      /\ \A i \in 1..Len(stream[c]) : Rest(c)[Len(unread[c]) + i] = stream[c][i]
  BY <1>3, RestIs
<1>5. /\ size \in 0..Len(unread[c]) /\ size <= BufSize - 1
      /\ size = Len(unread[c]) \/ size = BufSize - 1
      /\ chunk \in Seq({"text", "newline"}) /\ Len(chunk) = size
      /\ \A i \in 1..size : chunk[i] = unread[c][i]
  <2>1. /\ size \in 0..Len(unread[c]) /\ size <= BufSize - 1
        /\ size = Len(unread[c]) \/ size = BufSize - 1
        /\ chunk \in Seq({"text", "newline"}) /\ Len(chunk) = size
    BY <1>4, ReadSize
  <2> HIDE DEF size
  <2> QED
    BY <1>4, <2>1
<1>6. unread'[c] = SubSeq(unread[c], size + 1, Len(unread[c]))
      /\ \A d \in Client : d # c => unread'[d] = unread[d]
  BY <1>1, <1>3 DEF TCPInv, TCPType
<1> HIDE DEF size, chunk
<1>7. PosAfter(pos, chunk \o <<stray>>) <= BufSize \div 2 /\ Reach(pos, chunk \o <<stray>>) \in 0..BufSize - 1
  <2>0. /\ Len(Rest(c)) = Len(unread[c]) + Len(stream[c]) /\ Len(unread[c]) \in Nat
        /\ Len(stream[c]) \in Nat /\ size \in 0..Len(unread[c])
        /\ size = Len(unread[c]) \/ size = BufSize - 1
    BY <1>4, <1>5, Zenon
  <2>1. size \in 1..Len(Rest(c)) /\ (size = BufSize - 1 \/ size = Len(Rest(c)))
    <3>1. CASE size = BufSize - 1
      <4>1. BufSize - 1 >= 1
        BY HalfBuffer
      <4>2. size >= 1
        BY <3>1, <4>1, Zenon
      <4>3. \A a, b, n \in Nat : n \in 0..a /\ n >= 1 => n \in 1..a + b
        OBVIOUS
      <4>4. size \in 1..Len(unread[c]) + Len(stream[c])
        <5>1. size \in Nat
          BY <2>0
        <5> QED
          BY <2>0, <4>2, <4>3, <5>1, Zenon
      <4> QED
        BY <2>0, <3>1, <4>4, Zenon
    <3>2. CASE client[c] = "closed" /\ size > 0 /\ size = Len(unread[c])
      <4>1. Len(stream[c]) = 0
        BY <1>3, <3>2 DEF LineInv
      <4> QED
        BY <2>0, <3>2, <4>1
    <3> QED
      BY <1>1, <1>5, <3>1, <3>2
  <2>2. ASSUME NEW i \in 1..size PROVE chunk[i] = Rest(c)[i]
    <3>1. i \in 1..Len(unread[c])
      BY <2>0
    <3> QED
      BY <1>4, <1>5, <3>1, Zenon
  <2>3. ShortLines(Rest(c)) /\ pos <= BufSize \div 2 /\ pos \in Nat
    BY <1>3 DEF LineInv, TCPInv, TCPType
  <2> QED
    BY <1>4, <1>5, <2>1, <2>2, <2>3, CopyFits
<1>8. pos' <= BufSize \div 2
  BY <1>2, <1>7
<1>9. ~overrun'
  <2>1. ~(Reach(pos, chunk \o <<stray>>) >= BufSize)
    BY <1>7, HalfBuffer
  <2> QED
    BY <1>2, <2>1 DEF LineInv
<1>11. ShortLines(Rest(c)')
  <2>1. ShortLines(unread[c] \o stream[c])
    BY DEF LineInv, Rest
  <2>2. ShortLines(SubSeq(unread[c], size + 1, Len(unread[c])) \o stream[c])
    BY <1>4, <1>5, <2>1, RestOfConcat, Zenon
  <2>3. Rest(c)' = SubSeq(unread[c], size + 1, Len(unread[c])) \o stream[c]
    BY <1>1, <1>6 DEF Rest
  <2> QED
    BY <2>2, <2>3, Zenon
<1>12. ShortLines(Rest(c))'
  BY <1>11 DEF ShortLines
<1>13. /\ \A d \in Client : d # c => (Absent(d)' => Absent(d))
       /\ ~Absent(c)'
  BY <1>0, <1>1 DEF Absent
<1> QED
  BY <1>1, <1>3, <1>6, <1>8, <1>9, <1>12, <1>13, LineInvOne DEF LineInv

LEMMA LineInvConnects ==
  ASSUME TCPInv, LineInv, ~long', NEW c \in Client, Connects(c)
  PROVE  LineInv'
<1>1. /\ client[c] = "out" /\ queue' = Append(queue, c)
      /\ client' = [client EXCEPT ![c] = "open"]
      /\ UNCHANGED <<unread, conn, pos, overrun>>
  BY DEF Connects, line, sockets
<1>2. PICK s \in Stream : stream' = [stream EXCEPT ![c] = s] /\ ShortLines(s)
  BY DEF Connects
<1>3. /\ Len(queue) \in Nat /\ Len(queue') = Len(queue) + 1 /\ queue'[Len(queue) + 1] = c
      /\ \A i \in 1..Len(queue) : queue'[i] = queue[i]
  BY <1>1 DEF TCPInv, TCPType
<1>4. Absent(c)
  BY <1>1, TCPAssumption DEF Absent, TCPInv, Connections
<1>5. unread[c] = <<>>
  BY <1>4 DEF LineInv
<1>6. Rest(c)' = s /\ ShortLines(s)
  <2>1. Rest(c)' = <<>> \o s
    BY <1>1, <1>2, <1>5 DEF Rest, TCPInv, TCPType
  <2>2. s \in Seq({"text", "newline"})
    BY TCPAssumption
  <2> QED
    BY <1>2, <2>1, <2>2, NothingBefore
<1>7. ShortLines(Rest(c))'
  BY <1>6 DEF ShortLines
<1>8. /\ \A d \in Client : d # c => (Absent(d)' => Absent(d))
      /\ ~Absent(c)'
  BY <1>1, <1>3 DEF Absent
<1>9. /\ client'[c] = "open"
      /\ \A d \in Client : d # c => client'[d] = client[d] /\ stream'[d] = stream[d]
  BY <1>1, <1>2 DEF TCPInv, TCPType
<1> QED
  BY <1>1, <1>7, <1>8, <1>9, LineInvOne DEF LineInv

LEMMA LineInvSends ==
  ASSUME TCPInv, LineInv, NEW c \in Client, Sends(c)
  PROVE  LineInv'
<1>1. /\ client[c] = "open" /\ stream[c] # <<>>
      /\ stream' = [stream EXCEPT ![c] = Tail(@)]
      /\ unread' = [unread EXCEPT ![c] = Append(@, Head(stream[c]))]
      /\ UNCHANGED <<client, queue, conn, pos, overrun>>
  BY DEF Sends, line, sockets
<1>2. /\ stream'[c] = Tail(stream[c]) /\ unread'[c] = Append(unread[c], Head(stream[c]))
      /\ \A d \in Client : d # c => unread'[d] = unread[d] /\ stream'[d] = stream[d]
  BY <1>1 DEF TCPInv, TCPType
<1>3. Rest(c)' = Rest(c)
  <2>1. Rest(c)' = Append(unread[c], Head(stream[c])) \o Tail(stream[c])
    BY <1>2 DEF Rest
  <2>2. unread[c] \in Seq({"text", "newline"}) /\ stream[c] \in Seq({"text", "newline"})
    BY DEF TCPInv, TCPType
  <2>3. Append(unread[c], Head(stream[c])) \o Tail(stream[c]) = unread[c] \o stream[c]
    BY <1>1, <2>2, HeadMoves
  <2> QED
    BY <2>1, <2>3 DEF Rest
<1>4. ShortLines(Rest(c))'
  BY <1>3 DEF LineInv, ShortLines
<1>5. \A d \in Client : Absent(d)' => Absent(d)
  BY <1>1 DEF Absent
<1> QED
  BY <1>1, <1>2, <1>4, <1>5, LineInvOne DEF LineInv

LEMMA LineInvEnds ==
  ASSUME TCPInv, LineInv, NEW c \in Client, Closes(c) \/ Resets(c) \/ Forgets(c)
  PROVE  LineInv'
<1>1. UNCHANGED <<unread, queue, conn, pos, overrun>>
  BY DEF Closes, Resets, Forgets, line, sockets
<1>2. \A d \in Client : Absent(d)' <=> Absent(d)
  BY <1>1 DEF Absent
<1>3. \A d \in Client : d # c => client'[d] = client[d] /\ stream'[d] = stream[d]
  BY DEF Closes, Resets, Forgets, TCPInv, TCPType
<1>4. CASE Closes(c) \/ Resets(c)
  <2>1. stream' = stream /\ client'[c] # "open" /\ client[c] = "open"
        /\ (client'[c] = "closed" => stream[c] = <<>>)
    BY <1>4 DEF Closes, Resets, TCPInv, TCPType
  <2>2. ShortLines(Rest(c))'
    <3>1. Rest(c)' = Rest(c)
      BY <1>1, <2>1 DEF Rest
    <3> QED
      BY <3>1 DEF LineInv, ShortLines
  <2> QED
    BY <1>1, <1>2, <1>3, <2>1, <2>2, LineInvOne DEF LineInv
<1>5. CASE Forgets(c)
  <2>1. client'[c] = "out" /\ stream'[c] = <<>> /\ Absent(c)
    <3>1. DOMAIN queue = 1..Len(queue)
      BY DEF TCPInv, TCPType
    <3> QED
      BY <1>5, <3>1 DEF Forgets, Absent, TCPInv, TCPType
  <2>2. unread'[c] = <<>>
    BY <1>1, <2>1 DEF LineInv
  <2>3. ShortLines(Rest(c))'
    <3>1. Rest(c)' = <<>>
      BY <2>1, <2>2 DEF Rest
    <3> QED
      BY <3>1 DEF ShortLines
  <2> QED
    BY <1>1, <1>2, <1>3, <2>1, <2>2, <2>3, LineInvOne DEF LineInv
<1> QED
  BY <1>4, <1>5

(* The TCP server writes outside its line buffer only after a client has    *)
(* come with a line that takes more than half of it or has no end, however  *)
(* the connections' chunks are interleaved and whatever the character is    *)
(* that the loop adds to each (tcp_server.cc:54,84-90).                     *)
THEOREM LinesFit == Spec => []LineFits
<1>1. Init => long \/ LineInv
  BY LineInvInit DEF Init
<1>2. Inv /\ Inv' /\ (long \/ LineInv) /\ [Next]_vars => long' \/ LineInv'
  <2> SUFFICES ASSUME TCPInv, TCPInv', long \in BOOLEAN, long \/ LineInv, [Next]_vars, ~long'
               PROVE  LineInv'
    BY DEF Inv
  <2>0. LineInv
    BY TCPInvStays, LongStays DEF Next, vars, tcp, clients
  <2>1. CASE UNCHANGED tcp
    BY <2>0, <2>1, LineInvQuiet
  <2>2. CASE TCPNext
    BY <2>0, <2>2, LineInvQuiet, LineInvAccept, LineInvReadNothing, LineInvReadSome,
       LineInvConnects, LineInvSends, LineInvEnds
       DEF TCPNext, TCPThread, ClientStep
  <2> QED
    BY <2>1, <2>2 DEF Next, vars
<1>3. long \/ LineInv => LineFits
  BY DEF LineInv, LineFits
<1> QED
  BY <1>1, <1>2, <1>3, InvAlways, PTL DEF Spec

-----------------------------------------------------------------------------
(* The ranks of a finite set of numbers are 1, 2, ... up to its size, each  *)
(* of them once.                                                            *)
LEMMA RankRange ==
  ASSUME NEW E \in SUBSET Nat, IsFiniteSet(E), NEW e \in E
  PROVE  Rank(E, e) \in 1..Cardinality(E) /\ Cardinality(E) \in Nat
<1> DEFINE B == {x \in E : x <= e}
<1>1. B \in SUBSET E /\ e \in B
  OBVIOUS
<1>2. IsFiniteSet(B) /\ Cardinality(B) <= Cardinality(E)
  BY <1>1, FS_Subset
<1>3. Cardinality(B) \in Nat /\ Cardinality(E) \in Nat
  BY <1>2, FS_CardinalityType
<1>4. Cardinality(B) # 0
  BY <1>1, <1>2, FS_EmptySet
<1>5. Rank(E, e) = Cardinality(B)
  BY DEF Rank
<1> HIDE DEF B
<1> QED
  BY <1>2, <1>3, <1>4, <1>5

LEMMA RankGrows ==
  ASSUME NEW E \in SUBSET Nat, IsFiniteSet(E), NEW e \in E, NEW f \in E, e < f
  PROVE  Rank(E, e) # Rank(E, f)
<1> DEFINE B == {x \in E : x <= e}
<1> DEFINE C == {x \in E : x <= f}
<1>1. e \in Nat /\ f \in Nat
  OBVIOUS
<1>2. C \in SUBSET E /\ B \in SUBSET C /\ f \in C /\ f \notin B
  <2>1. \A x \in E : x <= e => x <= f
    BY <1>1
  <2>2. ~(f <= e) /\ f <= f
    BY <1>1
  <2> QED
    BY <2>1, <2>2, Zenon
<1>3. IsFiniteSet(C)
  BY <1>2, FS_Subset
<1>4. Cardinality(C) = Cardinality(B) => C = B
  BY <1>2, <1>3, FS_Subset
<1> QED
  BY <1>2, <1>4 DEF Rank

LEMMA NthIs ==
  ASSUME NEW E \in SUBSET Nat, IsFiniteSet(E)
  PROVE  /\ \A e \in E : Nth(E, Rank(E, e)) = e
         /\ \A k \in 1..Cardinality(E) : Nth(E, k) \in E /\ Rank(E, Nth(E, k)) = k
<1>1. \A e, f \in E : Rank(E, e) = Rank(E, f) => e = f
  <2> SUFFICES ASSUME NEW e \in E, NEW f \in E, Rank(E, e) = Rank(E, f), e # f PROVE FALSE
    OBVIOUS
  <2>1. e < f \/ f < e
    OBVIOUS
  <2> QED
    BY <2>1, RankGrows
<1>2. ASSUME NEW e \in E PROVE Nth(E, Rank(E, e)) = e
  BY <1>1 DEF Nth
<1>3. ASSUME NEW k \in 1..Cardinality(E) PROVE \E e \in E : Rank(E, e) = k
  <2> DEFINE n == Cardinality(E)
  <2> DEFINE g == [e \in E |-> Rank(E, e)]
  <2>1. n \in Nat /\ IsFiniteSet(1..n) /\ Cardinality(1..n) = n
    BY FS_CardinalityType, FS_Interval
  <2>2. g \in Injection(E, 1..n)
    BY <1>1, RankRange DEF Injection, IsInjective
  <2>3. g \in Surjection(E, 1..n)
    BY <2>1, <2>2, FS_Injection
  <2> QED
    BY <2>3 DEF Surjection
<1>4. ASSUME NEW k \in 1..Cardinality(E) PROVE Nth(E, k) \in E /\ Rank(E, Nth(E, k)) = k
  BY <1>3 DEF Nth
<1> QED
  BY <1>2, <1>4

(* F is E without its least element m, counted from there: every element is *)
(* one rank lower.                                                          *)
Shifted(E, m, F) ==
  /\ E \in SUBSET Nat /\ IsFiniteSet(E)
  /\ m \in E /\ \A e \in E : m <= e
  /\ F = {e - m : e \in E \ {m}}

LEMMA RankShifts ==
  ASSUME NEW E, NEW m, NEW F, Shifted(E, m, F)
  PROVE  /\ F \in SUBSET Nat /\ IsFiniteSet(F) /\ Cardinality(E) = Cardinality(F) + 1
         /\ Cardinality(F) \in Nat
         /\ Nth(E, 1) = m
         /\ \A k \in 1..Cardinality(F) : Nth(E, k + 1) = Nth(F, k) + m
<1>0. E \in SUBSET Nat /\ IsFiniteSet(E) /\ m \in E /\ \A e \in E : m <= e
  BY Zenon DEF Shifted
<1>1. \A e \in E : e \in Nat /\ m \in Nat /\ e - m \in Nat /\ (e - m) + m = e
  BY <1>0
<1>2. F \in SUBSET Nat /\ F = {e - m : e \in E \ {m}}
  BY <1>1 DEF Shifted
<1>3. ASSUME NEW A \in SUBSET (E \ {m})
      PROVE  LET G == {e - m : e \in A}
             IN  IsFiniteSet(G) /\ Cardinality(G) = Cardinality(A) /\ Cardinality(A) \in Nat
                 /\ IsFiniteSet(A)
  <2> DEFINE G == {e - m : e \in A}
  <2> DEFINE g == [e \in A |-> e - m]
  <2>1. IsFiniteSet(A)
    <3>1. A \in SUBSET E
      OBVIOUS
    <3> QED
      BY <1>0, <3>1, FS_Subset
  <2>2. g \in [A -> G] /\ \A y \in G : \E e \in A : g[e] = y
    OBVIOUS
  <2>3. \A e, f \in A : g[e] = g[f] => e = f
    <3> SUFFICES ASSUME NEW e \in A, NEW f \in A, e - m = f - m PROVE e = f
      OBVIOUS
    <3> QED
      BY <1>1
  <2>4. g \in Bijection(A, G)
    BY <2>2, <2>3 DEF Bijection, Injection, Surjection, IsInjective
  <2>5. ExistsBijection(A, G)
    BY <2>4 DEF ExistsBijection
  <2>6. IsFiniteSet(G) /\ Cardinality(G) = Cardinality(A)
    BY <2>1, <2>5, FS_Bijection
  <2> QED
    BY <2>1, <2>6, FS_CardinalityType
<1>4. /\ IsFiniteSet(F) /\ Cardinality(F) = Cardinality(E \ {m}) /\ Cardinality(F) \in Nat
  BY <1>2, <1>3
<1>5. Cardinality(E) = Cardinality(F) + 1
  <2>1. Cardinality(E \ {m}) = Cardinality(E) - 1
    BY <1>0, FS_RemoveElement
  <2>2. Cardinality(E) \in Nat
    BY <1>0, FS_CardinalityType
  <2> QED
    BY <1>4, <2>1, <2>2
<1>6. Nth(E, 1) = m
  <2>0. \A x \in E : x <= m <=> x = m
    BY <1>0, <1>1
  <2>1. {x \in E : x <= m} = {m}
    BY <1>0, <2>0, Zenon
  <2>2. Rank(E, m) = 1
    BY <2>1, FS_Singleton DEF Rank
  <2> QED
    BY <1>0, <2>2, NthIs
<1>7. ASSUME NEW k \in 1..Cardinality(F) PROVE Nth(E, k + 1) = Nth(F, k) + m
  <2> DEFINE f == Nth(F, k)
  <2>1. f \in F /\ Rank(F, f) = k
    BY <1>2, <1>4, NthIs
  <2> HIDE DEF f
  <2>2. PICK e \in E \ {m} : f = e - m
    BY <1>2, <2>1
  <2> DEFINE A == {x \in E \ {m} : x <= e}
  <2>3. {x - m : x \in A} = {y \in F : y <= f}
    <3>1. \A x \in E : x <= e <=> x - m <= f
      BY <1>1, <2>2
    <3> QED
      BY <1>2, <3>1
  <2>4. Cardinality(A) = k /\ IsFiniteSet(A)
    <3>1. A \in SUBSET (E \ {m})
      OBVIOUS
    <3> HIDE DEF A
    <3> QED
      BY <1>3, <2>1, <2>3, <3>1 DEF Rank
  <2>5. {x \in E : x <= e} = A \cup {m} /\ m \notin A
    BY <1>0, <1>1
  <2>6. Rank(E, e) = k + 1
    <3> HIDE DEF A
    <3> QED
      BY <2>4, <2>5, FS_AddElement DEF Rank
  <2>7. Nth(E, k + 1) = e
    BY <1>0, <2>6, NthIs
  <2> QED
    BY <1>1, <2>2, <2>7 DEF f
<1> QED
  BY <1>2, <1>4, <1>5, <1>6, <1>7

-----------------------------------------------------------------------------
(* Before and After, on a sequence of anything. *)
LEMMA BeforeIs ==
  ASSUME NEW S, NEW s \in Seq(S), NEW c
  PROVE  LET n == Len(Before(c, s))
         IN  /\ Before(c, s) = SubSeq(s, 1, n) /\ Before(c, s) \in Seq(S)
             /\ n \in 0..Len(s)
             /\ \A i \in 1..n : s[i] # c
             /\ n < Len(s) => s[n + 1] = c
<1> DEFINE I == {i \in 1..Len(s) : s[i] = c}
<1>1. Len(s) \in Nat /\ I \in SUBSET Nat
  OBVIOUS
<1>2. CASE I = {}
  <2>1. Before(c, s) = s
    BY <1>2 DEF Before, SelectInSeq
  <2>2. \A i \in 1..Len(s) : s[i] # c
    BY <1>2
  <2>3. SubSeq(s, 1, Len(s)) = s
    OBVIOUS
  <2> QED
    BY <1>1, <2>1, <2>2, <2>3
<1>3. CASE I # {}
  <2> DEFINE m == Min(I)
  <2>1. m \in I /\ \A i \in I : m <= i
    BY <1>1, <1>3, MinIsLeast
  <2>2. Before(c, s) = SubSeq(s, 1, m - 1)
    <3>1. m # 0
      BY <2>1
    <3> QED
      BY <1>3, <3>1 DEF Before, SelectInSeq
  <2>3. m \in 1..Len(s) /\ s[m] = c /\ \A i \in 1..Len(s) : s[i] = c => m <= i
    BY <2>1
  <2> HIDE DEF m, I
  <2>4. m - 1 \in 0..Len(s) /\ (m - 1) + 1 = m /\ m \in Nat
    BY <1>1, <2>3
  <2>5. Len(SubSeq(s, 1, m - 1)) = m - 1 /\ SubSeq(s, 1, m - 1) \in Seq(S)
    BY <2>3, <2>4
  <2>6. \A i \in 1..m - 1 : s[i] # c
    BY <1>1, <2>3, <2>4
  <2> QED
    BY <2>2, <2>3, <2>4, <2>5, <2>6
<1> QED
  BY <1>2, <1>3

LEMMA BeforeIsUnique ==
  ASSUME NEW S, NEW s \in Seq(S), NEW c, NEW n \in 0..Len(s),
         \A i \in 1..n : s[i] # c, n < Len(s) => s[n + 1] = c
  PROVE  Before(c, s) = SubSeq(s, 1, n)
<1> DEFINE k == Len(Before(c, s))
<1>1. /\ Before(c, s) = SubSeq(s, 1, k) /\ k \in 0..Len(s)
      /\ \A i \in 1..k : s[i] # c
      /\ k < Len(s) => s[k + 1] = c
  BY BeforeIs
<1> HIDE DEF k
<1>2. Len(s) \in Nat
  OBVIOUS
<1>3. ~(k < n) 
  BY <1>1, <1>2
<1>4. ~(n < k)
  BY <1>1, <1>2
<1>5. k = n
  BY <1>1, <1>2, <1>3, <1>4
<1> QED
  BY <1>1, <1>5

(* The ends of the lines of a text, and of what follows the first of them. *)
LEMMA EndsShift ==
  ASSUME NEW S, NEW s \in Seq(S), s # <<>>, NEW m, m = Len(Before(NL, s)) + 1
  PROVE  LET E == LineEnds(s)
             a == After(NL, s)
         IN  /\ m \in E /\ (\A e \in E : m <= e) /\ m \in 1..Len(s) + 1
             /\ a = SubSeq(s, m + 1, Len(s))
             /\ E \in SUBSET Nat /\ IsFiniteSet(E) /\ E \in SUBSET (1..Len(s) + 1)
             /\ LineEnds(a) = {e - m : e \in E \ {m}}
             /\ Before(NL, s) = SubSeq(s, 1, m - 1)
             /\ a \in Seq(S) /\ Len(a) = IF m <= Len(s) THEN Len(s) - m ELSE 0
<1> DEFINE E == LineEnds(s)
<1> DEFINE a == After(NL, s)
<1>1. /\ Before(NL, s) = SubSeq(s, 1, m - 1) /\ m - 1 \in 0..Len(s) /\ m \in 1..Len(s) + 1
      /\ \A i \in 1..m - 1 : s[i] # NL
      /\ m <= Len(s) => s[m] = NL
      /\ Len(s) \in Nat \ {0}
  <2> DEFINE n == Len(Before(NL, s))
  <2>1. /\ Before(NL, s) = SubSeq(s, 1, n) /\ n \in 0..Len(s)
        /\ \A i \in 1..n : s[i] # NL
        /\ n < Len(s) => s[n + 1] = NL
    BY BeforeIs
  <2> HIDE DEF n
  <2>2. m = n + 1 /\ m - 1 = n
    BY <2>1 DEF n
  <2>3. Len(s) \in Nat \ {0}
    OBVIOUS
  <2> QED
    BY <2>1, <2>2, <2>3
<1>2. E \in SUBSET (1..Len(s) + 1) /\ E \in SUBSET Nat /\ IsFiniteSet(E)
  <2>1. E \in SUBSET (1..Len(s) + 1) /\ E \in SUBSET Nat
    BY <1>1 DEF LineEnds
  <2>2. \A e \in E : e <= Len(s) + 1
    BY <2>1
  <2> QED
    BY <1>1, <2>1, <2>2, FS_BoundedSetOfNaturals
<1>3. \A e \in 1..Len(s) + 1 :
        e \in E <=> IF e = Len(s) + 1 THEN s[Len(s)] # NL ELSE s[e] = NL
  BY <1>1 DEF LineEnds
<1>4. m \in E /\ \A e \in E : m <= e
  <2> HIDE DEF E
  <2>1. m \in E
    <3>1. CASE m = Len(s) + 1
      <4>1. Len(s) \in 1..m - 1
        BY <1>1, <3>1
      <4> QED
        BY <1>1, <1>3, <3>1, <4>1
    <3>2. CASE m # Len(s) + 1
      BY <1>1, <1>3, <3>2
    <3> QED
      BY <3>1, <3>2
  <2>2. ASSUME NEW e \in E, e < m PROVE FALSE
    <3>1. e \in 1..m - 1 /\ e \in 1..Len(s) + 1 /\ e # Len(s) + 1
      BY <1>1, <1>2, <2>2
    <3> QED
      BY <1>1, <1>3, <3>1
  <2> QED
    BY <1>1, <1>2, <2>1, <2>2
<1>5. a = SubSeq(s, m + 1, Len(s))
  <2>1. Len(Before(NL, s)) + 2 = m + 1
    <3>1. Len(Before(NL, s)) \in Nat
      BY BeforeIs
    <3> QED
      BY <3>1
  <2> QED
    BY <2>1 DEF After
<1>6. /\ a \in Seq(S) /\ Len(a) = IF m <= Len(s) THEN Len(s) - m ELSE 0
      /\ \A i \in 1..Len(a) : a[i] = s[m + i]
  BY <1>1, <1>5
<1>7. \A y : y \in LineEnds(a) <=> y \in 1..Len(a) + 1 /\ Len(a) > 0
                                    /\ IF y = Len(a) + 1 THEN a[Len(a)] # NL ELSE a[y] = NL
  <2> HIDE DEF a
  <2>1. Len(a) \in Nat
    BY <1>6
  <2> QED
    BY <2>1 DEF LineEnds
<1> HIDE DEF E, a
<1> DEFINE la == Len(a)
<1> DEFINE ls == Len(s)
<1>8. /\ m \in Nat \ {0} /\ ls \in Nat \ {0} /\ la \in Nat /\ m <= ls + 1
      /\ m <= ls => la = ls - m
      /\ m > ls => la = 0
  <2>1. la \in Nat
    BY <1>6
  <2>2. la = IF m <= ls THEN ls - m ELSE 0
    BY <1>6, Zenon
  <2>3. ls \in Nat \ {0} /\ m \in 1..ls + 1
    BY <1>1, Zenon
  <2> HIDE DEF la, ls
  <2> QED
    BY <2>1, <2>2, <2>3
<1>9. \A e \in 1..ls + 1 : e \in E <=> IF e = ls + 1 THEN s[ls] # NL ELSE s[e] = NL
  BY <1>3, Zenon
<1>10. \A i \in 1..la : a[i] = s[m + i]
  BY <1>6, Zenon
<1>11. \A y : y \in LineEnds(a) <=> y \in 1..la + 1 /\ la > 0
                                    /\ IF y = la + 1 THEN a[la] # NL ELSE a[y] = NL
  BY <1>7, Zenon
<1>12. E \in SUBSET (1..ls + 1) /\ (\A e \in E : m <= e) /\ (m <= ls => s[m] = NL)
  BY <1>1, <1>2, <1>4, Zenon
<1> HIDE DEF la, ls
<1>13. ASSUME NEW y \in LineEnds(a) PROVE y \in {e - m : e \in E \ {m}}
  <2>0. y \in 1..la + 1 /\ la > 0
    BY <1>11, <1>13, Zenon
  <2>1. m <= ls /\ la = ls - m
    BY <1>8, <2>0
  <2>2. m + y \in 1..ls + 1 /\ m + y # m /\ (m + y) - m = y
    BY <1>8, <2>0, <2>1
  <2>3. m + y \in E
    <3>1. CASE y = la + 1
      <4>1. m + y = ls + 1 /\ m + la = ls /\ la \in 1..la
        BY <1>8, <2>0, <2>1, <3>1
      <4>2. a[la] # NL
        BY <1>11, <1>13, <3>1, Zenon
      <4> QED
        BY <1>9, <1>10, <2>2, <4>1, <4>2, Zenon
    <3>2. CASE y # la + 1
      <4>1. y \in 1..la /\ m + y # ls + 1
        BY <1>8, <2>0, <2>1, <3>2
      <4>2. a[y] = s[m + y] /\ a[y] = NL
        BY <1>10, <1>11, <1>13, <3>2, <4>1, Zenon
      <4> QED
        BY <1>9, <2>2, <4>1, <4>2, Zenon
    <3> QED
      BY <3>1, <3>2
  <2> QED
    BY <2>2, <2>3
<1>14. ASSUME NEW e \in E \ {m} PROVE e - m \in LineEnds(a)
  <2> DEFINE y == e - m
  <2>0. e \in 1..ls + 1 /\ m <= e /\ e # m
    BY <1>12, Zenon
  <2>1. m <= ls /\ la = ls - m /\ y \in 1..la + 1 /\ m + y = e
    BY <1>8, <2>0
  <2>2. la > 0
    <3> SUFFICES ASSUME la = 0 PROVE FALSE
      BY <1>8
    <3>1. m = ls /\ e = ls + 1
      BY <1>8, <2>0, <2>1
    <3>2. s[ls] = NL
      BY <1>12, <2>1, <3>1, Zenon
    <3> QED
      BY <1>9, <2>0, <3>1, <3>2, Zenon
  <2> HIDE DEF y
  <2>3. CASE y = la + 1
    <3>1. e = ls + 1 /\ m + la = ls /\ la \in 1..la
      BY <1>8, <2>1, <2>2, <2>3
    <3>2. a[la] # NL
      BY <1>10, <1>9, <2>0, <3>1, Zenon
    <3> QED
      BY <1>11, <2>1, <2>2, <2>3, <3>2 DEF y
  <2>4. CASE y # la + 1
    <3>1. y \in 1..la /\ e # ls + 1
      BY <1>8, <2>1, <2>4
    <3>2. a[y] = NL
      BY <1>10, <1>9, <2>0, <2>1, <3>1, Zenon
    <3> QED
      BY <1>11, <2>1, <2>2, <2>4, <3>2 DEF y
  <2> QED
    BY <2>3, <2>4
<1>15. LineEnds(a) = {e - m : e \in E \ {m}}
  BY <1>13, <1>14
<1> QED
  BY <1>1, <1>2, <1>4, <1>5, <1>6, <1>15 DEF E, a

(* A part of the end of a sequence is a part of the sequence. *)
LEMMA SuffixSubSeq ==
  ASSUME NEW S, NEW s \in Seq(S), NEW m \in 1..Len(s) + 1,
         NEW a, a = SubSeq(s, m + 1, Len(s)),
         NEW lo \in Nat, NEW hi \in Nat, 1 <= lo, hi <= Len(a)
  PROVE  SubSeq(a, lo, hi) = SubSeq(s, m + lo, m + hi)
<1>1. Len(s) \in Nat /\ m \in Nat
  OBVIOUS
<1>2. /\ a \in Seq(S) /\ Len(a) \in Nat /\ Len(a) = IF m <= Len(s) THEN Len(s) - m ELSE 0
      /\ \A i \in 1..Len(a) : a[i] = s[m + i]
  BY <1>1
<1>3. CASE lo > hi
  <2>1. SubSeq(a, lo, hi) = <<>> /\ SubSeq(s, m + lo, m + hi) = <<>>
    BY <1>1, <1>3
  <2> QED
    BY <2>1
<1>4. CASE lo <= hi
  <2> DEFINE u == SubSeq(a, lo, hi)
  <2> DEFINE v == SubSeq(s, m + lo, m + hi)
  <2>1. /\ u \in Seq(S) /\ Len(u) = (hi - lo) + 1
        /\ \A i \in 1..(hi - lo) + 1 : u[i] = a[(lo + i) - 1]
    BY <1>2, <1>4
  <2>2. m + hi <= Len(s)
    BY <1>1, <1>2, <1>4
  <2>3. /\ v \in Seq(S) /\ Len(v) = (hi - lo) + 1
        /\ \A i \in 1..(hi - lo) + 1 : v[i] = s[((m + lo) + i) - 1]
    BY <1>1, <1>4, <2>2
  <2> HIDE DEF u, v
  <2>4. ASSUME NEW i \in 1..(hi - lo) + 1 PROVE u[i] = v[i]
    <3>1. (lo + i) - 1 \in 1..Len(a) /\ m + ((lo + i) - 1) = ((m + lo) + i) - 1
      BY <1>1, <1>2, <1>4
    <3> QED
      BY <1>2, <2>1, <2>3, <3>1, Zenon
  <2>5. u = v
    BY <2>1, <2>3, <2>4, SeqEqual
  <2> QED
    BY <2>5 DEF u, v
<1> QED
  BY <1>3, <1>4

(* The first line of a text is what is before the first newline, the others *)
(* are the lines of what is after it.                                       *)
LEMMA LinesAre ==
  ASSUME NEW S, NEW s \in Seq(S), s # <<>>
  PROVE  LET a == After(NL, s)
         IN  /\ Len(Lines(a)) \in Nat /\ Len(Lines(s)) = Len(Lines(a)) + 1
             /\ Lines(s)[1] = Before(NL, s)
             /\ \A k \in 1..Len(Lines(a)) : Lines(s)[k + 1] = Lines(a)[k]
<1> DEFINE m == Len(Before(NL, s)) + 1
<1> DEFINE E == LineEnds(s)
<1> DEFINE a == After(NL, s)
<1> DEFINE F == LineEnds(a)
<1>1. /\ m \in E /\ (\A e \in E : m <= e) /\ m \in 1..Len(s) + 1
      /\ a = SubSeq(s, m + 1, Len(s))
      /\ E \in SUBSET Nat /\ IsFiniteSet(E) /\ E \in SUBSET (1..Len(s) + 1)
      /\ F = {e - m : e \in E \ {m}}
      /\ Before(NL, s) = SubSeq(s, 1, m - 1)
      /\ a \in Seq(S) /\ Len(a) = IF m <= Len(s) THEN Len(s) - m ELSE 0
  BY EndsShift
<1> HIDE DEF m, E, a, F
<1>2. /\ F \in SUBSET Nat /\ IsFiniteSet(F) /\ Cardinality(E) = Cardinality(F) + 1
      /\ Cardinality(F) \in Nat
      /\ Nth(E, 1) = m
      /\ \A k \in 1..Cardinality(F) : Nth(E, k + 1) = Nth(F, k) + m
  <2>1. Shifted(E, m, F)
    BY <1>1, Zenon DEF Shifted
  <2> QED
    BY <2>1, RankShifts
<1> DEFINE n == Cardinality(F)
<1>3. /\ Lines(s) = [k \in 1..n + 1 |->
                       SubSeq(s, (IF k = 1 THEN 1 ELSE Nth(E, k - 1) + 1), Nth(E, k) - 1)]
      /\ Lines(a) = [k \in 1..n |->
                       SubSeq(a, (IF k = 1 THEN 1 ELSE Nth(F, k - 1) + 1), Nth(F, k) - 1)]
  BY <1>2 DEF Lines, E, F
<1>4. n \in Nat
  BY <1>2
<1> HIDE DEF n
<1>5. Len(Lines(s)) = n + 1 /\ Len(Lines(a)) = n
  <2>1. DOMAIN Lines(s) = 1..n + 1 /\ DOMAIN Lines(a) = 1..n
    BY <1>3
  <2> QED
    BY <1>3, <1>4
<1>6. Lines(s)[1] = Before(NL, s)
  <2>1. 1 \in 1..n + 1
    BY <1>4
  <2>2. Lines(s)[1] = SubSeq(s, 1, Nth(E, 1) - 1)
    BY <1>3, <2>1
  <2> QED
    BY <1>1, <1>2, <2>2
<1>7. ASSUME NEW k \in 1..n PROVE Lines(s)[k + 1] = Lines(a)[k]
  <2> DEFINE lo == IF k = 1 THEN 1 ELSE Nth(F, k - 1) + 1
  <2> DEFINE hi == Nth(F, k) - 1
  <2>1. /\ k + 1 \in 1..n + 1 /\ k + 1 # 1 /\ (k + 1) - 1 = k
        /\ k # 1 => k - 1 \in 1..n /\ (k - 1) + 1 = k
    BY <1>4
  <2>2. Lines(a)[k] = SubSeq(a, lo, hi)
    BY <1>3
  <2>3. Lines(s)[k + 1] = SubSeq(s, Nth(E, k) + 1, Nth(E, k + 1) - 1)
    BY <1>3, <2>1
  <2>4. Nth(F, k) \in F /\ (k # 1 => Nth(F, k - 1) \in F)
    BY <1>2, <2>1, NthIs DEF n
  <2>5. \A f \in F : f \in Nat /\ f >= 1 /\ f <= Len(a) + 1
    <3>1. ASSUME NEW f \in F PROVE f \in Nat /\ f >= 1 /\ f <= Len(a) + 1
      <4>1. PICK e \in E \ {m} : f = e - m
        BY <1>1
      <4>2. e \in 1..Len(s) + 1 /\ m <= e /\ m # e /\ m \in 1..Len(s) + 1
            /\ Len(a) = IF m <= Len(s) THEN Len(s) - m ELSE 0
        BY <1>1
      <4>3. Len(s) \in Nat
        OBVIOUS
      <4> DEFINE ls == Len(s)
      <4> DEFINE la == Len(a)
      <4>4. ls \in Nat /\ e \in 1..ls + 1 /\ m <= e /\ m # e /\ m \in 1..ls + 1
            /\ la = IF m <= ls THEN ls - m ELSE 0
        BY <4>2, <4>3, Zenon
      <4> HIDE DEF ls, la
      <4>5. f \in Nat /\ f >= 1 /\ f <= la + 1
        BY <4>1, <4>4
      <4> QED
        BY <4>5 DEF la
    <3> QED
      BY <3>1
  <2>6. lo \in Nat /\ hi \in Nat /\ 1 <= lo /\ hi <= Len(a)
    <3>1. /\ Nth(F, k) \in Nat /\ Nth(F, k) >= 1 /\ Nth(F, k) <= Len(a) + 1
          /\ (k # 1 => Nth(F, k - 1) \in Nat)
      BY <2>4, <2>5
    <3>2. Len(a) \in Nat
      BY <1>1
    <3> QED
      BY <3>1, <3>2
  <2>7. Nth(E, k) + 1 = m + lo /\ Nth(E, k + 1) - 1 = m + hi
    <3>1. m \in Nat /\ Nth(F, k) \in Nat /\ (k # 1 => Nth(F, k - 1) \in Nat)
      BY <1>1, <2>4, <2>5
    <3>2. Nth(E, k + 1) = Nth(F, k) + m
      BY <1>2 DEF n
    <3>3. CASE k = 1
      BY <1>2, <3>1, <3>2, <3>3
    <3>4. CASE k # 1
      <4>1. Nth(E, k) = Nth(F, k - 1) + m
        BY <1>2, <2>1, <3>4 DEF n
      <4> QED
        BY <3>1, <3>2, <3>4, <4>1
    <3> QED
      BY <3>3, <3>4
  <2> HIDE DEF lo, hi
  <2>8. SubSeq(a, lo, hi) = SubSeq(s, m + lo, m + hi)
    <3>1. m \in 1..Len(s) + 1 /\ a = SubSeq(s, m + 1, Len(s))
      BY <1>1, Zenon
    <3> QED
      BY <2>6, <3>1, SuffixSubSeq
  <2> QED
    BY <2>2, <2>3, <2>7, <2>8
<1> QED
  BY <1>4, <1>5, <1>6, <1>7 DEF a, n

LEMMA NoLines == Lines(<<>>) = <<>>
<1>1. LineEnds(<<>>) = {}
  BY DEF LineEnds
<1>2. Cardinality(LineEnds(<<>>)) = 0
  BY <1>1, FS_EmptySet
<1> QED
  BY <1>2 DEF Lines

-----------------------------------------------------------------------------
(* The texts that a datagram can leave in a buffer. *)
LEMMA TextIs ==
  ASSUME NEW s
  PROVE  s \in Text <=> s \in Seq(Char \ {NUL}) /\ Len(s) <= MaxMsgSize
<1>1. MaxMsgSize \in Nat
  BY UDPAssumption
<1>2. ASSUME s \in Text PROVE s \in Seq(Char \ {NUL}) /\ Len(s) <= MaxMsgSize
  <2>1. PICK m \in 0..MaxMsgSize : s \in [1..m -> Char \ {NUL}]
    BY <1>2 DEF Text, BoundedSeq, SeqOf
  <2>2. m \in Nat /\ m <= MaxMsgSize
    BY <1>1
  <2>3. s \in Seq(Char \ {NUL}) /\ Len(s) = m
    BY <2>1, <2>2
  <2> QED
    BY <2>2, <2>3
<1>3. ASSUME s \in Seq(Char \ {NUL}), Len(s) <= MaxMsgSize PROVE s \in Text
  <2>1. Len(s) \in 0..MaxMsgSize /\ s \in [1..Len(s) -> Char \ {NUL}]
    BY <1>1, <1>3
  <2> QED
    BY <2>1 DEF Text, BoundedSeq, SeqOf
<1> QED
  BY <1>2, <1>3

LEMMA AfterIs ==
  ASSUME NEW S, NEW s \in Seq(S), s # <<>>
  PROVE  After(NL, s) \in Seq(S) /\ Len(After(NL, s)) <= Len(s)
<1> DEFINE n == Len(Before(NL, s))
<1>1. n \in Nat /\ Len(s) \in Nat
  BY BeforeIs
<1>2. After(NL, s) = SubSeq(s, n + 2, Len(s))
  BY DEF After
<1> HIDE DEF n
<1>3. SubSeq(s, n + 2, Len(s)) \in Seq(S) /\ Len(SubSeq(s, n + 2, Len(s))) <= Len(s)
  BY <1>1
<1> QED
  BY <1>2, <1>3

(* What follows a line of a text is a text. *)
LEMMA AfterIsText ==
  ASSUME NEW s \in Text, s # <<>>
  PROVE  After(NL, s) \in Text
<1>1. s \in Seq(Char \ {NUL}) /\ Len(s) <= MaxMsgSize /\ MaxMsgSize \in Nat
  BY TextIs, UDPAssumption
<1>2. After(NL, s) \in Seq(Char \ {NUL}) /\ Len(After(NL, s)) <= Len(s)
  BY <1>1, AfterIs
<1>3. Len(s) \in Nat /\ Len(After(NL, s)) \in Nat
  BY <1>1, <1>2
<1>4. Len(After(NL, s)) <= MaxMsgSize
  BY <1>1, <1>2, <1>3
<1> QED
  BY <1>2, <1>4, TextIs

(* The C string of a buffer, or of a datagram. *)
LEMMA StringIsText ==
  ASSUME NEW b \in Seq(Char), NEW n \in 0..MaxMsgSize, n <= Len(b),
         n < Len(b) => b[n + 1] = NUL
  PROVE  Before(NUL, b) \in Text
<1> DEFINE k == Len(Before(NUL, b))
<1>1. /\ Before(NUL, b) = SubSeq(b, 1, k) /\ k \in 0..Len(b)
      /\ \A i \in 1..k : b[i] # NUL
      /\ Before(NUL, b) \in Seq(Char)
  BY BeforeIs
<1>2. Len(b) \in Nat /\ MaxMsgSize \in Nat /\ k = Len(Before(NUL, b))
  BY UDPAssumption
<1> HIDE DEF k
<1>3. k <= n
  <2> SUFFICES ASSUME n < k PROVE FALSE
    BY <1>1, <1>2
  <2>1. n + 1 \in 1..k /\ n < Len(b)
    BY <1>1, <1>2
  <2> QED
    BY <1>1, <2>1
<1>4. \A i \in 1..k : Before(NUL, b)[i] \in Char \ {NUL}
  <2>1. \A i \in 1..k : SubSeq(b, 1, k)[i] = b[i] /\ b[i] \in Char
    BY <1>1, <1>2
  <2> QED
    BY <1>1, <2>1
<1>5. Before(NUL, b) \in Seq(Char \ {NUL})
  <2> DEFINE p == Before(NUL, b)
  <2>1. p \in Seq(Char) /\ Len(p) = k /\ k \in Nat /\ \A i \in 1..k : p[i] \in Char \ {NUL}
    BY <1>1, <1>2, <1>4
  <2> HIDE DEF p
  <2>2. p \in [1..k -> Char \ {NUL}]
    BY <2>1
  <2>3. p \in Seq(Char \ {NUL})
    BY <2>1, <2>2
  <2> QED
    BY <2>3 DEF p
<1>6. Len(Before(NUL, b)) <= MaxMsgSize
  <2>1. k <= MaxMsgSize
    BY <1>1, <1>2, <1>3
  <2> QED
    BY <1>2, <2>1, Zenon
<1> QED
  BY <1>5, <1>6, TextIs

(* Receiving a datagram leaves its string, whatever the buffer held. *)
LEMMA StringReceived ==
  ASSUME UDPType, NEW t \in Thread, NEW d \in Datagram,
         NEW b, b = d \o <<NUL>> \o SubSeq(buff[t], Len(d) + 2, MaxMsgSize + 1)
  PROVE  Before(NUL, b) = Before(NUL, d) /\ Before(NUL, d) \in Text
<1>1. /\ b \in Seq(Char) /\ Len(b) = MaxMsgSize + 1
      /\ \A i \in 1..Len(d) : b[i] = d[i]
      /\ b[Len(d) + 1] = NUL
  BY Received
<1>2. d \in Seq(Char) /\ Len(d) \in Nat /\ Len(d) <= MaxMsgSize /\ MaxMsgSize \in Nat
  BY UDPAssumption
<1> DEFINE k == Len(Before(NUL, d))
<1>3. /\ Before(NUL, d) = SubSeq(d, 1, k) /\ k \in 0..Len(d)
      /\ \A i \in 1..k : d[i] # NUL
      /\ k < Len(d) => d[k + 1] = NUL
  BY <1>2, BeforeIs
<1> HIDE DEF k
<1>4. k \in 0..Len(b) /\ (\A i \in 1..k : b[i] # NUL) /\ b[k + 1] = NUL
  <2> DEFINE ld == Len(d)
  <2>0. ld \in Nat /\ ld <= MaxMsgSize /\ MaxMsgSize \in Nat /\ k \in 0..ld
    BY <1>2, <1>3, Zenon
  <2>1. k \in 0..Len(b) /\ k \in Nat /\ (\A i \in 1..k : i \in 1..Len(d))
    <3> HIDE DEF ld
    <3>1. k \in 0..MaxMsgSize + 1 /\ k \in Nat /\ \A i \in 1..k : i \in 1..ld
      BY <2>0
    <3> QED
      BY <1>1, <3>1, Zenon DEF ld
  <2>5. k = Len(d) \/ k < Len(d)
    <3> HIDE DEF ld
    <3>1. k = ld \/ k < ld
      BY <2>0
    <3> QED
      BY <3>1 DEF ld
  <2>2. \A i \in 1..k : b[i] # NUL
    BY <1>1, <1>3, <2>1
  <2>3. CASE k = Len(d)
    BY <1>1, <2>1, <2>2, <2>3
  <2>4. CASE k < Len(d)
    <3>1. k + 1 \in 1..Len(d)
      BY <1>2, <2>1, <2>4
    <3> QED
      BY <1>1, <1>3, <2>1, <2>2, <2>4, <3>1
  <2> QED
    BY <2>3, <2>4, <2>5
<1>5. Before(NUL, b) = SubSeq(b, 1, k)
  BY <1>1, <1>4, BeforeIsUnique
<1>6. SubSeq(b, 1, k) = SubSeq(d, 1, k)
  <2> DEFINE u == SubSeq(b, 1, k)
  <2> DEFINE v == SubSeq(d, 1, k)
  <2>1. u \in Seq(Char) /\ Len(u) = k /\ \A i \in 1..k : u[i] = b[i]
    BY <1>1, <1>4
  <2>2. v \in Seq(Char) /\ Len(v) = k /\ \A i \in 1..k : v[i] = d[i]
    BY <1>2, <1>3
  <2>3. \A i \in 1..k : i \in 1..Len(d)
    BY <1>2, <1>3
  <2> HIDE DEF u, v
  <2>4. \A i \in 1..k : u[i] = v[i]
    BY <1>1, <2>1, <2>2, <2>3
  <2>5. u = v
    BY <2>1, <2>2, <2>4, SeqEqual
  <2> QED
    BY <2>5 DEF u, v
<1>7. Before(NUL, d) \in Text
  <2>1. Len(d) \in 0..MaxMsgSize /\ Len(d) <= Len(d) /\ ~(Len(d) < Len(d))
    BY <1>2
  <2> QED
    BY <1>2, <2>1, StringIsText
<1> QED
  BY <1>3, <1>5, <1>6, <1>7

LEMMA LinesType ==
  ASSUME NEW S, NEW s \in Seq(S)
  PROVE  Lines(s) \in Seq(Seq(S)) /\ Len(Lines(s)) \in Nat
<1> DEFINE E == LineEnds(s)
<1> DEFINE n == Cardinality(E)
<1>1. Len(s) \in Nat
  OBVIOUS
<1>2. E \in SUBSET (1..Len(s) + 1) /\ E \in SUBSET Nat
  BY <1>1 DEF LineEnds
<1>3. IsFiniteSet(E)
  <2>1. \A e \in E : e <= Len(s) + 1
    BY <1>1, <1>2
  <2> QED
    BY <1>1, <1>2, <2>1, FS_BoundedSetOfNaturals
<1>4. n \in Nat
  BY <1>3, FS_CardinalityType
<1> HIDE DEF E
<1>5. \A k \in 1..n : Nth(E, k) \in E
  BY <1>2, <1>3, NthIs
<1> DEFINE lo(k) == IF k = 1 THEN 1 ELSE Nth(E, k - 1) + 1
<1>6. Lines(s) = [k \in 1..n |-> SubSeq(s, lo(k), Nth(E, k) - 1)]
  BY DEF Lines, E
<1>7. ASSUME NEW k \in 1..n PROVE SubSeq(s, lo(k), Nth(E, k) - 1) \in Seq(S)
  <2>1. k # 1 => k - 1 \in 1..n
    BY <1>4
  <2>2. Nth(E, k) \in 1..Len(s) + 1 /\ (k # 1 => Nth(E, k - 1) \in 1..Len(s) + 1)
    BY <1>2, <1>5, <2>1
  <2> DEFINE i == lo(k)
  <2> DEFINE j == Nth(E, k) - 1
  <2>3. i \in Nat /\ 1 <= i /\ j \in Nat /\ j <= Len(s)
    BY <1>1, <2>2
  <2> HIDE DEF i, j
  <2>4. SubSeq(s, i, j) \in Seq(S)
    BY <1>1, <2>3
  <2> QED
    BY <2>4 DEF i, j
<1> HIDE DEF lo, n
<1>8. Lines(s) \in [1..n -> Seq(S)]
  BY <1>6, <1>7
<1> DEFINE T == Seq(S)
<1>9. Lines(s) \in [1..n -> T]
  BY <1>8
<1> HIDE DEF T
<1>10. Lines(s) \in Seq(T) /\ Len(Lines(s)) = n
  BY <1>4, <1>9
<1> QED
  BY <1>4, <1>10 DEF T

-----------------------------------------------------------------------------
(* A thread among the lines of a packet has handed over the first of them,  *)
(* and the others are those of what is left of its stringstream.            *)
Reading(t) ==
  /\ pkt[t] \in Text
  /\ Before(NUL, buff[t]) \in Text
  /\ HalfDone(t) \in 0..Len(handed[t])
  /\ \A i \in 1..HalfDone(t) :
       handed[t][(Len(handed[t]) - HalfDone(t)) + i] = LinesOf(buff[t])[i]
  /\ \A i \in 1..Len(LinesIn[pkt[t]]) :
       LinesOf(buff[t])[HalfDone(t) + i] = LinesIn[pkt[t]][i]

FeedInv ==
  /\ pkt \in [Thread -> Seq(Char)]
  /\ handed \in [Thread -> Seq(Seq(Char))]
  /\ \A t \in Thread : pc[t] = "lines" => Reading(t)

(* The mapping, thread by thread. *)
InboxOf(t)   == Current(t) \o [i \in DOMAIN waiting[t] |-> LinesOf(waiting[t][i])]
HandledOf(t) == SubSeq(handed[t], 1, Len(handed[t]) - HalfDone(t))

LEMMA MappingIs ==
  /\ Inbox = [t \in Thread |-> InboxOf(t)]
  /\ Handled = [t \in Thread |-> HandledOf(t)]
  /\ Inbox' = [t \in Thread |-> InboxOf(t)']
  /\ Handled' = [t \in Thread |-> HandledOf(t)']
  BY DEF Inbox, Handled, InboxOf, HandledOf

LEMMA LinesOfText == ASSUME NEW s \in Text PROVE LinesIn[s] \in Seq(Seq(Char)) /\ Len(LinesIn[s]) \in Nat
<1>1. LinesIn[s] = Lines(s)
  BY DEF LinesIn
<1>2. s \in Seq(Char)
  <2>1. s \in Seq(Char \ {NUL})
    BY TextIs
  <2> QED
    BY <2>1
<1> QED
  BY <1>1, <1>2, LinesType

(* The threads that do not move. *)
LEMMA OthersKept ==
  ASSUME NEW u \in Thread, pc'[u] = pc[u], buff'[u] = buff[u], pkt'[u] = pkt[u],
         handed'[u] = handed[u], waiting'[u] = waiting[u]
  PROVE  /\ InboxOf(u)' = InboxOf(u) /\ HandledOf(u)' = HandledOf(u)
         /\ HalfDone(u)' = HalfDone(u)
         /\ Reading(u) => Reading(u)'
<1>1. LinesOf(buff[u])' = LinesOf(buff[u]) /\ (LinesIn[pkt[u]])' = LinesIn[pkt[u]]
  OBVIOUS
<1>2. HalfDone(u)' = HalfDone(u)
  BY <1>1 DEF HalfDone
<1>3. Current(u)' = Current(u)
  BY <1>1 DEF Current
<1>4. InboxOf(u)' = InboxOf(u)
  BY <1>3 DEF InboxOf
<1>5. HandledOf(u)' = HandledOf(u)
  BY <1>2 DEF HandledOf
<1>6. Reading(u) => Reading(u)'
  BY <1>1, <1>2 DEF Reading
<1> QED
  BY <1>2, <1>4, <1>5, <1>6

LEMMA OneElement == ASSUME NEW x PROVE <<x>> \in Seq({x}) /\ <<>> \in Seq({x})
  OBVIOUS

(* The lines of waiting datagrams, behind others. *)
LEMMA MapAppend ==
  ASSUME NEW S, NEW c \in Seq(S), NEW w \in Seq(Datagram), NEW d \in Datagram
  PROVE  c \o [i \in DOMAIN Append(w, d) |-> LinesOf(Append(w, d)[i])]
           = Append(c \o [i \in DOMAIN w |-> LinesOf(w[i])], LinesOf(d))
<1> DEFINE f == [i \in DOMAIN w |-> LinesOf(w[i])]
<1> DEFINE g == [i \in DOMAIN Append(w, d) |-> LinesOf(Append(w, d)[i])]
<1> DEFINE T == {LinesOf(x) : x \in Datagram}
<1>1. /\ Len(w) \in Nat /\ DOMAIN w = 1..Len(w) /\ DOMAIN Append(w, d) = 1..Len(w) + 1
      /\ \A i \in 1..Len(w) : Append(w, d)[i] = w[i] /\ w[i] \in Datagram
      /\ Append(w, d)[Len(w) + 1] = d
  OBVIOUS
<1>2. f \in Seq(T) /\ Len(f) = Len(w)
  <2>1. f \in [1..Len(w) -> T]
    BY <1>1
  <2> HIDE DEF f, T
  <2> QED
    BY <1>1, <2>1
<1>3. g = Append(f, LinesOf(d))
  <2> DEFINE e == LinesOf(d)
  <2>1. DOMAIN g = 1..Len(w) + 1 /\ g[Len(w) + 1] = e /\ \A i \in 1..Len(w) : g[i] = f[i]
    BY <1>1
  <2>2. g = [i \in DOMAIN g |-> g[i]]
    OBVIOUS
  <2>3. e \in T
    OBVIOUS
  <2> HIDE DEF e, f, g, T
  <2>4. Append(f, e) \in Seq(T) /\ DOMAIN Append(f, e) = 1..Len(w) + 1
        /\ Append(f, e)[Len(w) + 1] = e /\ \A i \in 1..Len(w) : Append(f, e)[i] = f[i]
    BY <1>1, <1>2, <2>3
  <2>5. \A i \in 1..Len(w) + 1 : g[i] = Append(f, e)[i]
    <3>1. \A i \in 1..Len(w) + 1 : i \in 1..Len(w) \/ i = Len(w) + 1
      BY <1>1
    <3> QED
      BY <2>1, <2>4, <3>1, Zenon
  <2>6. g = Append(f, e)
    BY <2>1, <2>2, <2>4, <2>5
  <2> QED
    BY <2>6 DEF e
<1> DEFINE U == S \cup T
<1>4. c \in Seq(U) /\ f \in Seq(U) /\ LinesOf(d) \in U
  <2>1. LinesOf(d) \in U
    OBVIOUS
  <2> HIDE DEF f, T
  <2> QED
    BY <1>2, <2>1
<1> HIDE DEF f, g, U
<1>5. c \o Append(f, LinesOf(d)) = Append(c \o f, LinesOf(d))
  BY <1>4
<1> QED
  BY <1>3, <1>5 DEF f, g

(* Only thread t moves. *)
Frame(t) ==
  \A u \in Thread : u # t => /\ pc'[u] = pc[u] /\ buff'[u] = buff[u] /\ pkt'[u] = pkt[u]
                            /\ handed'[u] = handed[u] /\ waiting'[u] = waiting[u]

LEMMA FeedFrame ==
  ASSUME FeedInv, NEW t \in Thread, Frame(t),
         pkt' \in [Thread -> Seq(Char)], handed' \in [Thread -> Seq(Seq(Char))],
         pc'[t] = "lines" => Reading(t)'
  PROVE  /\ FeedInv'
         /\ \A u \in Thread : u # t => InboxOf(u)' = InboxOf(u) /\ HandledOf(u)' = HandledOf(u)
<1>1. ASSUME NEW u \in Thread, u # t
      PROVE  /\ InboxOf(u)' = InboxOf(u) /\ HandledOf(u)' = HandledOf(u)
             /\ pc'[u] = "lines" => Reading(u)'
  <2>1. /\ pc'[u] = pc[u] /\ buff'[u] = buff[u] /\ pkt'[u] = pkt[u]
        /\ handed'[u] = handed[u] /\ waiting'[u] = waiting[u]
    BY <1>1 DEF Frame
  <2>2. /\ InboxOf(u)' = InboxOf(u) /\ HandledOf(u)' = HandledOf(u)
        /\ Reading(u) => Reading(u)'
    BY <2>1, OthersKept
  <2>3. pc[u] = "lines" => Reading(u)
    BY DEF FeedInv
  <2> QED
    BY <2>1, <2>2, <2>3
<1>2. \A u \in Thread : pc'[u] = "lines" => Reading(u)'
  BY <1>1
<1>3. FeedInv'
  BY <1>2 DEF FeedInv
<1> QED
  BY <1>1, <1>3

LEMMA FeedStutters ==
  ASSUME \A u \in Thread : InboxOf(u)' = InboxOf(u) /\ HandledOf(u)' = HandledOf(u)
  PROVE  UNCHANGED Feed!vars
<1>1. Inbox' = Inbox /\ Handled' = Handled
  BY MappingIs
<1> QED
  BY <1>1 DEF Feed!vars

(* Steps of a thread that is not among the lines of a packet. *)
LEMMA FeedQuiet ==
  ASSUME UDPType, FeedInv, NEW t \in Thread,
         NEW from \in {"start", "bind", "loop", "recv"}, NEW to \in {"bind", "loop", "recv", "ended"},
         At(t, from, to), UNCHANGED <<waiting, buff, pkt, handed>>
  PROVE  FeedInv' /\ UNCHANGED Feed!vars
<1>1. pc[t] # "lines" /\ pc'[t] # "lines" /\ Frame(t)
  BY DEF At, Frame, UDPType
<1>2. /\ FeedInv'
      /\ \A u \in Thread : u # t => InboxOf(u)' = InboxOf(u) /\ HandledOf(u)' = HandledOf(u)
  <2>1. pkt' \in [Thread -> Seq(Char)] /\ handed' \in [Thread -> Seq(Seq(Char))]
    BY DEF FeedInv
  <2> QED
    BY <1>1, <2>1, FeedFrame
<1>3. HalfDone(t)' = HalfDone(t) /\ Current(t)' = Current(t)
  BY <1>1 DEF HalfDone, Current
<1>4. InboxOf(t)' = InboxOf(t) /\ HandledOf(t)' = HandledOf(t)
  BY <1>3 DEF InboxOf, HandledOf
<1> QED
  BY <1>2, <1>4, FeedStutters

(* Leaving is Feed's Quit. *)
LEMMA FeedLeave ==
  ASSUME UDPType, FeedInv, NEW t \in Thread, NEW from \in {"bind", "loop", "recv"}, Leave(t, from)
  PROVE  FeedInv' /\ Feed!Next
<1>1. /\ pc[t] = from /\ pc' = [pc EXCEPT ![t] = "ended"]
      /\ waiting' = [waiting EXCEPT ![t] = <<>>] /\ UNCHANGED <<buff, pkt, handed>>
  BY DEF Leave, At
<1>2. pc[t] # "lines" /\ pc'[t] = "ended" /\ waiting'[t] = <<>> /\ Frame(t)
  BY <1>1 DEF Frame, UDPType
<1>3. /\ FeedInv'
      /\ \A u \in Thread : u # t => InboxOf(u)' = InboxOf(u) /\ HandledOf(u)' = HandledOf(u)
  <2>1. pkt' \in [Thread -> Seq(Char)] /\ handed' \in [Thread -> Seq(Seq(Char))]
    BY <1>1 DEF FeedInv
  <2> QED
    BY <1>2, <2>1, FeedFrame
<1>4. HandledOf(t)' = HandledOf(t)
  BY <1>1, <1>2 DEF HandledOf, HalfDone
<1>5. InboxOf(t)' = <<>>
  <2>1. InboxOf(t)' = <<>> \o [i \in DOMAIN waiting'[t] |-> LinesOf(waiting'[t][i])]
    BY <1>2 DEF InboxOf, Current
  <2>2. [i \in DOMAIN waiting'[t] |-> LinesOf(waiting'[t][i])] = <<>>
    BY <1>2
  <2> QED
    BY <2>1, <2>2
<1>6. Handled' = Handled /\ Inbox' = [Inbox EXCEPT ![t] = <<>>]
  BY <1>3, <1>4, <1>5, MappingIs
<1>7. Feed!Quit(t)
  BY <1>6 DEF Feed!Quit
<1> QED
  BY <1>3, <1>7 DEF Feed!Next

(* A datagram that arrives is a packet of Feed. *)
LEMMA FeedArrive ==
  ASSUME UDPType, FeedInv, NEW t \in Thread, NEW d \in Datagram, Arrive(t, d)
  PROVE  FeedInv' /\ Feed!Next
<1>1. /\ waiting' = [waiting EXCEPT ![t] = Append(@, d)]
      /\ UNCHANGED <<pc, buff, pkt, handed>>
  BY DEF Arrive
<1>2. waiting'[t] = Append(waiting[t], d) /\ waiting[t] \in Seq(Datagram) /\ Frame(t)
  BY <1>1 DEF Frame, UDPType
<1>3. HalfDone(t)' = HalfDone(t) /\ Current(t)' = Current(t)
  BY <1>1 DEF HalfDone, Current
<1>4. pc'[t] = "lines" => Reading(t)'
  <2>1. pc[t] = "lines" => Reading(t)
    BY DEF FeedInv
  <2>2. Reading(t) => Reading(t)'
    BY <1>1, <1>3 DEF Reading
  <2> QED
    BY <1>1, <2>1, <2>2
<1>5. /\ FeedInv'
      /\ \A u \in Thread : u # t => InboxOf(u)' = InboxOf(u) /\ HandledOf(u)' = HandledOf(u)
  <2>1. pkt' \in [Thread -> Seq(Char)] /\ handed' \in [Thread -> Seq(Seq(Char))]
    BY <1>1 DEF FeedInv
  <2> QED
    BY <1>2, <1>4, <2>1, FeedFrame
<1>6. HandledOf(t)' = HandledOf(t)
  BY <1>1, <1>3 DEF HandledOf
<1>7. InboxOf(t)' = Append(InboxOf(t), LinesOf(d))
  <2> DEFINE w == waiting[t]
  <2> DEFINE f == [i \in DOMAIN w |-> LinesOf(w[i])]
  <2> DEFINE g == [i \in DOMAIN Append(w, d) |-> LinesOf(Append(w, d)[i])]
  <2>1. InboxOf(t) = Current(t) \o f /\ InboxOf(t)' = Current(t) \o g
    BY <1>2, <1>3 DEF InboxOf
  <2>2. Current(t) \in Seq({LinesOf(buff[t])})
    <3>1. Current(t) = <<LinesOf(buff[t])>> \/ Current(t) = <<>>
      BY DEF Current
    <3> QED
      BY <3>1, OneElement, Zenon
  <2>3. w \in Seq(Datagram)
    BY <1>2
  <2>4. Current(t) \o g = Append(Current(t) \o f, LinesOf(d))
    <3> HIDE DEF w
    <3> QED
      BY <2>2, <2>3, MapAppend
  <2> QED
    BY <2>1, <2>4
<1>8. Handled' = Handled /\ Inbox' = [Inbox EXCEPT ![t] = Append(@, LinesOf(d))]
  BY <1>5, <1>6, <1>7, MappingIs
<1>9. Feed!Arrive(t, LinesOf(d))
  BY <1>8 DEF Feed!Arrive
<1> QED
  BY <1>5, <1>9 DEF Feed!Next

(* The lines of a sequence of datagrams. *)
LEMMA MapIs ==
  ASSUME NEW w \in Seq(Datagram)
  PROVE  LET f == [i \in DOMAIN w |-> LinesOf(w[i])]
         IN  /\ f \in Seq({LinesOf(x) : x \in Datagram}) /\ Len(f) = Len(w)
             /\ \A i \in 1..Len(w) : f[i] = LinesOf(w[i])
<1> DEFINE f == [i \in DOMAIN w |-> LinesOf(w[i])]
<1> DEFINE T == {LinesOf(x) : x \in Datagram}
<1>1. Len(w) \in Nat /\ DOMAIN w = 1..Len(w) /\ \A i \in 1..Len(w) : w[i] \in Datagram
  OBVIOUS
<1>2. f \in [1..Len(w) -> T] /\ \A i \in 1..Len(w) : f[i] = LinesOf(w[i])
  BY <1>1
<1>3. f \in Seq(T) /\ Len(f) = Len(w)
  <2> HIDE DEF f, T
  <2> QED
    BY <1>1, <1>2
<1> QED
  BY <1>2, <1>3

LEMMA MapHead ==
  ASSUME NEW w \in Seq(Datagram), w # <<>>
  PROVE  <<LinesOf(Head(w))>> \o [i \in DOMAIN Tail(w) |-> LinesOf(Tail(w)[i])]
           = <<>> \o [i \in DOMAIN w |-> LinesOf(w[i])]
<1> DEFINE T == {LinesOf(x) : x \in Datagram}
<1> DEFINE f == [i \in DOMAIN w |-> LinesOf(w[i])]
<1> DEFINE g == [i \in DOMAIN Tail(w) |-> LinesOf(Tail(w)[i])]
<1> DEFINE e == LinesOf(Head(w))
<1>1. /\ Len(w) \in Nat \ {0} /\ Tail(w) \in Seq(Datagram) /\ Len(Tail(w)) = Len(w) - 1
      /\ \A i \in 1..Len(w) - 1 : Tail(w)[i] = w[i + 1]
      /\ Head(w) = w[1] /\ Head(w) \in Datagram
  OBVIOUS
<1>2. f \in Seq(T) /\ Len(f) = Len(w) /\ \A i \in 1..Len(w) : f[i] = LinesOf(w[i])
  BY MapIs
<1>3. g \in Seq(T) /\ Len(g) = Len(w) - 1 /\ \A i \in 1..Len(w) - 1 : g[i] = LinesOf(Tail(w)[i])
  <2>1. g \in Seq(T) /\ Len(g) = Len(Tail(w)) /\ \A i \in 1..Len(Tail(w)) : g[i] = LinesOf(Tail(w)[i])
    BY <1>1, MapIs
  <2> QED
    BY <1>1, <2>1, Zenon
<1>4. e = f[1] /\ e \in T /\ \A i \in 1..Len(w) - 1 : g[i] = f[i + 1]
  <2>1. 1 \in 1..Len(w) /\ \A i \in 1..Len(w) - 1 : i + 1 \in 1..Len(w)
    BY <1>1
  <2>2. e \in T
    BY <1>1
  <2> HIDE DEF f, g, T
  <2> QED
    BY <1>1, <1>2, <1>3, <2>1, <2>2, Zenon
<1> DEFINE n == Len(w)
<1>5. /\ n \in Nat \ {0} /\ f \in Seq(T) /\ Len(f) = n /\ g \in Seq(T) /\ Len(g) = n - 1
      /\ e = f[1] /\ e \in T /\ \A i \in 1..n - 1 : g[i] = f[i + 1]
  BY <1>1, <1>2, <1>3, <1>4, Zenon
<1> HIDE DEF e, f, g, T, n
<1>6. <<e>> \o g \in Seq(T) /\ Len(<<e>> \o g) = n
      /\ \A i \in 1..n : (<<e>> \o g)[i] = IF i = 1 THEN e ELSE g[i - 1]
  BY <1>5
<1>7. \A i \in 1..n : (<<e>> \o g)[i] = f[i]
  BY <1>5, <1>6
<1>8. <<e>> \o g = f
  BY <1>5, <1>6, <1>7, SeqEqual
<1>9. <<>> \o f = f
  BY <1>5
<1> QED
  BY <1>8, <1>9 DEF e, f, g

(* Receiving a datagram moves it from the kernel to the buffer. *)
LEMMA FeedReceive ==
  ASSUME UDPType, FeedInv, NEW t \in Thread, Receive(t)
  PROVE  FeedInv' /\ UNCHANGED Feed!vars
<1> DEFINE w == waiting[t]
<1> DEFINE d == Head(w)
<1> DEFINE b == d \o <<NUL>> \o SubSeq(buff[t], Len(d) + 2, MaxMsgSize + 1)
<1>1. /\ w # <<>> /\ pc[t] = "recv" /\ pc' = [pc EXCEPT ![t] = "lines"]
      /\ waiting' = [waiting EXCEPT ![t] = Tail(w)]
      /\ buff' = [buff EXCEPT ![t] = b]
      /\ pkt' = [pkt EXCEPT ![t] = Before(NUL, buff'[t])]
      /\ handed' = handed
  BY DEF Receive, At
<1>2. w \in Seq(Datagram) /\ d \in Datagram
  BY <1>1 DEF UDPType
<1>3. Before(NUL, b) = Before(NUL, d) /\ Before(NUL, d) \in Text
  BY <1>2, StringReceived
<1> DEFINE p == Before(NUL, d)
<1>4. /\ pc'[t] = "lines" /\ waiting'[t] = Tail(w) /\ buff'[t] = b /\ pkt'[t] = p /\ Frame(t)
  <2> HIDE DEF b
  <2>1. pc'[t] = "lines" /\ waiting'[t] = Tail(w) /\ buff'[t] = b
    BY <1>1 DEF UDPType
  <2>2. pkt'[t] = p
    BY <1>1, <1>3, <2>1 DEF FeedInv
  <2>3. Frame(t)
    BY <1>1 DEF Frame, UDPType, FeedInv
  <2> QED
    BY <2>1, <2>2, <2>3
<1> HIDE DEF b
<1>5. LinesOf(b) = LinesIn[p] /\ LinesOf(d) = LinesIn[p]
  BY <1>3 DEF LinesOf
<1>6. p \in Text /\ LinesIn[p] \in Seq(Seq(Char)) /\ Len(LinesIn[p]) \in Nat
  BY <1>3, LinesOfText
<1>7. HalfDone(t) = 0 /\ HalfDone(t)' = 0
  <2>1. HalfDone(t)' = Len(LinesIn[p]) - Len(LinesIn[p])
    BY <1>4, <1>5 DEF HalfDone
  <2>2. HalfDone(t) = 0
    BY <1>1 DEF HalfDone
  <2> QED
    BY <1>6, <2>1, <2>2
<1> HIDE DEF p
<1>8. Reading(t)'
  <2>1. pkt'[t] \in Text /\ Before(NUL, buff'[t]) \in Text
    BY <1>3, <1>4, <1>6 DEF p
  <2>2. HalfDone(t)' \in 0..Len(handed'[t])
    <3>1. Len(handed'[t]) \in Nat
      BY <1>1 DEF FeedInv
    <3> QED
      BY <1>7, <3>1
  <2>3. \A i \in 1..HalfDone(t)' : FALSE
    BY <1>7
  <2>4. ASSUME NEW i \in 1..Len(LinesIn[pkt'[t]])
        PROVE  LinesOf(buff'[t])[HalfDone(t)' + i] = LinesIn[pkt'[t]][i]
    <3>1. HalfDone(t)' + i = i
      BY <1>4, <1>6, <1>7, <2>4
    <3> QED
      BY <1>4, <1>5, <3>1
  <2> QED
    BY <2>1, <2>2, <2>3, <2>4 DEF Reading
<1>9. /\ FeedInv'
      /\ \A u \in Thread : u # t => InboxOf(u)' = InboxOf(u) /\ HandledOf(u)' = HandledOf(u)
  <2>1. Before(NUL, buff'[t]) \in Seq(Char)
    <3>1. p \in Seq(Char \ {NUL})
      BY <1>6, TextIs
    <3>2. p \in Seq(Char)
      BY <3>1
    <3> QED
      BY <1>3, <1>4, <3>2 DEF p
  <2>2. pkt' \in [Thread -> Seq(Char)] /\ handed' \in [Thread -> Seq(Seq(Char))]
    BY <1>1, <2>1 DEF FeedInv
  <2> QED
    BY <1>4, <1>8, <2>2, FeedFrame
<1>10. HandledOf(t)' = HandledOf(t)
  BY <1>1, <1>7 DEF HandledOf
<1>11. InboxOf(t)' = InboxOf(t)
  <2>1. InboxOf(t) = <<>> \o [i \in DOMAIN w |-> LinesOf(w[i])]
    BY <1>1 DEF InboxOf, Current
  <2>2. InboxOf(t)' = <<LinesOf(b)>> \o [i \in DOMAIN Tail(w) |-> LinesOf(Tail(w)[i])]
    BY <1>4 DEF InboxOf, Current
  <2>3. LinesOf(b) = LinesOf(Head(w))
    BY <1>5
  <2> HIDE DEF w, d
  <2>4. <<LinesOf(Head(w))>> \o [i \in DOMAIN Tail(w) |-> LinesOf(Tail(w)[i])]
           = <<>> \o [i \in DOMAIN w |-> LinesOf(w[i])]
    BY <1>1, <1>2, MapHead
  <2> QED
    BY <2>1, <2>2, <2>3, <2>4
<1> QED
  BY <1>9, <1>10, <1>11, FeedStutters

(* Handing a line over leaves the packet where it is. *)
LEMMA FeedNextLine ==
  ASSUME UDPType, FeedInv, NEW t \in Thread, NextLine(t)
  PROVE  FeedInv' /\ UNCHANGED Feed!vars
<1> DEFINE p == pkt[t]
<1> DEFINE a == After(NL, p)
<1> DEFINE x == Before(NL, p)
<1> DEFINE H == handed[t]
<1> DEFINE h == Len(H)
<1> DEFINE n == HalfDone(t)
<1> DEFINE all == LinesOf(buff[t])
<1>1. /\ pc[t] = "lines" /\ p # <<>> /\ handed' = [handed EXCEPT ![t] = Append(H, x)]
      /\ pkt' = [pkt EXCEPT ![t] = a] /\ UNCHANGED <<pc, waiting, buff>>
  BY DEF NextLine
<1>2. Reading(t) /\ H \in Seq(Seq(Char)) /\ h \in Nat
  BY <1>1 DEF FeedInv
<1>3. p \in Text /\ a \in Text /\ p \in Seq(Char)
  <2>1. p \in Text
    BY <1>2 DEF Reading
  <2>2. p \in Seq(Char \ {NUL})
    BY <2>1, TextIs
  <2>3. p \in Seq(Char)
    BY <2>2
  <2> QED
    BY <1>1, <2>1, <2>3, AfterIsText
<1>4. handed'[t] = Append(H, x) /\ pkt'[t] = a /\ buff'[t] = buff[t] /\ pc'[t] = "lines" /\ Frame(t)
  <2>1. handed'[t] = Append(H, x) /\ pkt'[t] = a /\ Frame(t)
    BY <1>1 DEF FeedInv, Frame
  <2> QED
    BY <1>1, <2>1
<1> DEFINE k == Len(LinesIn[a])
<1>5. /\ k \in Nat /\ Len(LinesIn[p]) = k + 1 /\ LinesIn[p][1] = x
      /\ \A i \in 1..k : LinesIn[p][i + 1] = LinesIn[a][i]
  <2>1. LinesIn[p] = Lines(p) /\ LinesIn[a] = Lines(a)
    BY <1>3 DEF LinesIn
  <2> QED
    BY <1>1, <1>3, <2>1, LinesAre
<1>6. x \in Seq(Char) /\ a \in Seq(Char)
  BY <1>1, <1>3, BeforeIs, AfterIs
<1>7. /\ n \in 0..h /\ (\A i \in 1..n : H[(h - n) + i] = all[i])
      /\ \A i \in 1..k + 1 : all[n + i] = LinesIn[p][i]
      /\ n = Len(all) - (k + 1)
  BY <1>1, <1>2, <1>5 DEF Reading, HalfDone
<1>8. Len(all) \in Nat
  <2>1. Before(NUL, buff[t]) \in Text
    BY <1>2 DEF Reading
  <2> QED
    BY <2>1, LinesOfText DEF LinesOf
<1>9. HalfDone(t)' = n + 1
  <2>1. HalfDone(t)' = Len(all) - k
    BY <1>4 DEF HalfDone
  <2> HIDE DEF n, all, k
  <2> QED
    BY <1>5, <1>7, <1>8, <2>1
<1>10. /\ Append(H, x) \in Seq(Seq(Char)) /\ Len(Append(H, x)) = h + 1
       /\ Append(H, x)[h + 1] = x /\ \A i \in 1..h : Append(H, x)[i] = H[i]
  <2> DEFINE S == Seq(Char)
  <2>1. H \in Seq(S) /\ x \in S
    BY <1>2, <1>6
  <2> HIDE DEF S, H, x
  <2>2. /\ Append(H, x) \in Seq(S) /\ Len(Append(H, x)) = h + 1
        /\ Append(H, x)[h + 1] = x /\ \A i \in 1..h : Append(H, x)[i] = H[i]
    BY <2>1
  <2> QED
    BY <2>2 DEF S
<1> HIDE DEF p, a, x, H, h, n, all, k
<1>11. Reading(t)'
  <2>1. pkt'[t] \in Text /\ Before(NUL, buff'[t]) \in Text
    BY <1>2, <1>3, <1>4 DEF Reading
  <2>2. HalfDone(t)' \in 0..Len(handed'[t])
    BY <1>2, <1>4, <1>7, <1>9, <1>10
  <2>3. (Len(handed'[t]) - HalfDone(t)') = h - n
    BY <1>2, <1>4, <1>7, <1>9, <1>10
  <2>4. ASSUME NEW i \in 1..n + 1 PROVE Append(H, x)[(h - n) + i] = all[i]
    <3>1. CASE i = n + 1
      <4>1. (h - n) + i = h + 1 /\ 1 \in 1..k + 1 /\ n + 1 = i
        BY <1>2, <1>5, <1>7, <3>1
      <4> QED
        BY <1>5, <1>7, <1>10, <4>1, Zenon
    <3>2. CASE i # n + 1
      <4>1. i \in 1..n /\ (h - n) + i \in 1..h
        BY <1>2, <1>7, <3>2
      <4> QED
        BY <1>7, <1>10, <4>1
    <3> QED
      BY <3>1, <3>2
  <2>5. ASSUME NEW i \in 1..k PROVE all[(n + 1) + i] = LinesIn[a][i]
    <3>0. k \in Nat /\ n \in Nat
      BY <1>2, <1>5, <1>7
    <3>1. i + 1 \in 1..k + 1 /\ n + (i + 1) = (n + 1) + i
      BY <3>0
    <3> QED
      BY <1>5, <1>7, <3>1
  <2>6. \A i \in 1..HalfDone(t)' :
          handed'[t][(Len(handed'[t]) - HalfDone(t)') + i] = LinesOf(buff'[t])[i]
    BY <1>4, <1>9, <2>3, <2>4, Zenon DEF all
  <2>7. \A i \in 1..Len(LinesIn[pkt'[t]]) :
          LinesOf(buff'[t])[HalfDone(t)' + i] = LinesIn[pkt'[t]][i]
    BY <1>4, <1>9, <2>5, Zenon DEF all, k
  <2> QED
    BY <2>1, <2>2, <2>6, <2>7 DEF Reading
<1>12. /\ FeedInv'
       /\ \A u \in Thread : u # t => InboxOf(u)' = InboxOf(u) /\ HandledOf(u)' = HandledOf(u)
  <2>1. pkt' \in [Thread -> Seq(Char)] /\ handed' \in [Thread -> Seq(Seq(Char))]
    BY <1>1, <1>6, <1>10 DEF FeedInv
  <2> QED
    BY <1>4, <1>11, <2>1, FeedFrame
<1>13. InboxOf(t)' = InboxOf(t)
  BY <1>1 DEF InboxOf, Current
<1>14. HandledOf(t)' = HandledOf(t)
  <2>1. HandledOf(t) = SubSeq(H, 1, h - n)
    BY DEF HandledOf, H, h, n
  <2>2. HandledOf(t)' = SubSeq(Append(H, x), 1, (h + 1) - (n + 1))
    BY <1>4, <1>9, <1>10 DEF HandledOf
  <2>3. (h + 1) - (n + 1) = h - n /\ h - n \in 0..h
    BY <1>2, <1>7
  <2> DEFINE S == Seq(Char)
  <2> DEFINE u == SubSeq(H, 1, h - n)
  <2> DEFINE v == SubSeq(Append(H, x), 1, h - n)
  <2>4. H \in Seq(S) /\ Append(H, x) \in Seq(S) /\ h = Len(H) /\ h \in Nat
    BY <1>2, <1>10 DEF h
  <2> HIDE DEF S
  <2>5. u \in Seq(S) /\ Len(u) = h - n /\ \A i \in 1..h - n : u[i] = H[i]
    BY <2>3, <2>4
  <2>6. v \in Seq(S) /\ Len(v) = h - n /\ \A i \in 1..h - n : v[i] = Append(H, x)[i]
    BY <1>10, <2>3, <2>4
  <2>7. \A i \in 1..h - n : i \in 1..h
    BY <2>3, <2>4
  <2> HIDE DEF u, v
  <2>8. u = v
    BY <1>10, <2>5, <2>6, <2>7, SeqEqual
  <2> QED
    BY <2>1, <2>2, <2>3, <2>8 DEF u, v
<1> QED
  BY <1>12, <1>13, <1>14, FeedStutters

(* The end of a packet is Feed's Handle. *)
LEMMA FeedEndOfPacket ==
  ASSUME UDPType, FeedInv, NEW t \in Thread, EndOfPacket(t)
  PROVE  FeedInv' /\ Feed!Next
<1> DEFINE H == handed[t]
<1> DEFINE h == Len(H)
<1> DEFINE all == LinesOf(buff[t])
<1> DEFINE n == Len(all)
<1> DEFINE S == Seq(Char)
<1> DEFINE w == waiting[t]
<1> DEFINE f == [i \in DOMAIN w |-> LinesOf(w[i])]
<1>1. /\ pc[t] = "lines" /\ pc' = [pc EXCEPT ![t] = "loop"] /\ pkt[t] = <<>>
      /\ UNCHANGED <<waiting, buff, pkt, handed>>
  BY DEF EndOfPacket, At
<1>2. Reading(t) /\ H \in Seq(S) /\ h \in Nat
  BY <1>1 DEF FeedInv
<1>3. all \in Seq(S) /\ n \in Nat
  <2>1. Before(NUL, buff[t]) \in Text
    BY <1>2 DEF Reading
  <2> QED
    BY <2>1, LinesOfText DEF LinesOf
<1>4. LinesIn[pkt[t]] = <<>>
  <2>1. pkt[t] \in Text
    BY <1>2 DEF Reading
  <2> QED
    BY <1>1, <2>1, NoLines DEF LinesIn
<1>5. HalfDone(t) = n
  <2>1. HalfDone(t) = Len(all) - Len(<<>>)
    BY <1>1, <1>4 DEF HalfDone
  <2> QED
    BY <1>3, <2>1
<1>6. n \in 0..h /\ \A i \in 1..n : H[(h - n) + i] = all[i]
  BY <1>2, <1>5 DEF Reading
<1>7. pc'[t] = "loop" /\ Frame(t)
  BY <1>1 DEF Frame, UDPType
<1>8. /\ FeedInv'
      /\ \A u \in Thread : u # t => InboxOf(u)' = InboxOf(u) /\ HandledOf(u)' = HandledOf(u)
  <2>1. pkt' \in [Thread -> Seq(Char)] /\ handed' \in [Thread -> Seq(Seq(Char))]
    BY <1>1 DEF FeedInv
  <2> QED
    BY <1>7, <2>1, FeedFrame
<1>9. HandledOf(t)' = HandledOf(t) \o all
  <2>1. HandledOf(t) = SubSeq(H, 1, h - n)
    BY <1>5 DEF HandledOf
  <2>2. HandledOf(t)' = SubSeq(H, 1, h - 0)
    BY <1>1, <1>7 DEF HandledOf, HalfDone
  <2> HIDE DEF S, H, h, n, all
  <2>3. H \in Seq(S) /\ h = Len(H) /\ n = Len(all) /\ all \in Seq(S) /\ h - n \in 0..h /\ h \in Nat /\ n \in Nat
    BY <1>2, <1>3, <1>6 DEF h, n
  <2>4. SubSeq(H, 1, h - 0) = H
    BY <2>3
  <2> DEFINE u == SubSeq(H, 1, h - n)
  <2>5. u \in Seq(S) /\ Len(u) = h - n /\ \A i \in 1..h - n : u[i] = H[i]
    BY <2>3
  <2> HIDE DEF u
  <2>6. /\ u \o all \in Seq(S) /\ Len(u \o all) = Len(u) + Len(all)
        /\ \A i \in 1..Len(u) : (u \o all)[i] = u[i]
        /\ \A i \in 1..Len(all) : (u \o all)[Len(u) + i] = all[i]
    <3>1. u \in Seq(S) /\ all \in Seq(S)
      BY <2>3, <2>5
    <3> QED
      BY <3>1, ConcatIs
  <2>7. Len(u \o all) = h
    BY <2>3, <2>5, <2>6
  <2>8. ASSUME NEW i \in 1..h PROVE (u \o all)[i] = H[i]
    <3>1. CASE i <= h - n
      <4>1. i \in 1..h - n
        BY <2>3, <3>1
      <4> QED
        BY <2>5, <2>6, <4>1
    <3>2. CASE ~(i <= h - n)
      <4> DEFINE j == i - (h - n)
      <4>1. j \in 1..n /\ (h - n) + j = i
        BY <2>3, <3>2
      <4> HIDE DEF j
      <4> QED
        BY <1>6, <2>3, <2>5, <2>6, <4>1
    <3> QED
      BY <3>1, <3>2
  <2>9. u \o all = H
    BY <2>3, <2>6, <2>7, <2>8, SeqEqual
  <2> QED
    BY <2>1, <2>2, <2>4, <2>9 DEF u
<1>10. InboxOf(t) # <<>> /\ Head(InboxOf(t)) = all /\ InboxOf(t)' = Tail(InboxOf(t))
  <2>1. InboxOf(t) = <<all>> \o f
    BY <1>1 DEF InboxOf, Current
  <2>2. InboxOf(t)' = <<>> \o f
    BY <1>1, <1>7 DEF InboxOf, Current
  <2>3. f \in Seq({LinesOf(x) : x \in Datagram})
    <3>1. w \in Seq(Datagram)
      BY DEF UDPType
    <3> HIDE DEF w
    <3> QED
      BY <3>1, MapIs
  <2> DEFINE T == {LinesOf(x) : x \in Datagram} \cup {all}
  <2>4. f \in Seq(T) /\ all \in T
    <3> HIDE DEF f, all
    <3> QED
      BY <2>3
  <2> HIDE DEF f, all, T
  <2>5. <<all>> \o f # <<>> /\ Head(<<all>> \o f) = all /\ Tail(<<all>> \o f) = f /\ <<>> \o f = f
    BY <2>4
  <2> QED
    BY <2>1, <2>2, <2>5
<1> HIDE DEF all
<1>11. /\ Inbox[t] # <<>>
       /\ Handled' = [Handled EXCEPT ![t] = @ \o Head(Inbox[t])]
       /\ Inbox' = [Inbox EXCEPT ![t] = Tail(@)]
  BY <1>8, <1>9, <1>10, MappingIs
<1>12. Feed!Handle(t)
  BY <1>11 DEF Feed!Handle
<1> QED
  BY <1>8, <1>12 DEF Feed!Next

LEMMA FeedUDP == UDPType /\ FeedInv /\ UDPNext => FeedInv' /\ [Feed!Next]_(Feed!vars)
<1> SUFFICES ASSUME UDPType, FeedInv, NEW t \in Thread,
                    ThreadStep(t) \/ CallFails(t) \/ \E d \in Datagram : Arrive(t, d)
             PROVE  FeedInv' /\ [Feed!Next]_(Feed!vars)
  BY DEF UDPNext
<1>1. CASE OpenSocket(t) \/ Bind(t) \/ TimeOut(t)
  <2>1. \E from \in {"start", "bind", "loop", "recv"} : \E to \in {"bind", "loop", "recv", "ended"} :
          At(t, from, to) /\ UNCHANGED <<waiting, buff, pkt, handed>>
    BY <1>1 DEF OpenSocket, Bind, TimeOut
  <2> QED
    BY <2>1, FeedQuiet
<1>2. CASE TestDone(t)
  <2>1. CASE Leave(t, "loop")
    BY <2>1, FeedLeave
  <2>2. CASE At(t, "loop", "recv") /\ UNCHANGED <<waiting, buff, pkt, handed>>
    BY <2>2, FeedQuiet
  <2> QED
    BY <1>2, <2>1, <2>2 DEF TestDone
<1>3. CASE Receive(t)
  BY <1>3, FeedReceive
<1>4. CASE NextLine(t)
  BY <1>4, FeedNextLine
<1>5. CASE EndOfPacket(t)
  BY <1>5, FeedEndOfPacket
<1>6. CASE CallFails(t)
  BY <1>6, FeedLeave DEF CallFails
<1>7. CASE \E d \in Datagram : Arrive(t, d)
  BY <1>7, FeedArrive
<1> QED
  BY <1>1, <1>2, <1>3, <1>4, <1>5, <1>6, <1>7 DEF ThreadStep

(* Every behaviour of the server is one of PacketFeed under the mapping     *)
(* Inbox, Handled: packets go to the consumer whole, line by line, in the   *)
(* order in which the thread received them (udp_server.cc:93-113).          *)
THEOREM PacketsWhole == Spec => HandlesPackets
<1>1. Init => FeedInv /\ Feed!Init
  <2> SUFFICES ASSUME UDPInit PROVE FeedInv /\ Feed!Init
    BY DEF Init
  <2>1. FeedInv
    BY DEF UDPInit, FeedInv
  <2>2. \A t \in Thread : InboxOf(t) = <<>> /\ HandledOf(t) = <<>>
    BY DEF UDPInit, InboxOf, HandledOf, Current, HalfDone
  <2>3. Inbox = [t \in Thread |-> <<>>] /\ Handled = [t \in Thread |-> <<>>]
    BY <2>2, MappingIs
  <2> QED
    BY <2>1, <2>3 DEF Feed!Init
<1>2. Inv /\ FeedInv /\ [Next]_vars => FeedInv' /\ [Feed!Next]_(Feed!vars)
  <2> SUFFICES ASSUME UDPType, FeedInv, [Next]_vars
               PROVE  FeedInv' /\ [Feed!Next]_(Feed!vars)
    BY DEF Inv
  <2>1. CASE UDPNext
    BY <2>1, FeedUDP
  <2>2. CASE UNCHANGED udp
    <3>1. UNCHANGED <<pc, waiting, buff, pkt, handed>>
      BY <2>2 DEF udp
    <3>2. ASSUME NEW u \in Thread
          PROVE  /\ InboxOf(u)' = InboxOf(u) /\ HandledOf(u)' = HandledOf(u)
                 /\ Reading(u) => Reading(u)'
      BY <3>1, OthersKept
    <3>3. FeedInv'
      BY <3>1, <3>2 DEF FeedInv
    <3> QED
      BY <3>2, <3>3, FeedStutters
  <2> QED
    BY <2>1, <2>2 DEF Next, vars
<1> QED
  BY <1>1, <1>2, InvAlways, PTL DEF Spec, HandlesPackets, Feed!Spec
=============================================================================
