------------------------------ MODULE UDPServer ------------------------------
(***************************************************************************)
(* UDPServer::listen: every thread has a socket of its own on the one port *)
(* (SO_REUSEPORT), the kernel gives a datagram to any of them; the thread  *)
(* receives it into a buffer that it keeps, and reads lines up to the      *)
(* first NUL, each of which it hands to the consumer before the next.      *)
(* A datagram is a sequence of characters.                                 *)
(***************************************************************************)
EXTENDS Server, Integers, SequencesExt

CONSTANTS
  Thread,       \* server threads
  Datagram,     \* what clients may send
  NL, NUL,      \* newline, and the end of a C string
  MaxMsgSize,   \* MAX_MSG_SIZE
  RcvBuf,       \* datagrams the kernel keeps for a socket
  MaxDatagrams  \* bound on the datagrams of a behaviour

Char == {NL, NUL} \cup UNION {ToSet(d) : d \in Datagram}

ASSUME UDPAssumption ==
  /\ NL # NUL
  /\ MaxMsgSize \in Nat /\ RcvBuf \in Nat /\ MaxDatagrams \in Nat
  /\ \A d \in Datagram : d \in Seq(Char) /\ Len(d) <= MaxMsgSize

VARIABLES
  pc,       \* where a thread is in listen
  held,     \* threads that have a socket open
  waiting,  \* datagrams the kernel has for a thread's socket
  buff,     \* the thread's buffer
  pkt,      \* what is left of its stringstream
  handed,   \* history: the lines it has given to the consumer
  arrived   \* history: how many datagrams have arrived

udp == <<pc, held, waiting, buff, pkt, handed, arrived>>

UDPInit ==
  /\ pc = [t \in Thread |-> "start"]
  /\ held = {}
  /\ waiting = [t \in Thread |-> <<>>]
  /\ buff = [t \in Thread |-> [i \in 1..MaxMsgSize + 1 |-> NUL]]
  /\ pkt = [t \in Thread |-> <<>>]
  /\ handed = [t \in Thread |-> <<>>]
  /\ arrived = 0

-----------------------------------------------------------------------------
At(t, from, to) == pc[t] = from /\ pc' = [pc EXCEPT ![t] = to]

(* The part before the first c, all of s when there is none. *)
Before(c, s) ==
  LET i == SelectInSeq(s, LAMBDA x : x = c) IN IF i = 0 THEN s ELSE SubSeq(s, 1, i - 1)
After(c, s)  == SubSeq(s, Len(Before(c, s)) + 2, Len(s))

OpenSocket(t) ==
  /\ \/ At(t, "start", "bind") /\ held' = held \cup {t}
     \/ At(t, "start", "ended") /\ UNCHANGED held
  /\ UNCHANGED <<server, waiting, buff, pkt, handed, arrived>>

(* Fault: the thread ends and leaves its socket to the kernel. *)
LeaveOpen(t, from) ==
  /\ At(t, from, "ended")
  /\ waiting' = [waiting EXCEPT ![t] = <<>>]
  /\ UNCHANGED <<server, held, buff, pkt, handed, arrived>>

(* close(), with what the kernel still has for the socket. *)
Leave(t, from) ==
  /\ At(t, from, "ended")
  /\ held' = held \ {t}
  /\ waiting' = [waiting EXCEPT ![t] = <<>>]
  /\ UNCHANGED <<server, buff, pkt, handed, arrived>>

Bind(t) ==
  /\ At(t, "bind", "loop")
  /\ UNCHANGED <<server, held, waiting, buff, pkt, handed, arrived>>

(* while (!done).  With nothing to receive, recvfrom times out after 100 ms *)
(* and the thread is back here.                                             *)
TestDone(t) ==
  \/ done /\ Leave(t, "loop")
  \/ /\ ~done
     /\ At(t, "loop", "recv")
     /\ UNCHANGED <<server, held, waiting, buff, pkt, handed, arrived>>

(* Fault: the socket has no timeout. *)
TimeOutNever(t) == FALSE

TimeOut(t) ==
  /\ At(t, "recv", "loop")
  /\ waiting[t] = <<>>
  /\ UNCHANGED <<server, held, waiting, buff, pkt, handed, arrived>>

(* Fault: no terminator is stored behind what was received. *)
ReceiveUnterminated(t) ==
  LET d == Head(waiting[t]) IN
  /\ waiting[t] # <<>>
  /\ At(t, "recv", "lines")
  /\ waiting' = [waiting EXCEPT ![t] = Tail(@)]
  /\ buff' = [buff EXCEPT ![t] = d \o SubSeq(@, Len(d) + 1, MaxMsgSize + 1)]
  /\ pkt' = [pkt EXCEPT ![t] = Before(NUL, buff'[t])]
  /\ UNCHANGED <<server, held, handed, arrived>>

Receive(t) ==
  LET d == Head(waiting[t]) IN
  /\ waiting[t] # <<>>
  /\ At(t, "recv", "lines")
  /\ waiting' = [waiting EXCEPT ![t] = Tail(@)]
  /\ buff' = [buff EXCEPT ![t] = d \o <<NUL>> \o SubSeq(@, Len(d) + 2, MaxMsgSize + 1)]
  /\ pkt' = [pkt EXCEPT ![t] = Before(NUL, buff'[t])]
  /\ UNCHANGED <<server, held, handed, arrived>>

(* getline gives what is before a newline or, without one, all the rest.    *)
NextLine(t) ==
  /\ pc[t] = "lines"
  /\ pkt[t] # <<>>
  /\ handed' = [handed EXCEPT ![t] = Append(@, Before(NL, pkt[t]))]
  /\ pkt' = [pkt EXCEPT ![t] = After(NL, @)]
  /\ UNCHANGED <<server, pc, held, waiting, buff, arrived>>

EndOfPacket(t) ==
  /\ At(t, "lines", "loop")
  /\ pkt[t] = <<>>
  /\ UNCHANGED <<server, held, waiting, buff, pkt, handed, arrived>>

(* A client's datagram, at whichever socket the kernel selects.             *)
Arrive(t, d) ==
  /\ arrived < MaxDatagrams
  /\ pc[t] \in {"loop", "recv", "lines"}
  /\ Len(waiting[t]) < RcvBuf
  /\ waiting' = [waiting EXCEPT ![t] = Append(@, d)]
  /\ arrived' = arrived + 1
  /\ UNCHANGED <<server, pc, held, buff, pkt, handed>>

ThreadStep(t) ==
  \/ OpenSocket(t)
  \/ Bind(t)
  \/ TestDone(t)
  \/ TimeOut(t)
  \/ Receive(t)
  \/ NextLine(t)
  \/ EndOfPacket(t)

(* bind or recvfrom fails: the thread closes its socket and ends. *)
CallFails(t) == Leave(t, "bind") \/ Leave(t, "recv")

UDPNext ==
  \E t \in Thread :
    \/ ThreadStep(t)
    \/ CallFails(t)
    \/ \E d \in Datagram : Arrive(t, d)

-----------------------------------------------------------------------------
(* The lines of a text: a newline ends a line, and so does the end of the   *)
(* text unless it is right behind a newline.                                *)
LineEnds(s) ==
  {i \in 1..Len(s) : s[i] = NL}
    \cup {i \in {Len(s) + 1} : Len(s) > 0 /\ s[Len(s)] # NL}

(* The k-th element of a set of numbers. *)
Rank(E, e) == Cardinality({x \in E : x <= e})
Nth(E, k)  == CHOOSE e \in E : Rank(E, e) = k

Lines(s) ==
  LET end == LineEnds(s)
  IN  [k \in 1..Cardinality(end) |->
         SubSeq(s, (IF k = 1 THEN 1 ELSE Nth(end, k - 1) + 1), Nth(end, k) - 1)]

(* The texts a buffer may hold, with their lines. *)
Text    == BoundedSeq(Char \ {NUL}, MaxMsgSize)
LinesIn == [s \in Text |-> Lines(s)]

LinesOf(d) == LinesIn[Before(NUL, d)]

(* The server as a PacketFeed.  A packet counts as handled when its last    *)
(* line has been handed over: until then it is still in the inbox and its   *)
(* first lines are not counted.                                             *)
Current(t)   == IF pc[t] = "lines" THEN <<LinesOf(buff[t])>> ELSE <<>>
HalfDone(t)  ==
  IF pc[t] = "lines" THEN Len(LinesOf(buff[t])) - Len(LinesIn[pkt[t]]) ELSE 0

Inbox ==
  [t \in Thread |-> Current(t) \o [i \in DOMAIN waiting[t] |-> LinesOf(waiting[t][i])]]
Handled == [t \in Thread |-> SubSeq(handed[t], 1, Len(handed[t]) - HalfDone(t))]

Feed == INSTANCE PacketFeed
          WITH Packet <- {LinesOf(d) : d \in Datagram}, inbox <- Inbox, handed <- Handled

(* No line is lost, repeated, cut, run together with another or taken from  *)
(* an earlier packet that was longer, whatever the packets hold, and a stop *)
(* or an error never cuts a packet in two (udp_server.cc:93-113).           *)
HandlesPackets == Feed!Spec
=============================================================================
