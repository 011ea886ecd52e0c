------------------------------- MODULE Servers -------------------------------
(***************************************************************************)
(* A socket server, of either kind, from its constructor to its stop.      *)
(***************************************************************************)
EXTENDS UDPServer, TCPServer

vars == <<server, udp, tcp>>

Init == ServerInit /\ UDPInit /\ TCPInit

(* Only a server whose constructor has returned is there to be stopped.     *)
Constructed == kind = "tcp" => tpc \notin {"new", "failed"}

Next ==
  \/ Constructed /\ Stop /\ UNCHANGED <<udp, tcp>>
  \/ kind = "udp" /\ UDPNext /\ UNCHANGED tcp
  \/ kind = "tcp" /\ TCPNext /\ UNCHANGED udp

(* The threads run, no system call has to fail, and a TCP client sends what *)
(* it has and closes: readn blocks the server as long as one does not.      *)
Spec ==
  /\ Init /\ [][Next]_vars
  /\ \A t \in Thread : WF_vars(kind = "udp" /\ ThreadStep(t) /\ UNCHANGED tcp)
  /\ WF_vars(kind = "tcp" /\ TCPThread /\ UNCHANGED udp)
  /\ \A c \in Client :
       WF_vars(kind = "tcp" /\ (Sends(c) \/ Closes(c)) /\ UNCHANGED udp)

-----------------------------------------------------------------------------
TypeOK ==
  /\ kind \in {"udp", "tcp"}
  /\ done \in BOOLEAN
  /\ pc \in [Thread -> {"start", "bind", "loop", "recv", "lines", "ended"}]
  /\ held \subseteq Thread
  /\ \A t \in Thread : Len(waiting[t]) <= RcvBuf /\ DOMAIN buff[t] = 1..MaxMsgSize + 1
  /\ client \in [Client -> {"out", "open", "closed", "reset"}]
  /\ Len(queue) <= Backlog
  /\ conn \in [Fd -> Client \cup {NoClient}]
  /\ listener \in {"closed", "bound", "listening"}
  /\ tpc \in {"new", "failed", "loop", "select", "scan", "ended"}
  /\ active \subseteq Fd \cup {Listener}
  /\ ready \subseteq active
  /\ tpc = "scan" <=> ready # {}
  /\ pos \in Nat /\ overrun \in BOOLEAN /\ long \in BOOLEAN

(* A thread that runs has exactly the descriptors it reads, and one that    *)
(* has ended has closed its socket: no datagram goes to a UDP socket whose  *)
(* thread has ended (udp_server.cc:86,115); as long as the TCP thread runs, *)
(* select watches the listening socket and exactly the open connections,    *)
(* each of them once (tcp_server.cc:73,81), and it closes the listening     *)
(* socket in the end.  It does not close its connections then, and a        *)
(* constructor that fails in listen() or without a thread leaves the        *)
(* listening socket open (tcp_server.cc:34-43,99).                          *)
DescriptorsInUse ==
  /\ held = {t \in Thread : pc[t] \in {"bind", "loop", "recv", "lines"}}
  /\ tpc \in {"loop", "select", "scan"} =>
       /\ listener = "listening"
       /\ active = {Listener} \cup {fd \in Fd : conn[fd] # NoClient}
       /\ \A f, g \in active \ {Listener} : conn[f] = conn[g] => f = g
  /\ tpc = "ended" => listener = "closed"

(* The copy loop checks no bound (tcp_server.cc:84-90).  It writes outside  *)
(* the line buffer only if some client has sent a line of more than half    *)
(* the buffer or one without an end: connections share the buffer, every    *)
(* read adds a character and a connection may be reset in the middle of a   *)
(* line, but of short lines never more is left than one before another.     *)
LineFits == overrun => long

(* Who waits for accept gets it, however many clients come and go, unless   *)
(* the server is stopped or has overrun its buffer: no descriptor is left   *)
(* behind that select would stumble over (tcp_server.cc:59,82).             *)
ClientsServed ==
  \A c \in Client :
    (\E i \in DOMAIN queue : queue[i] = c) ~> (done \/ overrun \/ \A i \in DOMAIN queue : queue[i] # c)

(* After stop() every thread of a UDP server ends, whether datagrams keep   *)
(* coming or none ever comes (udp_server.cc:57,93), and a TCP server's does *)
(* when its clients have closed, unless it has overrun its buffer.          *)
ServerEnds ==
  done ~> /\ kind = "udp" => \A t \in Thread : pc[t] = "ended"
          /\ kind = "tcp" => tpc \in {"ended", "failed"} \/ overrun
=============================================================================
