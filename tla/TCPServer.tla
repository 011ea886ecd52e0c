------------------------------ MODULE TCPServer ------------------------------
(***************************************************************************)
(* TCPServer::listen: one thread, which selects with a zero timeout among  *)
(* the listening socket and the connections it has accepted.  From a       *)
(* readable connection it reads until a buffer is full or the client has   *)
(* closed, and copies what it read, and one character more, to a line      *)
(* buffer that all connections share and whose end nothing guards.  No     *)
(* line leaves the server: the call of the consumer is commented out.      *)
(***************************************************************************)
EXTENDS Server, Integers, Sequences, FiniteSets, FiniteSetsExt

CONSTANTS
  Client,
  NoClient,
  Stream,      \* what a client may send, sequences of "text" and "newline"
  BufSize,     \* MAX_MSG_SIZE
  Backlog,     \* connections the kernel keeps for accept
  MaxFailures, \* bound on the calls of accept that fail
  MaxResets    \* bound on the connections that are reset

ASSUME TCPAssumption ==
  /\ NoClient \notin Client
  /\ IsFiniteSet(Client)
  /\ Stream \subseteq Seq({"text", "newline"})
  /\ BufSize \in Nat \ {0, 1}
  /\ Backlog \in Nat /\ MaxFailures \in Nat /\ MaxResets \in Nat

Listener == 0
Fd == 1..Cardinality(Client)    \* descriptors of connections, all below FD_SETSIZE

VARIABLES
  client,    \* "out", "open", "closed" or "reset": a client's side
  stream,    \* what a client has still to send
  long,      \* history: a client had more to send than short lines
  unread,    \* what it has sent and nobody has read
  queue,     \* connections that wait for accept
  conn,      \* conn[fd]: whose connection it is; NoClient: not open
  listener,  \* the listening socket: "closed", "bound" or "listening"
  tpc,       \* where the constructor, and then the thread, is
  active,    \* active_fd_set
  ready,     \* the part of read_fd_set it has not looked at yet
  pos,       \* where the next character goes in the line buffer
  overrun,   \* history: the copy loop has written outside the line buffer
  failures,  \* failed calls of accept
  resets     \* connections reset

clients == <<client, stream, long, resets>>
line    == <<pos, overrun>>
sockets == <<conn, listener>>
tcp == <<clients, unread, queue, sockets, tpc, active, ready, line, failures>>

TCPInit ==
  /\ client = [c \in Client |-> "out"]
  /\ stream = [c \in Client |-> <<>>]
  /\ long = FALSE
  /\ unread = [c \in Client |-> <<>>]
  /\ queue = <<>>
  /\ conn = [fd \in Fd |-> NoClient]
  /\ listener = "closed"
  /\ tpc = "new"
  /\ active = {}
  /\ ready = {}
  /\ pos = 0 /\ overrun = FALSE
  /\ failures = 0
  /\ resets = 0

(* The lines of s, with their newlines, take at most half a buffer each,    *)
(* and s ends with one.                                                     *)
ShortLines(s) ==
  \A i \in 1..Len(s) : \E j \in i..Len(s) : j < i + BufSize \div 2 /\ s[j] = "newline"

-----------------------------------------------------------------------------
(* The constructor.  socket() or bind() fails and leaves nothing open, or   *)
(* listen() fails and the socket stays open; then it starts the thread.     *)
Construct ==
  /\ tpc = "new"
  /\ \/ /\ tpc' = "failed" /\ listener' \in {"closed", "bound"}
        /\ UNCHANGED active
     \/ /\ tpc' = "loop" /\ listener' = "listening"
        /\ active' = {Listener}
  /\ UNCHANGED <<server, clients, unread, queue, conn, ready, line, failures>>

(* The thread cannot be created: done is set, the socket goes on listening. *)
NoThread ==
  /\ tpc = "new"
  /\ tpc' = "failed" /\ listener' = "listening"
  /\ done' = TRUE
  /\ UNCHANGED <<kind, clients, unread, queue, conn, active, ready, line, failures>>

(* while (!done).  The listening socket is closed, the connections are not. *)
Loop ==
  /\ tpc = "loop"
  /\ tpc' = IF done THEN "ended" ELSE "select"
  /\ listener' = IF done THEN "closed" ELSE listener
  /\ UNCHANGED <<server, clients, unread, queue, conn, active, ready, line, failures>>

Readable(fd) ==
  IF fd = Listener
    THEN queue # <<>>
    ELSE unread[conn[fd]] # <<>> \/ client[conn[fd]] \in {"closed", "reset"}

(* Fault: the thread looks at the descriptors whether there are any or not. *)
SelectNoContinue ==
  /\ tpc = "select"
  /\ ready' = {fd \in active : Readable(fd)}
  /\ tpc' = "scan"
  /\ UNCHANGED <<server, clients, unread, queue, sockets, active, line, failures>>

(* Nothing to read, and EBADF for a descriptor that is not open: continue.  *)
Select ==
  LET stale == \E fd \in active \ {Listener} : conn[fd] = NoClient IN
  /\ tpc = "select"
  /\ ready' = IF stale THEN {} ELSE {fd \in active : Readable(fd)}
  /\ tpc' = IF ready' = {} THEN "loop" ELSE "scan"
  /\ UNCHANGED <<server, clients, unread, queue, sockets, active, line, failures>>

(* The for loop goes through the descriptors in ascending order.            *)
Scan(fd) ==
  /\ tpc = "scan"
  /\ fd = Min(ready)
  /\ ready' = ready \ {fd}
  /\ tpc' = IF ready' = {} THEN "loop" ELSE "scan"
  /\ UNCHANGED <<server, clients>>

(* The kernel gives the connection the lowest free descriptor.  It is below *)
(* FD_SETSIZE: accept fails at the limit of open files, 1024 by default.    *)
Accept ==
  LET fd == Min({f \in Fd : conn[f] = NoClient}) IN
  /\ Scan(Listener)
  /\ conn' = [conn EXCEPT ![fd] = Head(queue)]
  /\ queue' = Tail(queue)
  /\ active' = active \cup {fd}
  /\ UNCHANGED <<listener, unread, line, failures>>

AcceptFails ==
  /\ Scan(Listener)
  /\ failures < MaxFailures
  /\ failures' = failures + 1
  /\ UNCHANGED <<unread, queue, sockets, active, line>>

(* Fault: the descriptor stays in active_fd_set. *)
CloseNoClear(fd) ==
  /\ conn' = [conn EXCEPT ![fd] = NoClient]
  /\ UNCHANGED active

CloseConn(fd) ==
  /\ conn' = [conn EXCEPT ![fd] = NoClient]
  /\ active' = active \ {fd}

(* readn returns 0 or, for a connection that was reset, -1.                 *)
ReadNothing(fd) ==
  /\ Scan(fd)
  /\ fd # Listener
  /\ \/ client[conn[fd]] = "closed" /\ unread[conn[fd]] = <<>>
     \/ client[conn[fd]] = "reset"
  /\ unread' = [unread EXCEPT ![conn[fd]] = <<>>]
  /\ CloseConn(fd)
  /\ UNCHANGED <<listener, queue, line, failures>>

(* Fault: the end of a line leaves the line buffer as it is. *)
PosAfterNoReset(p, chars) == p + Cardinality({i \in DOMAIN chars : chars[i] = "text"})

(* The copy loop, from position p.                                          *)
PosAfter(p, chars) ==
  LET ends == {i \in DOMAIN chars : chars[i] = "newline"}
  IN  IF ends = {} THEN p + Len(chars) ELSE Len(chars) - Max(ends)

(* The highest index it writes: every character goes, or ends the line,     *)
(* where the ones before it have left pos.                                  *)
Reach(p, chars) == Max({PosAfter(p, SubSeq(chars, 1, n)) : n \in 0..Len(chars) - 1})

(* readn returns a full buffer, or what there was when the client closed.   *)
(* Behind it the loop finds whatever the buffer held there.  What a thread  *)
(* does that has written past the line buffer is undefined: the model of it *)
(* stops there.                                                             *)
ReadSome(fd) ==
  LET c    == conn[fd]
      size == Min({Len(unread[c]), BufSize - 1})
  IN
  /\ Scan(fd)
  /\ fd # Listener
  /\ client[c] # "reset"
  /\ size = BufSize - 1 \/ (client[c] = "closed" /\ size > 0)
  /\ unread' = [unread EXCEPT ![c] = SubSeq(@, size + 1, Len(@))]
  /\ \E stray \in {"text", "newline"} :
       LET chars == SubSeq(unread[c], 1, size) \o <<stray>> IN
       /\ pos' = PosAfter(pos, chars)
       /\ overrun' = (overrun \/ Reach(pos, chars) >= BufSize)
  /\ UNCHANGED <<queue, sockets, active, failures>>

-----------------------------------------------------------------------------
(* The clients. *)
Connects(c) ==
  /\ client[c] = "out" /\ listener = "listening"
  /\ Len(queue) < Backlog
  /\ queue' = Append(queue, c)
  /\ client' = [client EXCEPT ![c] = "open"]
  /\ \E s \in Stream :
       /\ stream' = [stream EXCEPT ![c] = s]
       /\ long' = (long \/ ~ShortLines(s))
  /\ UNCHANGED <<server, resets, unread, sockets, tpc, active, ready, line, failures>>

Sends(c) ==
  /\ client[c] = "open"
  /\ stream[c] # <<>>
  /\ stream' = [stream EXCEPT ![c] = Tail(@)]
  /\ unread' = [unread EXCEPT ![c] = Append(@, Head(stream[c]))]
  /\ UNCHANGED <<server, client, long, resets, queue, sockets, tpc, active, ready, line, failures>>

Closes(c) ==
  /\ client[c] = "open"
  /\ stream[c] = <<>>
  /\ client' = [client EXCEPT ![c] = "closed"]
  /\ UNCHANGED <<server, stream, long, resets, unread, queue, sockets, tpc, active, ready, line, failures>>

Resets(c) ==
  /\ client[c] = "open"
  /\ resets < MaxResets
  /\ resets' = resets + 1
  /\ client' = [client EXCEPT ![c] = "reset"]
  /\ UNCHANGED <<server, stream, long, unread, queue, sockets, tpc, active, ready, line, failures>>

(* When the server has closed its side, too, the client may come again.     *)
Forgets(c) ==
  /\ client[c] \in {"closed", "reset"}
  /\ \A i \in DOMAIN queue : queue[i] # c
  /\ \A fd \in Fd : conn[fd] # c
  /\ client' = [client EXCEPT ![c] = "out"]
  /\ stream' = [stream EXCEPT ![c] = <<>>]
  /\ UNCHANGED <<server, long, resets, unread, queue, sockets, tpc, active, ready, line, failures>>

TCPThread ==
  /\ ~overrun
  /\ \/ Loop
     \/ Select
     \/ Accept
     \/ AcceptFails
     \/ \E fd \in Fd : ReadNothing(fd) \/ ReadSome(fd)

ClientStep(c) == Connects(c) \/ Sends(c) \/ Closes(c) \/ Resets(c) \/ Forgets(c)

TCPNext == Construct \/ NoThread \/ TCPThread \/ \E c \in Client : ClientStep(c)
=============================================================================
