------------------------------- MODULE Carbon -------------------------------
(***************************************************************************)
(* How the carbon backend sends a flush: flush_stats makes one stat_string *)
(* per destination and writes it on a TCP connection that it keeps between *)
(* flushes; Connection::write reconnects and sends the whole string again  *)
(* when the connection turns out to be broken.  Carbon servers go away,    *)
(* come back, stop reading, close and reset connections at any point.      *)
(*                                                                         *)
(* A stat_string is a sequence of NumLines lines <<flush, 1>>, <<flush, 2>> *)
(* ...; the kernel takes it a line at a time.  One flush runs at a time:   *)
(* module Flush adds the flushers and the mutex that sees to it, and what  *)
(* the lines are.                                                          *)
(***************************************************************************)
EXTENDS Integers, Sequences

CONSTANTS
  Dest,             \* carbon servers
  NoDest,           \* no string is being written
  NumLines,         \* lines of a stat_string
  MaxFlushes,       \* bound on the flushes of a behaviour
  MaxSocks,         \* bound on the sockets of a behaviour
  MaxFaults         \* bound on what goes wrong outside the process

ASSUME CarbonAssumption ==
  /\ NoDest \notin Dest
  /\ NumLines \in Nat \ {0}
  /\ MaxFlushes \in Nat
  /\ MaxSocks \in Nat
  /\ MaxFaults \in Nat

Sock  == 1..MaxSocks
Bad   == -1              \* Connection::sockfd of a connection that failed
NotYet == 0              \* the destination is not in Backend::connections

Line == (1..MaxFlushes) \X (1..NumLines)
StatString(f) == [k \in 1..NumLines |-> <<f, k>>]

VARIABLES
  up,       \* up[d]: the server accepts connections
  peer,     \* peer[s]: "none", "open", "full" (the server does not read and
            \* the buffers are full), "fin" (closed by the server), "reset"
  held,     \* sockets this process has open
  sent,     \* sent[s]: the lines the kernel took on socket s
  conn,     \* Backend::connections: the sockfd of each destination
  flush,    \* number of the flush
  left,     \* destinations flush_stats has still to go through
  pc,       \* "idle", "next", "write", "refresh"
  dest,     \* destination being written to
  off,      \* lines of the string taken in this call of writen
  done,     \* <<f, d, s>>: write of f's string to d returned true on s
  faults

vars == <<up, peer, held, sent, conn, flush, left, pc, dest, off, done, faults>>
server == <<up, faults>>

TypeOK ==
  /\ up \in [Dest -> BOOLEAN]
  /\ peer \in [Sock -> {"none", "open", "full", "fin", "reset"}]
  /\ held \subseteq Sock
  /\ sent \in [Sock -> Seq(Line)]
  /\ conn \in [Dest -> Sock \cup {Bad, NotYet}]
  /\ flush \in 0..MaxFlushes
  /\ left \subseteq Dest
  /\ pc \in {"idle", "next", "write", "refresh"}
  /\ dest \in Dest \cup {NoDest}
  /\ off \in 0..NumLines - 1
  /\ done \subseteq (1..MaxFlushes) \X Dest \X Sock
  /\ faults \in 0..MaxFaults

Init ==
  /\ up \in [Dest -> BOOLEAN]
  /\ peer = [s \in Sock |-> "none"]
  /\ held = {}
  /\ sent = [s \in Sock |-> <<>>]
  /\ conn = [d \in Dest |-> NotYet]
  /\ flush = 0
  /\ left = {}
  /\ pc = "idle"
  /\ dest = NoDest
  /\ off = 0
  /\ done = {}
  /\ faults = 0

-----------------------------------------------------------------------------
(* flush_stats builds the strings: the hashring decides which destinations  *)
(* get one; the flusher's own statistics go somewhere in every flush.       *)
StartFlush ==
  /\ pc = "idle"
  /\ flush < MaxFlushes
  /\ flush' = flush + 1
  /\ left' \in SUBSET Dest \ {{}}
  /\ pc' = "next"
  /\ UNCHANGED <<server, peer, held, sent, conn, dest, off, done>>

(* net::connect: a socket and a connection, or -1 with nothing left open.   *)
(* open is what the process has open besides.                               *)
Connect(d, open) ==
  LET s == CHOOSE t \in Sock : peer[t] = "none" IN
  IF up[d]
    THEN /\ \E t \in Sock : peer[t] = "none"
         /\ peer' = [peer EXCEPT ![s] = "open"]
         /\ held' = open \cup {s}
         /\ conn' = [conn EXCEPT ![d] = s]
    ELSE /\ held' = open
         /\ conn' = [conn EXCEPT ![d] = Bad]
         /\ UNCHANGED peer

(* The loop over stat_strings: the first string for a destination makes its *)
(* connection; then Connection::write.                                      *)
NextDest(d) ==
  /\ pc = "next"
  /\ d \in left
  /\ left' = left \ {d}
  /\ dest' = d
  /\ off' = 0
  /\ pc' = "write"
  /\ IF conn[d] = NotYet
       THEN Connect(d, held)
       ELSE UNCHANGED <<peer, held, conn>>
  /\ UNCHANGED <<server, sent, flush, done>>

EndFlush ==
  /\ pc = "next"
  /\ left = {}
  /\ pc' = "idle"
  /\ UNCHANGED <<server, peer, held, sent, conn, flush, left, dest, off, done>>

(* Back in the loop of flush_stats, which ignores what write returned. *)
Return ==
  /\ pc' = "next"
  /\ dest' = NoDest
  /\ off' = 0

Misbehave == faults < MaxFaults /\ faults' = faults + 1

(* Connection::write sees a bad connection, or writen returns -1: on a      *)
(* connection that was reset, or for a reason that leaves it usable.        *)
WriteFails ==
  /\ pc = "write"
  /\ \/ conn[dest] = Bad /\ UNCHANGED faults
     \/ conn[dest] \in Sock /\ peer[conn[dest]] = "reset" /\ UNCHANGED faults
     \/ conn[dest] \in Sock /\ peer[conn[dest]] \in {"open", "fin"} /\ Misbehave
  /\ pc' = "refresh"
  /\ UNCHANGED <<up, peer, held, sent, conn, flush, left, dest, off, done>>

(* Fault: the last line is not noticed. *)
WriteLineOneMore ==
  LET s == conn[dest] IN
  /\ pc = "write"
  /\ s \in Sock
  /\ peer[s] \in {"open", "fin"}
  /\ sent' = [sent EXCEPT ![s] = Append(@, StatString(flush)[off + 1])]
  /\ IF off = NumLines
       THEN /\ done' = done \cup {<<flush, dest, s>>}
            /\ Return
       ELSE /\ off' = off + 1
            /\ UNCHANGED <<done, pc, dest>>
  /\ UNCHANGED <<server, peer, held, conn, flush, left>>

(* A ::write of writen takes one more line.  The kernel takes it too when   *)
(* the server has closed its end and nobody will read it.  The socket is a  *)
(* blocking one without SO_SNDTIMEO: the call does not return while the     *)
(* server leaves the buffers full.                                          *)
WriteLine ==
  LET s == conn[dest] IN
  /\ pc = "write"
  /\ s \in Sock
  /\ peer[s] \in {"open", "fin"}
  /\ sent' = [sent EXCEPT ![s] = Append(@, StatString(flush)[off + 1])]
  /\ IF off + 1 = NumLines
       THEN /\ done' = done \cup {<<flush, dest, s>>}
            /\ Return
       ELSE /\ off' = off + 1
            /\ UNCHANGED <<done, pc, dest>>
  /\ UNCHANGED <<server, peer, held, conn, flush, left>>

(* Fault: the string goes on where the broken connection stopped. *)
WriteRest ==
  /\ pc' = "write"
  /\ UNCHANGED <<off, dest>>

(* refresh() was true: write(str) again. *)
WriteAgain ==
  /\ pc' = "write"
  /\ off' = 0
  /\ UNCHANGED dest

(* refresh() of a bad connection. *)
RefreshBad ==
  /\ pc = "refresh"
  /\ conn[dest] = Bad
  /\ Connect(dest, held)
  /\ IF up[dest] THEN WriteAgain ELSE Return
  /\ UNCHANGED <<server, sent, flush, left, done>>

(* Fault: the broken socket is not closed before the new one is made. *)
ReconnectNoClose ==
  /\ pc = "refresh"
  /\ conn[dest] \in Sock
  /\ peer[conn[dest]] = "reset"
  /\ Connect(dest, held)
  /\ IF up[dest] THEN WriteAgain ELSE Return
  /\ UNCHANGED <<server, sent, flush, left, done>>

(* Fault: a connection that hung up is used again. *)
RefreshIgnoresHangUp ==
  /\ pc = "refresh"
  /\ conn[dest] \in Sock
  /\ peer[conn[dest]] = "reset"
  /\ WriteAgain
  /\ UNCHANGED <<server, peer, held, sent, conn, flush, left, done>>

(* refresh() of a connection that poll reports as hung up: close, connect.  *)
RefreshHungUp ==
  /\ pc = "refresh"
  /\ conn[dest] \in Sock
  /\ peer[conn[dest]] = "reset"
  /\ Connect(dest, held \ {conn[dest]})
  /\ IF up[dest] THEN WriteAgain ELSE Return
  /\ UNCHANGED <<server, sent, flush, left, done>>

(* refresh() of a connection that poll finds nothing wrong with: the same   *)
(* socket is used again.                                                    *)
RefreshSame ==
  /\ pc = "refresh"
  /\ conn[dest] \in Sock
  /\ peer[conn[dest]] # "reset"
  /\ WriteAgain
  /\ UNCHANGED <<server, peer, held, sent, conn, flush, left, done>>

-----------------------------------------------------------------------------
(* The servers.  One that goes may take its connection down with it. *)
ServerGoes(d) ==
  /\ up[d]
  /\ Misbehave
  /\ up' = [up EXCEPT ![d] = FALSE]
  /\ \/ UNCHANGED peer
     \/ conn[d] \in Sock /\ peer' = [peer EXCEPT ![conn[d]] = "reset"]
  /\ UNCHANGED <<held, sent, conn, flush, left, pc, dest, off, done>>

ServerComes(d) ==
  /\ ~up[d]
  /\ up' = [up EXCEPT ![d] = TRUE]
  /\ UNCHANGED <<faults, peer, held, sent, conn, flush, left, pc, dest, off, done>>

ServerCloses(s) ==
  /\ peer[s] = "open"
  /\ Misbehave
  /\ peer' = [peer EXCEPT ![s] = "fin"]
  /\ UNCHANGED <<up, held, sent, conn, flush, left, pc, dest, off, done>>

(* The server stops reading, and the buffers fill up. *)
ServerStalls(s) ==
  /\ s \in held
  /\ peer[s] = "open"
  /\ Misbehave
  /\ peer' = [peer EXCEPT ![s] = "full"]
  /\ UNCHANGED <<up, held, sent, conn, flush, left, pc, dest, off, done>>

ServerReads(s) ==
  /\ peer[s] = "full"
  /\ peer' = [peer EXCEPT ![s] = "open"]
  /\ UNCHANGED <<server, held, sent, conn, flush, left, pc, dest, off, done>>

(* A reset, by itself, as the answer to a line sent after the close, or as  *)
(* the end of a connection whose lines nobody read.                         *)
ServerResets(s) ==
  /\ s \in held
  /\ \/ peer[s] = "open" /\ Misbehave
     \/ peer[s] \in {"fin", "full"} /\ UNCHANGED faults
  /\ peer' = [peer EXCEPT ![s] = "reset"]
  /\ UNCHANGED <<up, held, sent, conn, flush, left, pc, dest, off, done>>

(* What happens between StartFlush and EndFlush. *)
Send ==
  \/ \E d \in Dest : NextDest(d)
  \/ WriteFails
  \/ WriteLine
  \/ RefreshBad
  \/ RefreshHungUp
  \/ RefreshSame

Servers ==
  \/ \E d \in Dest : ServerGoes(d) \/ ServerComes(d)
  \/ \E s \in Sock : ServerCloses(s) \/ ServerStalls(s) \/ ServerReads(s) \/ ServerResets(s)

-----------------------------------------------------------------------------
AcceptedWhole ==
  \A r \in done :
    LET f == r[1]
        s == r[3]
    IN  \E i \in 0..Len(sent[s]) - NumLines :
          SubSeq(sent[s], i + 1, i + NumLines) = StatString(f)

(* A server never sees the middle of a string without its beginning, nor a  *)
(* new string glued to a cut one: on one connection strings follow each     *)
(* other in flush order, and one that was cut short is the last or is sent  *)
(* again from its beginning right after the cut (connection.h:55-65).  When *)
(* Connection::write returns true, one connection took all the string.      *)
CutIsLastOrRepeated ==
  /\ AcceptedWhole
  /\ \A s \in Sock : \A i \in 1..Len(sent[s]) :
      LET here == sent[s][i]
          prev == sent[s][i - 1]
      IN  IF i = 1
            THEN here[2] = 1
            ELSE \/ here = <<prev[1], prev[2] + 1>>
                 \/ here = <<prev[1], 1>> /\ prev[2] < NumLines
                 \/ here[2] = 1 /\ here[1] > prev[1] /\ prev[2] = NumLines

(* No socket is forgotten open, and no connection keeps a closed one:       *)
(* reconnecting closes exactly the socket it replaces.                      *)
NoSocketLeak == held = {conn[d] : d \in Dest} \cap Sock
=============================================================================
