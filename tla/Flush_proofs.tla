----------------------------- MODULE Flush_proofs -----------------------------
(***************************************************************************)
(* Proofs about the flushers and the backends they use, for any workers,   *)
(* names, prefixes, servers, lines, flushes and faults.                    *)
(*                                                                         *)
(* First the connections of the carbon backend: no socket leaks and no     *)
(* server sees a string without its beginning.  Then whose the statistics  *)
(* under thread_<id> are.                                                  *)
(***************************************************************************)
EXTENDS Flush, SequenceTheorems, TLAPS

(* Everything that touches the backend's connections.                      *)
CarbonNext == StartFlush \/ EndFlush \/ Send \/ Servers

Busy == pc \in {"write", "refresh"}

(* The sockets: each open one belongs to one connection, and what has not  *)
(* been used carries nothing.                                              *)
OneOwner == \A d, e \in Dest : conn[d] \in Sock /\ conn[e] = conn[d] => d = e
Unused == \A s \in Sock : peer[s] = "none" => s \notin held /\ sent[s] = <<>>
Position ==
  /\ Busy => dest \in Dest \ left /\ conn[dest] # NotYet
  /\ ~Busy => off = 0 /\ dest = NoDest
  /\ pc # "idle" => flush >= 1
  /\ pc = "idle" => left = {}

SocketInv == TypeOK /\ Position /\ NoSocketLeak /\ OneOwner /\ Unused

(* What the end of sent[s] says of the string that is being written.       *)
LastLine(s) == sent[s][Len(sent[s])]

\* The last k lines are the first k of this flush's string.
Written(s, k) ==
  /\ k <= Len(sent[s])
  /\ \A i \in 1..k : sent[s][Len(sent[s]) - k + i] = <<flush, i>>

\* The last string is complete, and of a flush before n.
Complete(s, n) ==
  sent[s] # <<>> => LastLine(s)[2] = NumLines /\ LastLine(s)[1] < n

\* The string may be started: nothing of it is there, or a part was cut off.
Startable(s) ==
  \/ Complete(s, flush)
  \/ LastLine(s)[1] = flush /\ LastLine(s)[2] < NumLines

\* A connection that is not written to.
Quiet(d) == Complete(conn[d], IF d \in left THEN flush ELSE flush + 1)

EndsInv ==
  /\ \A d \in Dest : conn[d] \in Sock /\ ~(Busy /\ d = dest) => Quiet(d)
  /\ Busy /\ conn[dest] \in Sock =>
       Written(conn[dest], off) /\ (off = 0 => Startable(conn[dest]))

(* The lines of a socket and the strings that write returned true for.     *)
Follows(here, prev) ==
  \/ here = <<prev[1], prev[2] + 1>>
  \/ here = <<prev[1], 1>> /\ prev[2] < NumLines
  \/ here[2] = 1 /\ here[1] > prev[1] /\ prev[2] = NumLines
WellFormed(s) ==
  \A i \in 1..Len(sent[s]) : IF i = 1 THEN sent[s][i][2] = 1
                                      ELSE Follows(sent[s][i], sent[s][i - 1])
Whole(r) ==
  \E i \in 0..Len(sent[r[3]]) - NumLines :
    \A k \in 1..NumLines : sent[r[3]][i + k] = <<r[1], k>>
LinesInv == (\A s \in Sock : WellFormed(s)) /\ (\A r \in done : Whole(r))

CarbonInv == SocketInv /\ EndsInv /\ LinesInv

-------------------------------------------------------------------------------
LEMMA CarbonInit == Init => CarbonInv
<1> SUFFICES ASSUME Init PROVE CarbonInv
  OBVIOUS
<1>1. TypeOK
  BY CarbonAssumption DEF Init, TypeOK, Sock, NotYet, Bad
<1>2. Position /\ OneOwner /\ Unused
  BY DEF Init, Position, Busy, OneOwner, Unused, NotYet, Sock
<1>3. NoSocketLeak
  BY CarbonAssumption DEF Init, NoSocketLeak, NotYet, Sock
<1>4. EndsInv
  BY DEF Init, EndsInv, Busy, Sock, NotYet
<1>5. LinesInv
  BY DEF Init, LinesInv, WellFormed, Whole
<1> QED BY <1>1, <1>2, <1>3, <1>4, <1>5 DEF CarbonInv, SocketInv

(* Of a step of the flushers Carbon sees its own actions.                  *)
LEMMA FlushersUseCarbon == [FlushNext]_flushVars => [CarbonNext]_vars
<1> SUFFICES ASSUME [FlushNext]_flushVars PROVE [CarbonNext]_vars
  OBVIOUS
<1>1. CASE UNCHANGED flushVars
  BY <1>1 DEF flushVars, vars
<1>2. CASE (\E w \in Worker : Spawn(w)) \/ (\E x \in Flusher : Acquire(x))
  BY <1>2 DEF Spawn, Acquire, Enter, vars
<1>3. CASE \E x \in Flusher : FlusherStep(x)
  BY <1>3 DEF FlusherStep, SetPrefix, AddMetrics, AddFigures, Sent, PrintLedger, Release,
              vars, CarbonNext
<1>4. CASE Send \/ Servers
  BY <1>4 DEF CarbonNext
<1> QED BY <1>1, <1>2, <1>3, <1>4 DEF FlushNext

(* Connect(d, open), when open is what the other connections hold: the     *)
(* socket of the new one was unused.                                       *)
LEMMA ConnectKeeps ==
  ASSUME SocketInv, NEW d \in Dest, NEW open, Connect(d, open),
         open = {conn[e] : e \in Dest \ {d}} \cap Sock, sent' = sent
  PROVE  /\ peer' \in [Sock -> {"none", "open", "full", "fin", "reset"}]
         /\ held' \subseteq Sock
         /\ conn' \in [Dest -> Sock \cup {Bad, NotYet}]
         /\ NoSocketLeak' /\ OneOwner' /\ Unused'
         /\ conn'[d] # NotYet
         /\ conn'[d] \in Sock => sent[conn'[d]] = <<>>
         /\ up[d] => conn'[d] \in Sock
         /\ ~up[d] => conn'[d] = Bad
         /\ \A e \in Dest \ {d} : conn'[e] = conn[e]
<1> DEFINE s == CHOOSE t \in Sock : peer[t] = "none"
<1>0. Bad \notin Sock /\ NotYet \notin Sock /\ Bad # NotYet
  BY CarbonAssumption DEF Bad, NotYet, Sock
<1>1. CASE up[d]
  <2>1. s \in Sock /\ peer[s] = "none"
    BY <1>1 DEF Connect
  <2>2. /\ peer' = [peer EXCEPT ![s] = "open"]
        /\ held' = open \cup {s}
        /\ conn' = [conn EXCEPT ![d] = s]
    BY <1>1 DEF Connect
  <2> HIDE DEF s
  <2>3. s \notin held /\ sent[s] = <<>>
    BY <2>1 DEF SocketInv, Unused
  <2>4. conn'[d] = s /\ \A e \in Dest \ {d} : conn'[e] = conn[e] /\ conn[e] # s
    BY <2>1, <2>2, <2>3 DEF SocketInv, TypeOK, NoSocketLeak
  <2>5. held' = {conn'[e] : e \in Dest} \cap Sock
    BY <2>1, <2>2, <2>4
  <2>6. OneOwner'
    BY <2>4 DEF SocketInv, OneOwner
  <2>7. Unused'
    <3>1. \A t \in Sock : peer'[t] = "none" => t # s /\ peer[t] = "none"
      BY <2>1, <2>2 DEF SocketInv, TypeOK
    <3>2. open \subseteq held
      BY DEF SocketInv, NoSocketLeak
    <3> QED BY <2>2, <3>1, <3>2 DEF SocketInv, Unused
  <2>8. /\ peer' \in [Sock -> {"none", "open", "full", "fin", "reset"}]
        /\ held' \subseteq Sock /\ conn' \in [Dest -> Sock \cup {Bad, NotYet}]
    BY <2>1, <2>2 DEF SocketInv, TypeOK
  <2> QED BY <1>0, <1>1, <2>1, <2>3, <2>4, <2>5, <2>6, <2>7, <2>8 DEF NoSocketLeak
<1>2. CASE ~up[d]
  <2>1. peer' = peer /\ held' = open /\ conn' = [conn EXCEPT ![d] = Bad]
    BY <1>2 DEF Connect
  <2>2. conn'[d] = Bad /\ \A e \in Dest \ {d} : conn'[e] = conn[e]
    BY <2>1 DEF SocketInv, TypeOK
  <2>3. held' = {conn'[e] : e \in Dest} \cap Sock
    BY <1>0, <2>1, <2>2
  <2>4. OneOwner'
    BY <1>0, <2>2 DEF SocketInv, OneOwner
  <2>5. Unused'
    BY <2>1 DEF SocketInv, Unused, NoSocketLeak
  <2>6. held' \subseteq Sock /\ conn' \in [Dest -> Sock \cup {Bad, NotYet}]
    BY <2>1 DEF SocketInv, TypeOK
  <2> QED BY <1>0, <1>2, <2>1, <2>2, <2>3, <2>4, <2>5, <2>6 DEF SocketInv, TypeOK, NoSocketLeak
<1> QED BY <1>1, <1>2

-------------------------------------------------------------------------------
(* The steps keep SocketInv.                                               *)

LEMMA Numbers ==
  /\ Bad \notin Sock /\ NotYet \notin Sock /\ Bad # NotYet
  /\ Sock \subseteq Nat
  /\ NumLines \in Nat /\ NumLines >= 1 /\ MaxFlushes \in Nat /\ MaxFaults \in Nat
  /\ NoDest \notin Dest
BY CarbonAssumption DEF Bad, NotYet, Sock

LEMMA StartSockets == SocketInv /\ StartFlush => SocketInv'
<1> SUFFICES ASSUME SocketInv, StartFlush PROVE SocketInv'
  OBVIOUS
<1>1. TypeOK'
  BY Numbers DEF SocketInv, StartFlush, TypeOK, server
<1>2. Position'
  BY Numbers DEF SocketInv, StartFlush, Position, Busy, TypeOK, server
<1> QED BY <1>1, <1>2 DEF SocketInv, StartFlush, NoSocketLeak, OneOwner, Unused

LEMMA EndSockets == SocketInv /\ EndFlush => SocketInv'
<1> SUFFICES ASSUME SocketInv, EndFlush PROVE SocketInv'
  OBVIOUS
<1>1. TypeOK'
  BY DEF SocketInv, EndFlush, TypeOK, server
<1>2. Position'
  BY DEF SocketInv, EndFlush, Position, Busy, server
<1> QED BY <1>1, <1>2 DEF SocketInv, EndFlush, NoSocketLeak, OneOwner, Unused

LEMMA NextSockets ==
  ASSUME SocketInv, NEW d \in Dest, NextDest(d)
  PROVE  SocketInv'
<1>1. /\ pc = "next" /\ d \in left /\ left' = left \ {d} /\ dest' = d /\ off' = 0
      /\ pc' = "write" /\ UNCHANGED <<up, faults, sent, flush, done>>
  BY DEF NextDest, server
<1>2. /\ peer' \in [Sock -> {"none", "open", "full", "fin", "reset"}]
      /\ held' \subseteq Sock
      /\ conn' \in [Dest -> Sock \cup {Bad, NotYet}]
      /\ NoSocketLeak' /\ OneOwner' /\ Unused'
      /\ conn'[d] # NotYet
  <2>1. CASE conn[d] = NotYet
    <3>1. held = {conn[e] : e \in Dest \ {d}} \cap Sock
      BY <2>1, Numbers DEF SocketInv, NoSocketLeak
    <3>2. Connect(d, held)
      BY <2>1 DEF NextDest
    <3> QED BY <1>1, <3>1, <3>2, ConnectKeeps
  <2>2. CASE conn[d] # NotYet
    <3>1. UNCHANGED <<peer, held, conn>>
      BY <2>2 DEF NextDest
    <3> QED BY <1>1, <2>2, <3>1 DEF SocketInv, TypeOK, NoSocketLeak, OneOwner, Unused
  <2> QED BY <2>1, <2>2
<1>3. TypeOK'
  BY <1>1, <1>2, Numbers DEF SocketInv, TypeOK
<1>4. Position'
  BY <1>1, <1>2 DEF SocketInv, Position, Busy
<1> QED BY <1>2, <1>3, <1>4 DEF SocketInv

\* A reconnection, after which the string is written again or given up.
LEMMA ReconnectSockets ==
  ASSUME SocketInv, pc = "refresh", NEW open, Connect(dest, open),
         open = {conn[e] : e \in Dest \ {dest}} \cap Sock,
         IF up[dest] THEN WriteAgain ELSE Return,
         UNCHANGED <<server, sent, flush, left, done>>
  PROVE  SocketInv'
<1>1. dest \in Dest \ left /\ flush >= 1
  BY DEF SocketInv, Position, Busy
<1>2. /\ peer' \in [Sock -> {"none", "open", "full", "fin", "reset"}]
      /\ held' \subseteq Sock
      /\ conn' \in [Dest -> Sock \cup {Bad, NotYet}]
      /\ NoSocketLeak' /\ OneOwner' /\ Unused'
      /\ conn'[dest] # NotYet
  BY <1>1, ConnectKeeps
<1>3. TypeOK'
  BY <1>2, Numbers DEF SocketInv, TypeOK, WriteAgain, Return, server
<1>4. Position'
  BY <1>1, <1>2 DEF SocketInv, Position, Busy, WriteAgain, Return
<1> QED BY <1>2, <1>3, <1>4 DEF SocketInv

\* What the other connections hold when one is bad or about to be closed.
LEMMA OpenBesides ==
  ASSUME SocketInv, pc = "refresh"
  PROVE  /\ conn[dest] = Bad => held = {conn[e] : e \in Dest \ {dest}} \cap Sock
         /\ conn[dest] \in Sock =>
              held \ {conn[dest]} = {conn[e] : e \in Dest \ {dest}} \cap Sock
<1>1. dest \in Dest
  BY DEF SocketInv, Position, Busy
<1>2. CASE conn[dest] = Bad
  BY <1>1, <1>2, Numbers DEF SocketInv, NoSocketLeak
<1>3. CASE conn[dest] \in Sock
  <2>1. \A e \in Dest \ {dest} : conn[e] # conn[dest]
    BY <1>1, <1>3 DEF SocketInv, OneOwner
  <2> QED BY <1>1, <1>3, <2>1, Numbers DEF SocketInv, NoSocketLeak
<1> QED BY <1>2, <1>3

LEMMA WriteSockets == SocketInv /\ (WriteFails \/ RefreshSame) => SocketInv'
<1> SUFFICES ASSUME SocketInv, WriteFails \/ RefreshSame PROVE SocketInv'
  OBVIOUS
<1>1. /\ UNCHANGED <<up, peer, held, sent, conn, flush, left, dest, done>>
      /\ pc' \in {"write", "refresh"} /\ off' \in {off, 0}
      /\ faults' \in {faults} \cup {n \in 1..MaxFaults : n = faults + 1}
  BY Numbers DEF SocketInv, TypeOK, WriteFails, RefreshSame, Misbehave, WriteAgain, server
<1>3. TypeOK'
  BY <1>1, Numbers DEF SocketInv, TypeOK
<1>2. Position'
  BY DEF SocketInv, WriteFails, RefreshSame, WriteAgain, Position, Busy
<1> QED BY <1>2, <1>3 DEF SocketInv, WriteFails, RefreshSame, NoSocketLeak, OneOwner, Unused

LEMMA LineSockets == SocketInv /\ WriteLine => SocketInv'
<1> SUFFICES ASSUME SocketInv, WriteLine PROVE SocketInv'
  OBVIOUS
<1> DEFINE s == conn[dest]
<1>1. s \in Sock /\ peer[s] # "none" /\ pc = "write"
  BY DEF WriteLine
<1>2. /\ sent' = [sent EXCEPT ![s] = Append(@, StatString(flush)[off + 1])]
      /\ UNCHANGED <<up, faults, peer, held, conn, flush, left>>
  BY DEF WriteLine, server
<1>3. dest \in Dest \ left /\ flush \in 1..MaxFlushes /\ off \in 0..NumLines - 1
  BY <1>1, Numbers DEF SocketInv, TypeOK, Position, Busy
<1>4. StatString(flush)[off + 1] = <<flush, off + 1>> /\ <<flush, off + 1>> \in Line
  BY <1>3, Numbers DEF StatString, Line
<1>5. TypeOK'
  <2>1. sent' \in [Sock -> Seq(Line)]
    BY <1>1, <1>2, <1>4 DEF SocketInv, TypeOK
  <2>2. /\ off' \in 0..NumLines - 1 /\ pc' \in {"next", "write"}
        /\ dest' \in Dest \cup {NoDest}
    BY <1>1, <1>3, Numbers DEF WriteLine, Return
  <2>3. done' \subseteq (1..MaxFlushes) \X Dest \X Sock
    BY <1>1, <1>3 DEF WriteLine, SocketInv, TypeOK
  <2> QED BY <1>2, <2>1, <2>2, <2>3 DEF SocketInv, TypeOK
<1>6. Position'
  BY <1>1, <1>2, <1>3 DEF WriteLine, Return, SocketInv, Position, Busy
<1>7. Unused'
  BY <1>1, <1>2 DEF SocketInv, Unused, TypeOK
<1> QED BY <1>2, <1>5, <1>6, <1>7 DEF SocketInv, NoSocketLeak, OneOwner

LEMMA ServerSockets == SocketInv /\ Servers => SocketInv'
<1> SUFFICES ASSUME SocketInv, Servers PROVE SocketInv'
  OBVIOUS
<1>1. UNCHANGED <<held, sent, conn, flush, left, pc, dest, off, done>>
  BY DEF Servers, ServerGoes, ServerComes, ServerCloses, ServerStalls,
         ServerReads, ServerResets
<1>2. /\ up' \in [Dest -> BOOLEAN] /\ faults' \in 0..MaxFaults
      /\ peer' \in [Sock -> {"none", "open", "full", "fin", "reset"}]
      /\ \A s \in Sock : peer'[s] = "none" => peer[s] = "none"
  <2>0. /\ up \in [Dest -> BOOLEAN] /\ faults \in 0..MaxFaults /\ conn \in [Dest -> Sock \cup {Bad, NotYet}]
        /\ peer \in [Sock -> {"none", "open", "full", "fin", "reset"}]
    BY DEF SocketInv, TypeOK
  <2>1. faults' \in 0..MaxFaults
    <3>1. faults' = faults \/ Misbehave
      BY DEF Servers, ServerGoes, ServerComes, ServerCloses, ServerStalls, ServerReads,
             ServerResets, server
    <3> QED BY <2>0, <3>1, Numbers DEF Misbehave
  <2>2. up' = up \/ \E d \in Dest, b \in BOOLEAN : up' = [up EXCEPT ![d] = b]
    BY DEF Servers, ServerGoes, ServerComes, ServerCloses, ServerStalls, ServerReads,
           ServerResets, server
  <2>3. \/ peer' = peer
        \/ \E s \in Sock, p \in {"open", "full", "fin", "reset"} : peer' = [peer EXCEPT ![s] = p]
    BY <2>0 DEF Servers, ServerGoes, ServerComes, ServerCloses, ServerStalls, ServerReads,
           ServerResets
  <2>4. up' \in [Dest -> BOOLEAN]
    BY <2>0, <2>2
  <2>5. /\ peer' \in [Sock -> {"none", "open", "full", "fin", "reset"}]
        /\ \A t \in Sock : peer'[t] = "none" => peer[t] = "none"
    BY <2>0, <2>3
  <2> QED BY <2>1, <2>4, <2>5
<1>3. TypeOK' /\ Position'
  BY <1>1, <1>2 DEF SocketInv, TypeOK, Position, Busy
<1> QED BY <1>1, <1>2, <1>3 DEF SocketInv, NoSocketLeak, OneOwner, Unused

-------------------------------------------------------------------------------
(* The steps keep what is said of the lines.                               *)

LEMMA LastTyped ==
  ASSUME TypeOK, NEW s \in Sock, sent[s] # <<>>
  PROVE  LastLine(s) \in Line /\ LastLine(s)[1] \in Nat /\ LastLine(s)[2] \in Nat
<1>1. sent[s] \in Seq(Line) /\ Len(sent[s]) \in 1..Len(sent[s])
  BY DEF TypeOK
<1>2. LastLine(s) \in Line
  BY <1>1 DEF LastLine
<1> QED BY <1>2, Numbers DEF Line

LEMMA CompleteLater ==
  ASSUME TypeOK, NEW s \in Sock, NEW m \in Nat, NEW n \in Nat, m <= n, Complete(s, m)
  PROVE  Complete(s, n)
<1>1. CASE sent[s] = <<>>
  BY <1>1 DEF Complete
<1>2. CASE sent[s] # <<>>
  BY <1>2, LastTyped DEF Complete
<1> QED BY <1>1, <1>2

\* Without a new line or string, only EndsInv has to be looked at.
LEMMA LinesKept == LinesInv /\ sent' = sent /\ done' = done => LinesInv'
<1> SUFFICES ASSUME LinesInv, sent' = sent, done' = done PROVE LinesInv'
  OBVIOUS
<1>1. \A s \in Sock : WellFormed(s)'
  BY DEF LinesInv, WellFormed, Follows
<1>2. \A r \in done : Whole(r)'
  BY DEF LinesInv, Whole
<1> QED BY <1>1, <1>2 DEF LinesInv

LEMMA StartEnds == CarbonInv /\ StartFlush => EndsInv'
<1> SUFFICES ASSUME CarbonInv, StartFlush PROVE EndsInv'
  OBVIOUS
<1>1. /\ pc = "idle" /\ left = {} /\ flush \in Nat /\ flush' = flush + 1 /\ pc' = "next"
      /\ UNCHANGED <<sent, conn>>
  BY DEF CarbonInv, SocketInv, TypeOK, Position, StartFlush
<1>2. ASSUME NEW d \in Dest, conn[d] \in Sock PROVE Quiet(d)'
  <2>1. Complete(conn[d], flush + 1)
    BY <1>1, <1>2 DEF CarbonInv, EndsInv, Busy, Quiet
  <2>2. Complete(conn[d], flush + 2)
    BY <1>1, <1>2, <2>1, CompleteLater DEF CarbonInv, SocketInv
  <2> QED BY <1>1, <2>1, <2>2 DEF Quiet, Complete, LastLine
<1> QED BY <1>1, <1>2 DEF EndsInv, Busy

LEMMA EndEnds == CarbonInv /\ EndFlush => EndsInv'
BY DEF CarbonInv, EndFlush, EndsInv, Busy, Quiet, Complete, LastLine

LEMMA NextEnds ==
  ASSUME CarbonInv, NEW d \in Dest, NextDest(d)
  PROVE  EndsInv'
<1>1. /\ pc = "next" /\ d \in left /\ left' = left \ {d} /\ dest' = d /\ off' = 0
      /\ pc' = "write" /\ UNCHANGED <<sent, flush>>
  BY DEF NextDest, server
<1>2. /\ \A e \in Dest \ {d} : conn'[e] = conn[e]
      /\ conn'[d] \in Sock => sent[conn'[d]] = <<>> \/ conn'[d] = conn[d]
  <2>1. CASE conn[d] = NotYet
    <3>1. held = {conn[e] : e \in Dest \ {d}} \cap Sock
      BY <2>1, Numbers DEF CarbonInv, SocketInv, NoSocketLeak
    <3>2. Connect(d, held)
      BY <2>1 DEF NextDest
    <3> QED BY <1>1, <3>1, <3>2, ConnectKeeps DEF CarbonInv
  <2>2. CASE conn[d] # NotYet
    BY <2>2 DEF NextDest
  <2> QED BY <2>1, <2>2
<1>3. ASSUME NEW e \in Dest \ {d}, conn'[e] \in Sock PROVE Quiet(e)'
  <2>1. Quiet(e)
    BY <1>1, <1>2, <1>3 DEF CarbonInv, EndsInv, Busy
  <2> QED BY <1>1, <1>2, <2>1 DEF Quiet, Complete, LastLine
<1>4. ASSUME NEW s \in Sock, conn'[d] = s
      PROVE  Written(s, 0)' /\ Startable(s)'
  <2>1. Complete(s, flush)
    <3>1. CASE sent[s] = <<>>
      BY <3>1 DEF Complete
    <3>2. CASE s = conn[d]
      BY <1>1, <1>4, <3>2 DEF CarbonInv, EndsInv, Busy, Quiet
    <3> QED BY <1>2, <1>4, <3>1, <3>2
  <2>2. Len(sent[s]) \in Nat
    BY DEF CarbonInv, SocketInv, TypeOK
  <2> QED BY <1>1, <2>1, <2>2 DEF Written, Startable, Complete, LastLine
<1>5. conn'[d] \in Sock => Written(conn[d], off)' /\ Startable(conn[d])'
  BY <1>1, <1>4 DEF Written, Startable, Complete, LastLine
<1> QED BY <1>1, <1>3, <1>5 DEF EndsInv, Busy

LEMMA ReconnectEnds ==
  ASSUME CarbonInv, pc = "refresh", NEW open, Connect(dest, open),
         open = {conn[e] : e \in Dest \ {dest}} \cap Sock,
         IF up[dest] THEN WriteAgain ELSE Return,
         UNCHANGED <<server, sent, flush, left, done>>
  PROVE  EndsInv'
<1>1. dest \in Dest \ left
  BY DEF CarbonInv, SocketInv, Position, Busy
<1>2. /\ conn'[dest] \in Sock => sent[conn'[dest]] = <<>>
      /\ up[dest] => conn'[dest] \in Sock
      /\ ~up[dest] => conn'[dest] = Bad
      /\ \A e \in Dest \ {dest} : conn'[e] = conn[e]
  BY <1>1, ConnectKeeps DEF CarbonInv
<1>3. ASSUME NEW e \in Dest \ {dest}, conn'[e] \in Sock PROVE Quiet(e)'
  <2>1. Quiet(e)
    BY <1>2, <1>3 DEF CarbonInv, EndsInv
  <2> QED BY <1>2, <2>1 DEF Quiet, Complete, LastLine
<1>4. CASE up[dest]
  <2>1. dest' = dest /\ off' = 0 /\ pc' = "write"
    BY <1>4 DEF WriteAgain
  <2>2. Written(conn[dest], off)' /\ Startable(conn[dest])'
    BY <1>2, <1>4, <2>1 DEF Written, Startable, Complete
  <2> QED BY <1>3, <2>1, <2>2 DEF EndsInv, Busy
<1>5. CASE ~up[dest]
  <2>1. pc' = "next"
    BY <1>5 DEF Return
  <2> QED BY <1>2, <1>3, <1>5, <2>1, Numbers DEF EndsInv, Busy
<1> QED BY <1>4, <1>5

LEMMA FailEnds == CarbonInv /\ WriteFails => EndsInv'
<1> SUFFICES ASSUME CarbonInv, WriteFails PROVE EndsInv'
  OBVIOUS
<1>1. /\ pc = "write" /\ pc' = "refresh"
      /\ UNCHANGED <<sent, conn, flush, left, dest, off>>
  BY DEF WriteFails
<1>2. \A s : /\ Written(s, off)' <=> Written(s, off)
             /\ Startable(s)' <=> Startable(s)
             /\ \A n : Complete(s, n)' <=> Complete(s, n)
  BY <1>1 DEF Written, Startable, Complete, LastLine
<1> QED BY <1>1, <1>2 DEF CarbonInv, EndsInv, Busy, Quiet

\* The string that was cut off at off may be started again.
LEMMA SameEnds == CarbonInv /\ RefreshSame => EndsInv'
<1> SUFFICES ASSUME CarbonInv, RefreshSame PROVE EndsInv'
  OBVIOUS
<1> DEFINE s == conn[dest]
<1>1. /\ pc = "refresh" /\ pc' = "write" /\ off' = 0 /\ s \in Sock
      /\ UNCHANGED <<sent, conn, flush, left, dest>>
  BY DEF RefreshSame, WriteAgain
<1>2. /\ sent[s] \in Seq(Line) /\ off \in 0..NumLines - 1
      /\ Written(s, off) /\ (off = 0 => Startable(s))
  BY <1>1 DEF CarbonInv, SocketInv, TypeOK, EndsInv, Busy
<1>3. Startable(s)
  <2>1. CASE off > 0
    <3>1. LastLine(s) = <<flush, off>>
      BY <1>2, <2>1, Numbers DEF Written, LastLine
    <3> QED BY <1>2, <3>1, Numbers DEF Startable
  <2> QED BY <1>2, <2>1, Numbers
<1>4. Written(s, 0)
  BY <1>2 DEF Written
<1>5. Written(conn[dest], off)' /\ Startable(conn[dest])'
  BY <1>1, <1>3, <1>4 DEF Written, Startable, Complete, LastLine
<1>6. \A t, n : Complete(t, n)' <=> Complete(t, n)
  BY <1>1 DEF Complete, LastLine
<1> QED BY <1>1, <1>5, <1>6 DEF CarbonInv, EndsInv, Busy, Quiet

LEMMA PeersEnds == CarbonInv /\ Servers => EndsInv'
<1> SUFFICES ASSUME CarbonInv, Servers PROVE EndsInv'
  OBVIOUS
<1>1. UNCHANGED <<held, sent, conn, flush, left, pc, dest, off, done>>
  BY DEF Servers, ServerGoes, ServerComes, ServerCloses, ServerStalls,
         ServerReads, ServerResets
<1>2. \A s : /\ Written(s, off)' <=> Written(s, off)
             /\ Startable(s)' <=> Startable(s)
             /\ \A n : Complete(s, n)' <=> Complete(s, n)
  BY <1>1 DEF Written, Startable, Complete, LastLine
<1> QED BY <1>1, <1>2 DEF CarbonInv, EndsInv, Busy, Quiet

(* The one step that sends something: line k + 1 of flush f.               *)
LEMMA LineLines == CarbonInv /\ WriteLine => EndsInv' /\ LinesInv'
<1> SUFFICES ASSUME CarbonInv, WriteLine PROVE EndsInv' /\ LinesInv'
  OBVIOUS
<1>0. PICK s \in Sock, d \in Dest, k \in Nat, f \in Nat, n \in Nat :
        /\ s = conn[d] /\ d = dest /\ k = off /\ f = flush /\ n = Len(sent[s])
        /\ d \notin left /\ k < NumLines /\ f \in 1..MaxFlushes
        /\ sent[s] \in Seq(Line)
  <2>1. conn[dest] \in Sock /\ pc = "write"
    BY DEF WriteLine
  <2>2. /\ dest \in Dest \ left /\ off \in Nat /\ off < NumLines
        /\ flush \in 1..MaxFlushes /\ flush \in Nat
    BY <2>1, Numbers DEF CarbonInv, SocketInv, TypeOK, Position, Busy
  <2>3. sent[conn[dest]] \in Seq(Line) /\ Len(sent[conn[dest]]) \in Nat
    BY <2>1 DEF CarbonInv, SocketInv, TypeOK
  <2> QED BY <2>1, <2>2, <2>3, Zenon
<1>1. pc = "write" /\ <<f, k + 1>> \in Line /\ StatString(f)[k + 1] = <<f, k + 1>>
  BY <1>0, Numbers DEF WriteLine, StatString, Line
<1>2. /\ \A t \in Sock \ {s} : sent'[t] = sent[t]
      /\ sent'[s] = Append(sent[s], <<f, k + 1>>)
      /\ UNCHANGED <<conn, flush, left>>
  BY <1>0, <1>1 DEF WriteLine, CarbonInv, SocketInv, TypeOK
<1>3. /\ Len(sent'[s]) = n + 1 /\ sent'[s][n + 1] = <<f, k + 1>>
      /\ \A i \in 1..n : sent'[s][i] = sent[s][i]
  <2> DEFINE old == sent[s]
             new == Append(old, <<f, k + 1>>)
  <2>1. old \in Seq(Line) /\ <<f, k + 1>> \in Line /\ Len(old) = n
    BY <1>0, <1>1
  <2> HIDE DEF old
  <2>2. Len(new) = n + 1 /\ new[n + 1] = <<f, k + 1>> /\ \A i \in 1..n : new[i] = old[i]
    BY <2>1, AppendProperties
  <2>3. sent'[s] = new
    BY <1>2 DEF old
  <2> HIDE DEF new
  <2> QED BY <2>2, <2>3 DEF old
<1>4. /\ Written(s, k) /\ (k = 0 => Startable(s))
      /\ WellFormed(s)
  BY <1>0, <1>1 DEF CarbonInv, EndsInv, LinesInv, Busy
<1>5. k <= n /\ \A i \in 1..k : sent[s][n - k + i] = <<f, i>>
  BY <1>0, <1>4 DEF Written
<1>6. \A i \in 1..k + 1 : sent'[s][(n + 1) - (k + 1) + i] = <<f, i>>
  <2> SUFFICES ASSUME NEW i \in 1..k + 1
               PROVE  sent'[s][(n + 1) - (k + 1) + i] = <<f, i>>
    OBVIOUS
  <2>1. CASE i = k + 1
    <3>1. (n + 1) - (k + 1) + i = n + 1
      BY <1>5, <2>1
    <3> QED BY <1>3, <2>1, <3>1
  <2>2. CASE i # k + 1
    <3>1. i \in 1..k /\ n - k + i \in 1..n /\ (n + 1) - (k + 1) + i = n - k + i
      BY <1>5, <2>2
    <3> QED BY <1>3, <1>5, <3>1
  <2> QED BY <2>1, <2>2
<1>7. Written(s, k + 1)'
  <2>1. flush' = f /\ Len(sent'[s]) = n + 1 /\ k + 1 <= n + 1
    BY <1>0, <1>2, <1>3, <1>5
  <2> QED BY <1>6, <2>1 DEF Written
<1>8. ASSUME n > 0 PROVE Follows(<<f, k + 1>>, sent[s][n])
  <2>1. /\ sent[s] # <<>> /\ LastLine(s) = sent[s][n]
        /\ LastLine(s)[1] \in Nat /\ LastLine(s)[2] \in Nat
    BY <1>0, <1>8, LastTyped DEF LastLine, CarbonInv, SocketInv
  <2>2. CASE k > 0
    <3>1. sent[s][n - k + k] = <<f, k>> /\ n - k + k = n
      BY <1>5, <2>2
    <3> QED BY <3>1 DEF Follows
  <2>3. CASE k = 0 /\ Complete(s, flush)
    BY <1>0, <2>1, <2>3 DEF Complete, Follows
  <2>4. CASE k = 0 /\ LastLine(s)[1] = flush /\ LastLine(s)[2] < NumLines
    BY <1>0, <2>1, <2>4 DEF Follows
  <2> QED BY <1>4, <2>2, <2>3, <2>4 DEF Startable
<1>9. WellFormed(s)'
  <2> SUFFICES ASSUME NEW i \in 1..n + 1
               PROVE  IF i = 1 THEN sent'[s][i][2] = 1
                      ELSE Follows(sent'[s][i], sent'[s][i - 1])
    BY <1>3 DEF WellFormed, Follows
  <2>1. CASE i = n + 1 /\ n = 0
    BY <1>3, <1>5, <2>1
  <2>2. CASE i = n + 1 /\ n > 0
    <3>1. sent'[s][i] = <<f, k + 1>> /\ i # 1 /\ i - 1 = n /\ n \in 1..n
      BY <1>3, <2>2
    <3> QED BY <1>3, <1>8, <2>2, <3>1
  <2>3. CASE i \in 1..n
    <3>1. i # 1 => i - 1 \in 1..n
      BY <2>3
    <3>2. IF i = 1 THEN sent[s][i][2] = 1 ELSE Follows(sent[s][i], sent[s][i - 1])
      BY <1>0, <1>4, <2>3 DEF WellFormed
    <3> QED BY <1>3, <2>3, <3>1, <3>2
  <2> QED BY <2>1, <2>2, <2>3
<1>10. ASSUME NEW r \in done PROVE Whole(r)'
  <2>1. r[3] \in Sock /\ Whole(r)
    BY DEF CarbonInv, SocketInv, TypeOK, LinesInv
  <2>2. CASE r[3] # s
    BY <1>2, <2>1, <2>2 DEF Whole
  <2>3. CASE r[3] = s
    <3>1. PICK i \in 0..n - NumLines : \A j \in 1..NumLines : sent[s][i + j] = <<r[1], j>>
      BY <1>0, <2>1, <2>3 DEF Whole
    <3>2. \A j \in 1..NumLines : i + j \in 1..n
      BY Numbers
    <3>3. \A j \in 1..NumLines : sent'[s][i + j] = <<r[1], j>>
      BY <1>3, <3>1, <3>2
    <3>4. i \in 0..(n + 1) - NumLines
      BY Numbers
    <3> QED BY <1>3, <2>3, <3>3, <3>4 DEF Whole
  <2> QED BY <2>2, <2>3
<1>11. ASSUME NEW r \in done', r \notin done PROVE Whole(r)'
  <2>1. r = <<f, d, s>> /\ k + 1 = NumLines
    BY <1>0, <1>11 DEF WriteLine
  <2>2. /\ (n + 1) - (k + 1) \in 0..(n + 1) - NumLines
        /\ \A j \in 1..NumLines : sent'[s][(n + 1) - (k + 1) + j] = <<f, j>>
    BY <1>5, <1>6, <2>1, Numbers
  <2> QED BY <1>3, <2>1, <2>2 DEF Whole
<1>12. LinesInv'
  <2>1. ASSUME NEW t \in Sock \ {s} PROVE WellFormed(t)'
    <3>1. sent'[t] = sent[t] /\ WellFormed(t)
      BY <1>2 DEF CarbonInv, LinesInv
    <3> QED BY <3>1 DEF WellFormed, Follows
  <2> QED BY <1>9, <1>10, <1>11, <2>1 DEF LinesInv
<1>13. ASSUME NEW e \in Dest \ {d}, conn'[e] \in Sock PROVE Quiet(e)'
  <2>1. conn[e] \in Sock \ {s} /\ Quiet(e)
    BY <1>0, <1>2, <1>13 DEF CarbonInv, SocketInv, OneOwner, EndsInv
  <2> QED BY <1>2, <2>1 DEF Quiet, Complete, LastLine
<1>14. CASE k + 1 = NumLines
  <2>1. pc' = "next"
    BY <1>0, <1>14 DEF WriteLine, Return
  <2>2. Complete(s, f + 1)'
    BY <1>3, <1>14 DEF Complete, LastLine
  <2>3. Quiet(d)'
    BY <1>0, <1>2, <2>2 DEF Quiet, Complete, LastLine
  <2> QED BY <1>12, <1>13, <2>1, <2>3 DEF EndsInv, Busy
<1>15. CASE k + 1 # NumLines
  <2>1. pc' = "write" /\ dest' = d /\ off' = k + 1 /\ conn'[d] = s
    BY <1>0, <1>1, <1>2, <1>15 DEF WriteLine
  <2>2. Written(conn[dest], off)'
    BY <1>7, <2>1 DEF Written
  <2> QED BY <1>12, <1>13, <2>1, <2>2 DEF EndsInv, Busy
<1> QED BY <1>14, <1>15

-------------------------------------------------------------------------------
LEMMA CarbonStep == CarbonInv /\ [CarbonNext]_vars => CarbonInv'
<1> SUFFICES ASSUME CarbonInv, [CarbonNext]_vars PROVE CarbonInv'
  OBVIOUS
<1>1. CASE UNCHANGED vars
  <2>1. SocketInv'
    BY <1>1 DEF CarbonInv, SocketInv, vars, TypeOK, Position, Busy, NoSocketLeak, OneOwner,
                Unused
  <2>2. EndsInv'
    BY <1>1 DEF CarbonInv, EndsInv, Busy, vars, Written, Startable, Quiet, Complete, LastLine
  <2>3. LinesInv'
    BY <1>1, LinesKept DEF CarbonInv, vars
  <2> QED BY <2>1, <2>2, <2>3 DEF CarbonInv
<1>2. CASE StartFlush
  BY <1>2, StartSockets, StartEnds, LinesKept DEF CarbonInv, StartFlush
<1>3. CASE EndFlush
  BY <1>3, EndSockets, EndEnds, LinesKept DEF CarbonInv, EndFlush
<1>4. CASE \E d \in Dest : NextDest(d)
  BY <1>4, NextSockets, NextEnds, LinesKept DEF CarbonInv, NextDest
<1>5. CASE WriteFails
  BY <1>5, WriteSockets, FailEnds, LinesKept DEF CarbonInv, WriteFails
<1>6. CASE WriteLine
  BY <1>6, LineSockets, LineLines DEF CarbonInv
<1>7. CASE RefreshBad
  BY <1>7, OpenBesides, ReconnectSockets, ReconnectEnds, LinesKept DEF CarbonInv, RefreshBad
<1>8. CASE RefreshHungUp
  BY <1>8, OpenBesides, ReconnectSockets, ReconnectEnds, LinesKept DEF CarbonInv, RefreshHungUp
<1>9. CASE RefreshSame
  BY <1>9, WriteSockets, SameEnds, LinesKept DEF CarbonInv, RefreshSame
<1>10. CASE Servers
  <2>1. sent' = sent /\ done' = done
    BY <1>10 DEF Servers, ServerGoes, ServerComes, ServerCloses, ServerStalls,
         ServerReads, ServerResets
  <2> QED BY <1>10, <2>1, ServerSockets, PeersEnds, LinesKept DEF CarbonInv
<1> QED
  BY <1>1, <1>2, <1>3, <1>4, <1>5, <1>6, <1>7, <1>8, <1>9, <1>10 DEF CarbonNext, Send

LEMMA CarbonAlways == FlushSpec => []CarbonInv
<1>1. FlushInit => CarbonInv
  BY CarbonInit DEF FlushInit
<1>2. CarbonInv /\ [FlushNext]_flushVars => CarbonInv'
  BY CarbonStep, FlushersUseCarbon
<1> QED BY <1>1, <1>2, PTL DEF FlushSpec

(* A whole string on a connection is one of its subsequences.              *)
LEMMA WholeIsSubSeq ==
  ASSUME TypeOK, NEW r \in done, Whole(r)
  PROVE  \E i \in 0..Len(sent[r[3]]) - NumLines :
           SubSeq(sent[r[3]], i + 1, i + NumLines) = StatString(r[1])
<1>1. sent[r[3]] \in Seq(Line)
  BY DEF TypeOK
<1> DEFINE q == sent[r[3]]
           n == Len(q)
<1>2. PICK i \in 0..n - NumLines : \A k \in 1..NumLines : q[i + k] = <<r[1], k>>
  BY DEF Whole
<1>3. n \in Nat /\ i \in Nat /\ i + NumLines <= n
  BY <1>1, <1>2, Numbers
<1> HIDE DEF n
<1>4. \A j \in i + 1..i + NumLines : q[j] \in Line
  BY <1>1, <1>3, Numbers DEF n
<1> HIDE DEF q
<1> DEFINE p == SubSeq(q, i + 1, i + NumLines)
<1>5. i + 1 \in Int /\ i + NumLines \in Int /\ i + 1 <= i + NumLines
      /\ (i + NumLines) - (i + 1) + 1 = NumLines
  BY <1>3, Numbers
<1>6. /\ p \in Seq(Line) /\ Len(p) = NumLines
      /\ \A j \in 1..NumLines : p[j] = q[(i + 1) + j - 1]
  BY <1>4, <1>5, SubSeqProperties
<1>7. \A j \in 1..NumLines : p[j] = <<r[1], j>>
  <2>1. \A j \in 1..NumLines : (i + 1) + j - 1 = i + j
    BY <1>3, Numbers
  <2> QED BY <1>2, <1>6, <2>1
<1> HIDE DEF p
<1>8. p = [j \in 1..NumLines |-> p[j]]
  BY <1>6
<1>9. p = StatString(r[1])
  BY <1>7, <1>8 DEF StatString
<1> QED BY <1>2, <1>9 DEF p, q, n

-------------------------------------------------------------------------------
(* The types of what Flush adds.                                           *)

TypesInv ==
  /\ guard \in [Worker -> {0, 1}]
  /\ fpc \in [Flusher -> {"idle", "lock", "prefix", "metrics", "figures", "send",
                          "print", "leave"}]
  /\ ledger \in [Flusher -> SUBSET Aggregate]
  /\ lmut \in Flusher \cup {NoFlusher}
  /\ prefix_stats \in Worker \cup {NoWorker}
  /\ \A e \in stored : e.to \in Dest /\ e.by \in Worker
  /\ DOMAIN strings = Flusher
  /\ \A x \in Flusher : /\ strings[x] # {} => fpc[x] = "figures"
                         /\ \A e \in strings[x] : e.by = x[1]

LEMMA OwnerIsWorker == \A x \in Flusher : x[1] \in Worker
BY DEF Flusher

LEMMA PlaceIsFlusher ==
  ASSUME NEW w \in Worker, guard \in [Worker -> {0, 1}]
  PROVE  <<w, 1 - guard[w]>> \in Flusher /\ 1 - guard[w] \in {0, 1}
<1>1. 1 - guard[w] \in {0, 1}
  OBVIOUS
<1> QED BY <1>1 DEF Flusher

LEMMA TypesStep == TypesInv /\ [FlushNext]_flushVars => TypesInv'
<1> SUFFICES ASSUME TypesInv, [FlushNext]_flushVars PROVE TypesInv'
  OBVIOUS
<1> USE DEF TypesInv
<1>1. CASE UNCHANGED container
  BY <1>1 DEF container
<1>2. ASSUME NEW w \in Worker, Spawn(w) PROVE TypesInv'
  <2>1. \A l \in Ledgers[w] : l \in SUBSET Aggregate
    BY FlushAssumption
  <2>2. PICK x \in Flusher : x = <<w, 1 - guard[w]>> /\ x[2] \in {0, 1}
    BY PlaceIsFlusher
  <2>3. /\ fpc[x] = "idle" /\ fpc' = [fpc EXCEPT ![x] = "lock"]
        /\ guard' = [guard EXCEPT ![w] = x[2]]
        /\ \E l \in Ledgers[w] : ledger' = [ledger EXCEPT ![x] = l]
        /\ UNCHANGED <<lmut, prefix_stats, strings, stored>>
    BY <1>2, <2>2 DEF Spawn, At
  <2> QED BY <2>1, <2>2, <2>3
<1>3. ASSUME NEW x \in Flusher, Acquire(x) \/ SetPrefix(x) PROVE TypesInv'
  BY <1>3, OwnerIsWorker DEF Acquire, Enter, SetPrefix, At
<1>4. ASSUME NEW x \in Flusher, AddMetrics(x) PROVE TypesInv'
  <2>1. \A e \in MetricLines(x) : e.by = x[1]
    BY DEF MetricLines, Entry
  <2> QED BY <1>4, <2>1 DEF AddMetrics, At
<1>5. ASSUME NEW x \in Flusher, AddFigures(x) PROVE TypesInv'
  <2> DEFINE lines == strings[x] \cup FigureLines(x, prefix_stats)
  <2>1. \A e \in lines : e.to \in Dest
    BY <1>5 DEF AddFigures, StartFlush
  <2>2. \A e \in lines : e.by = x[1]
    <3>1. \A e \in strings[x] : e.by = x[1]
      OBVIOUS
    <3>2. ASSUME NEW e \in FigureLines(x, prefix_stats) PROVE e.by = x[1]
      <4>1. PICK g \in Figure :
              e = Entry(<<prefix_stats, g>>, FigurePlace[<<prefix_stats, g>>], x[1])
        BY DEF FigureLines
      <4> QED BY <4>1 DEF Entry
    <3> QED BY <3>1, <3>2
  <2>3. /\ fpc' = [fpc EXCEPT ![x] = "send"] /\ strings' = [strings EXCEPT ![x] = {}]
        /\ stored' = stored \cup lines /\ UNCHANGED <<guard, ledger, lmut, prefix_stats>>
    BY <1>5 DEF AddFigures, At
  <2> HIDE DEF lines
  <2> QED BY <2>1, <2>2, <2>3, OwnerIsWorker
<1>6. ASSUME NEW x \in Flusher, Sent(x) \/ PrintLedger(x) \/ Release(x) PROVE TypesInv'
  BY <1>6 DEF Sent, PrintLedger, Release, At
<1> QED
  BY <1>1, <1>2, <1>3, <1>4, <1>5, <1>6 DEF FlushNext, FlusherStep, flushVars

(* Every variable of the flushers and of the connections keeps its type.   *)
THEOREM FlushTypeCorrect == FlushSpec => []FlushTypeOK
<1>1. FlushInit => TypesInv
  BY DEF FlushInit, TypesInv
<1>2. CarbonInv /\ TypesInv => FlushTypeOK
  BY DEF CarbonInv, SocketInv, TypesInv, FlushTypeOK
<1> QED BY CarbonAlways, TypesStep, <1>1, <1>2, PTL DEF FlushSpec

(* However connections break, close and are made again, the process has    *)
(* exactly the sockets open that its connections use (connection.h:76-88). *)
THEOREM NothingLeaks == FlushSpec => []NoSocketLeak
<1>1. CarbonInv => NoSocketLeak
  BY DEF CarbonInv, SocketInv
<1> QED BY CarbonAlways, <1>1, PTL

(* On every connection a string follows a complete one or starts again from *)
(* its beginning, and one that write returned true for is there as a whole *)
(* (connection.h:55-65).                                                   *)
THEOREM StringsKeepTheirBeginning == FlushSpec => []CutIsLastOrRepeated
<1>1. CarbonInv => CutIsLastOrRepeated
  <2> SUFFICES ASSUME CarbonInv PROVE CutIsLastOrRepeated
    OBVIOUS
  <2>1. AcceptedWhole
    BY WholeIsSubSeq DEF CarbonInv, SocketInv, LinesInv, AcceptedWhole
  <2>2. \A s \in Sock : WellFormed(s)
    BY DEF CarbonInv, LinesInv
  <2> QED BY <2>1, <2>2 DEF CutIsLastOrRepeated, WellFormed, Follows
<1> QED BY CarbonAlways, <1>1, PTL

-----------------------------------------------------------------------------

Inside == {"prefix", "metrics", "figures", "send", "print", "leave"}

(* The series of a metric, and a figure under its own worker's id. *)
IsMetric(e) == \E p, n, y : e.series = <<p, n, y>>
IsFigure(e) == \E w \in Worker, g \in Figure : e.series = <<w, g>> /\ e.by = w

(* The flusher that is among the backends holds the mutex, so that nobody   *)
(* replaces prefix_stats between its setting and its use.                   *)
OwnPrefix(x) ==
  /\ fpc[x] \in Inside => lmut = x
  /\ fpc[x] \in {"metrics", "figures"} => prefix_stats = x[1]

(* Its figures have been written once it is past them. *)
HasFigures(x) ==
  fpc[x] \in {"send", "print", "leave"} =>
    \A g \in Figure : \E e \in stored : e.series = <<x[1], g>> /\ e.by = x[1]

OwnStrings(x) == \A e \in strings[x] : IsMetric(e)

IInv ==
  /\ guard \in [Worker -> {0, 1}]
  /\ fpc \in [Flusher -> Inside \cup {"idle", "lock"}]
  /\ DOMAIN strings = Flusher
  /\ \A x \in Flusher : OwnPrefix(x) /\ HasFigures(x) /\ OwnStrings(x)
  /\ \A e \in stored : IsMetric(e) \/ IsFigure(e)
  /\ \A e \in printed : IsMetric(e) \/ IsFigure(e)

-----------------------------------------------------------------------------
LEMMA FlushInitial == FlushInit => IInv
  BY DEF FlushInit, IInv, Inside, OwnPrefix, HasFigures, OwnStrings

LEMMA MetricLinesAre ==
  ASSUME NEW x \in Flusher
  PROVE  \A e \in MetricLines(x) : IsMetric(e)
<1> SUFFICES ASSUME NEW a \in ledger[x], NEW y \in Suffixes(a[1])
             PROVE  IsMetric(Entry(<<PrefixOf[a[1]], Clean[a[2]], y>>, Place[a[2]], x[1]))
  BY DEF MetricLines
<1> QED
  BY DEF IsMetric, Entry

(* The step of one flusher leaves what belongs to another one alone. *)
LEMMA Others ==
  ASSUME IInv, NEW x \in Flusher, NEW v \in Flusher, v # x,
         fpc'[v] = fpc[v], strings'[v] = strings[v], stored \subseteq stored',
         \/ UNCHANGED <<lmut, prefix_stats>>
         \/ lmut = x
         \/ lmut = NoFlusher
  PROVE  OwnPrefix(v)' /\ HasFigures(v)' /\ OwnStrings(v)'
<1>1. OwnPrefix(v) /\ HasFigures(v) /\ OwnStrings(v)
  BY DEF IInv
<1>2. OwnPrefix(v)'
  <2>1. v # NoFlusher
    BY FlushAssumption
  <2>2. {"metrics", "figures"} \subseteq Inside
    BY DEF Inside
  <2> QED
    BY <1>1, <2>1, <2>2 DEF OwnPrefix
<1>3. HasFigures(v)'
  BY <1>1 DEF HasFigures
<1>4. OwnStrings(v)'
  BY <1>1 DEF OwnStrings
<1> QED
  BY <1>2, <1>3, <1>4

LEMMA SpawnKeeps ==
  ASSUME IInv, NEW w \in Worker, Spawn(w)
  PROVE  IInv'
<1>1. PICK x \in Flusher : x = <<w, 1 - guard[w]>> /\ x[2] \in {0, 1}
  BY PlaceIsFlusher DEF IInv
<1>2. /\ fpc[x] = "idle" /\ fpc' = [fpc EXCEPT ![x] = "lock"]
      /\ guard' = [guard EXCEPT ![w] = x[2]]
      /\ UNCHANGED <<lmut, prefix_stats, strings, stored, printed>>
  BY <1>1 DEF Spawn, At
<1>3. OwnPrefix(x)' /\ HasFigures(x)' /\ OwnStrings(x)'
  BY <1>2 DEF IInv, OwnPrefix, HasFigures, OwnStrings, Inside
<1>4. ASSUME NEW v \in Flusher, v # x PROVE OwnPrefix(v)' /\ HasFigures(v)' /\ OwnStrings(v)'
  BY <1>2, <1>4, Others DEF IInv
<1> QED
  BY <1>1, <1>2, <1>3, <1>4 DEF IInv

LEMMA FlusherKeeps ==
  ASSUME IInv, NEW x \in Flusher, Acquire(x) \/ FlusherStep(x)
  PROVE  IInv'
<1>0. OwnPrefix(x) /\ HasFigures(x) /\ OwnStrings(x) /\ x # NoFlusher
  BY FlushAssumption DEF IInv
<1>1. CASE Acquire(x)
  <2>1. /\ fpc' = [fpc EXCEPT ![x] = "prefix"] /\ lmut = NoFlusher /\ lmut' = x
        /\ UNCHANGED <<guard, prefix_stats, strings, stored, printed>>
    BY <1>1 DEF Acquire, Enter, At
  <2>2. OwnPrefix(x)' /\ HasFigures(x)' /\ OwnStrings(x)'
    BY <1>0, <2>1 DEF IInv, OwnPrefix, HasFigures, OwnStrings
  <2>3. ASSUME NEW v \in Flusher, v # x PROVE OwnPrefix(v)' /\ HasFigures(v)' /\ OwnStrings(v)'
    BY <2>1, <2>3, Others DEF IInv
  <2>4. "prefix" \in Inside
    BY DEF Inside
  <2> QED
    BY <2>1, <2>2, <2>3, <2>4 DEF IInv
<1>2. CASE SetPrefix(x)
  <2>1. /\ fpc[x] = "prefix" /\ fpc' = [fpc EXCEPT ![x] = "metrics"]
        /\ prefix_stats' = x[1]
        /\ UNCHANGED <<guard, lmut, strings, stored, printed>>
    BY <1>2 DEF SetPrefix, At
  <2>2. lmut = x
    BY <1>0, <2>1 DEF OwnPrefix, Inside
  <2>3. OwnPrefix(x)' /\ HasFigures(x)' /\ OwnStrings(x)'
    BY <1>0, <2>1, <2>2 DEF IInv, OwnPrefix, HasFigures, OwnStrings
  <2>4. ASSUME NEW v \in Flusher, v # x PROVE OwnPrefix(v)' /\ HasFigures(v)' /\ OwnStrings(v)'
    BY <2>1, <2>2, <2>4, Others DEF IInv
  <2>5. "metrics" \in Inside
    BY DEF Inside
  <2> QED
    BY <2>1, <2>3, <2>4, <2>5 DEF IInv
<1>3. CASE AddMetrics(x)
  <2>1. /\ fpc[x] = "metrics" /\ fpc' = [fpc EXCEPT ![x] = "figures"]
        /\ strings' = [strings EXCEPT ![x] = MetricLines(x)]
        /\ UNCHANGED <<guard, lmut, prefix_stats, stored, printed>>
    BY <1>3 DEF AddMetrics, At
  <2>2. OwnPrefix(x)' /\ HasFigures(x)'
    BY <1>0, <2>1 DEF IInv, OwnPrefix, HasFigures, Inside
  <2>3. OwnStrings(x)'
    <3>1. strings'[x] = MetricLines(x)
      BY <2>1 DEF IInv
    <3> QED
      BY <3>1, MetricLinesAre DEF OwnStrings
  <2>4. ASSUME NEW v \in Flusher, v # x PROVE OwnPrefix(v)' /\ HasFigures(v)' /\ OwnStrings(v)'
    BY <2>1, <2>4, Others DEF IInv
  <2>5. "figures" \in Inside
    BY DEF Inside
  <2> QED
    BY <2>1, <2>2, <2>3, <2>4, <2>5 DEF IInv
<1>4. CASE AddFigures(x)
  <2>1. /\ fpc[x] = "figures" /\ fpc' = [fpc EXCEPT ![x] = "send"]
        /\ strings' = [strings EXCEPT ![x] = {}]
        /\ stored' = stored \cup (strings[x] \cup FigureLines(x, prefix_stats))
        /\ UNCHANGED <<guard, lmut, prefix_stats, printed>>
    BY <1>4 DEF AddFigures, At
  <2>2. prefix_stats = x[1] /\ x[1] \in Worker
    BY <1>0, <2>1, OwnerIsWorker DEF OwnPrefix
  <2>3. \A e \in FigureLines(x, prefix_stats) : IsFigure(e)
    <3> SUFFICES ASSUME NEW g \in Figure
                 PROVE  IsFigure(Entry(<<x[1], g>>, FigurePlace[<<x[1], g>>], x[1]))
      BY <2>2 DEF FigureLines
    <3> QED
      BY <2>2 DEF IsFigure, Entry
  <2>4. \A e \in stored' : IsMetric(e) \/ IsFigure(e)
    BY <1>0, <2>1, <2>3 DEF IInv, OwnStrings
  <2>5. HasFigures(x)'
    <3> SUFFICES ASSUME NEW g \in Figure
                 PROVE  \E e \in stored' : e.series = <<x[1], g>> /\ e.by = x[1]
      BY DEF HasFigures
    <3> DEFINE e == Entry(<<x[1], g>>, FigurePlace[<<x[1], g>>], x[1])
    <3>1. e \in stored'
      BY <2>1, <2>2 DEF FigureLines
    <3>2. e.series = <<x[1], g>> /\ e.by = x[1]
      BY DEF Entry
    <3> QED
      BY <3>1, <3>2
  <2>6. OwnPrefix(x)' /\ OwnStrings(x)'
    BY <1>0, <2>1 DEF IInv, OwnPrefix, OwnStrings, Inside
  <2>7. ASSUME NEW v \in Flusher, v # x PROVE OwnPrefix(v)' /\ HasFigures(v)' /\ OwnStrings(v)'
    BY <2>1, <2>7, Others DEF IInv
  <2>8. "send" \in Inside
    BY DEF Inside
  <2> QED
    BY <2>1, <2>4, <2>5, <2>6, <2>7, <2>8 DEF IInv
<1>5. CASE Sent(x)
  <2>1. /\ fpc[x] = "send" /\ fpc' = [fpc EXCEPT ![x] = "print"]
        /\ UNCHANGED <<guard, lmut, prefix_stats, strings, stored, printed>>
    BY <1>5 DEF Sent, At
  <2>2. OwnPrefix(x)' /\ HasFigures(x)' /\ OwnStrings(x)'
    BY <1>0, <2>1 DEF IInv, OwnPrefix, HasFigures, OwnStrings, Inside
  <2>3. ASSUME NEW v \in Flusher, v # x PROVE OwnPrefix(v)' /\ HasFigures(v)' /\ OwnStrings(v)'
    BY <2>1, <2>3, Others DEF IInv
  <2>4. "print" \in Inside
    BY DEF Inside
  <2> QED
    BY <2>1, <2>2, <2>3, <2>4 DEF IInv
<1>6. CASE PrintLedger(x)
  <2>1. /\ fpc[x] = "print" /\ fpc' = [fpc EXCEPT ![x] = "leave"]
        /\ UNCHANGED <<guard, lmut, prefix_stats, strings, stored>>
    BY <1>6 DEF PrintLedger, At
  <2>2. \A e \in printed' : IsMetric(e) \/ IsFigure(e)
    <3>1. \A e \in PrintedMetrics(x) : IsMetric(e)
      <4> SUFFICES ASSUME NEW a \in ledger[x], NEW y \in Suffixes(a[1])
                   PROVE  IsMetric([series |-> <<"", a[2], y>>, by |-> x[1]])
        BY DEF PrintedMetrics
      <4> QED
        BY DEF IsMetric
    <3>2. \A e \in PrintedFigures(x) : IsFigure(e)
      <4> SUFFICES ASSUME NEW g \in Figure
                   PROVE  IsFigure([series |-> <<x[1], g>>, by |-> x[1]])
        BY DEF PrintedFigures
      <4> QED
        BY OwnerIsWorker DEF IsFigure
    <3>3. printed' = printed \cup PrintedMetrics(x) \cup PrintedFigures(x)
      BY <1>6 DEF PrintLedger
    <3> QED
      BY <3>1, <3>2, <3>3 DEF IInv
  <2>3. OwnPrefix(x)' /\ HasFigures(x)' /\ OwnStrings(x)'
    BY <1>0, <2>1 DEF IInv, OwnPrefix, HasFigures, OwnStrings, Inside
  <2>4. ASSUME NEW v \in Flusher, v # x PROVE OwnPrefix(v)' /\ HasFigures(v)' /\ OwnStrings(v)'
    BY <2>1, <2>4, Others DEF IInv
  <2>5. "leave" \in Inside
    BY DEF Inside
  <2> QED
    BY <2>1, <2>2, <2>3, <2>4, <2>5 DEF IInv
<1>7. CASE Release(x)
  <2>1. /\ fpc[x] = "leave" /\ fpc' = [fpc EXCEPT ![x] = "idle"]
        /\ lmut' = NoFlusher
        /\ UNCHANGED <<guard, prefix_stats, strings, stored, printed>>
    BY <1>7 DEF Release, At
  <2>2. lmut = x
    BY <1>0, <2>1 DEF OwnPrefix, Inside
  <2>3. OwnPrefix(x)' /\ HasFigures(x)' /\ OwnStrings(x)'
    BY <1>0, <2>1 DEF IInv, OwnPrefix, HasFigures, OwnStrings, Inside
  <2>4. ASSUME NEW v \in Flusher, v # x PROVE OwnPrefix(v)' /\ HasFigures(v)' /\ OwnStrings(v)'
    BY <2>1, <2>2, <2>4, Others DEF IInv
  <2> QED
    BY <2>1, <2>3, <2>4 DEF IInv
<1> QED
  BY <1>1, <1>2, <1>3, <1>4, <1>5, <1>6, <1>7 DEF FlusherStep

LEMMA FlushStep == IInv /\ [FlushNext]_flushVars => IInv'
<1> SUFFICES ASSUME IInv, [FlushNext]_flushVars PROVE IInv'
  OBVIOUS
<1>1. CASE UNCHANGED container
  BY <1>1 DEF container, IInv, OwnPrefix, HasFigures, OwnStrings
<1> QED
  BY <1>1, SpawnKeeps, FlusherKeeps DEF FlushNext, flushVars

-----------------------------------------------------------------------------
(* The series of a metric is none of a thread's statistics. *)
LEMMA ThreeNotTwo == ASSUME NEW a, NEW b, NEW c, NEW d, NEW g PROVE <<a, b, c>> # <<d, g>>
<1>1. Len(<<a, b, c>>) = 3 /\ Len(<<d, g>>) = 2
  OBVIOUS
<1> QED
  BY <1>1

(* The statistics under thread_<id> are those of worker <id>, on carbon and *)
(* on standard output, and a flusher does not leave carbon without them:    *)
(* prefix_stats (carbon.cc:42) is only safe because BackendContainer::flush *)
(* lets one flusher in at a time (backend_container.h:67).                  *)
THEOREM FiguresStayApart == FlushSpec => []FiguresBelongToThread
<1>1. IInv => FiguresBelongToThread
  <2> SUFFICES ASSUME IInv, NEW x \in Flusher, NEW g \in Figure
               PROVE  /\ \A e \in stored : e.series = <<x[1], g>> => e.by = x[1]
                      /\ \A e \in printed : e.series = <<x[1], g>> => e.by = x[1]
                      /\ fpc[x] \in {"print", "leave"} =>
                           \E e \in stored : e.series = <<x[1], g>> /\ e.by = x[1]
    BY DEF FiguresBelongToThread
  <2>1. ASSUME NEW e, IsMetric(e) \/ IsFigure(e), e.series = <<x[1], g>> PROVE e.by = x[1]
    <3>1. ~IsMetric(e)
      BY <2>1, ThreeNotTwo DEF IsMetric
    <3>2. PICK v \in Worker, h \in Figure : e.series = <<v, h>> /\ e.by = v
      BY <2>1, <3>1 DEF IsFigure
    <3>3. <<v, h>> = <<x[1], g>>
      BY <2>1, <3>2
    <3> QED
      BY <3>2, <3>3
  <2>2. HasFigures(x)
    BY DEF IInv
  <2> QED
    BY <2>1, <2>2 DEF HasFigures, IInv
<1> QED
  BY <1>1, FlushInitial, FlushStep, PTL DEF FlushSpec
=============================================================================
