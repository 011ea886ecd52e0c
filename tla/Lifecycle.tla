------------------------------- MODULE Lifecycle -------------------------------
(***************************************************************************)
(* Start-up and shutdown of the aggregator process: main() creates the     *)
(* workers, the clock and the servers, each with a thread of its own;      *)
(* stop(), run by the signal handler or after a failed start, destroys     *)
(* them in the order http, udp, tcp, clock, workers and exits.             *)
(*                                                                         *)
(* A signal finds the main thread anywhere, in stop() too.  It is assumed  *)
(* to be the main thread that it finds: the code masks no signal in the    *)
(* others, where stop() would join its own thread.                         *)
(*                                                                         *)
(* Objects are numbered in the order stop() visits them.  A server that    *)
(* runs several equal threads is given one.                                *)
(***************************************************************************)
EXTENDS Naturals, Sequences

CONSTANTS
  NumWorkers,  \* config->workers
  Enabled      \* which of HTTP, UDP, TCP are configured

HTTP   == 1
UDP    == 2
TCP    == 3
CLOCK  == 4
W(i)   == CLOCK + i
Worker == {W(i) : i \in 1..NumWorkers}
NumObjects == CLOCK + NumWorkers
Object == 1..NumObjects

MainLabels == {"configure", "start", "register", "pause", "stop", "destroy"}

ASSUME LifecycleAssumption ==
  /\ NumWorkers \in Nat \ {0}
  /\ Enabled \subseteq {HTTP, UDP, TCP} /\ Enabled \cap {UDP, TCP} # {}

VARIABLES
  main,     \* [at, k, j]: where the main thread is
  ptr,      \* ptr[o]: the global pointer to o is not null
  done,     \* done[o]: the object's done flag
  gone,     \* gone[o]: members of o already destroyed
  thread,   \* thread[o]: where the thread of o is
  touch,    \* touch[o]: the worker that thread is about to use, or 0
  flushers, \* flushers[o]: the flushers of worker o alive: the "current" one
            \* and the "previous" one, which the thread has still to join
  handled,  \* signals delivered so far
  caught,   \* history: objects a signal has torn from main()'s or stop()'s hands
  client,   \* a TCP client: "away", "sending" or "closed"
  status    \* "up", or how the process ended

vars == <<main, ptr, done, gone, thread, touch, flushers, handled, caught, client, status>>
signals == <<handled, caught>>

At(l, i, n) == [at |-> l, k |-> i, j |-> n]

(* Workers first, then the clock, then the servers. *)
StartOrder == [i \in 1..NumObjects |->
                 IF i <= NumWorkers THEN W(i)
                 ELSE CASE i = NumWorkers + 1 -> CLOCK
                        [] i = NumWorkers + 2 -> UDP
                        [] i = NumWorkers + 3 -> TCP
                        [] OTHER -> HTTP]
Wanted(o) == o \in Worker \cup {CLOCK} \cup Enabled

Init ==
  /\ main = At("configure", 0, 0)
  /\ ptr = [o \in Object |-> FALSE]
  /\ done = [o \in Object |-> FALSE]
  /\ gone = [o \in Object |-> {}]
  /\ thread = [o \in Object |-> "none"]
  /\ touch = [o \in Object |-> 0]
  /\ flushers = [o \in Object |-> {}]
  /\ handled = {} /\ caught = {}
  /\ client = "away"
  /\ status = "up"

Up == status = "up"

Exit(s) ==
  /\ status' = s
  /\ main' = At("exited", 0, 0)

-------------------------------------------------------------------------------
(* main() *)

\* configure() and the backends; on failure exit(1).
Configure ==
  /\ main.at = "configure"
  /\ \/ main' = At("start", 1, 0) /\ UNCHANGED status
     \/ Exit("1")
  /\ UNCHANGED <<ptr, done, gone, thread, touch, flushers, signals, client>>

\* The constructor of the next object starts its thread.
Construct ==
  LET o == StartOrder[main.k] IN
  /\ main.at = "start" /\ main.k <= NumObjects
  /\ IF Wanted(o)
     THEN /\ main' = At("register", main.k, 0)
          /\ thread' = [thread EXCEPT ![o] = IF o = UDP THEN "bind" ELSE "loop"]
     ELSE /\ main' = At("start", main.k + 1, 0)
          /\ UNCHANGED thread
  /\ UNCHANGED <<ptr, done, gone, touch, flushers, signals, client, status>>

\* The new object is stored in its global.
Register ==
  /\ main.at = "register"
  /\ ptr' = [ptr EXCEPT ![StartOrder[main.k]] = TRUE]
  /\ main' = At("start", main.k + 1, 0)
  /\ UNCHANGED <<done, gone, thread, touch, flushers, signals, client, status>>

\* A constructor throws: a worker's (whatever it is) and a std::string (tcp,
\* http) lead to stop(), and the exit(1) after it is never reached; no thread
\* for the clock, for udp or for tcp is not caught.
ConstructFails ==
  LET o == StartOrder[main.k] IN
  /\ main.at = "start" /\ main.k <= NumObjects /\ Wanted(o)
  /\ \/ /\ o \in Worker \cup {TCP, HTTP}
        /\ main' = At("stop", 1, 0) /\ UNCHANGED status
     \/ /\ o \in {CLOCK, UDP, TCP}
        /\ Exit("abort")
  /\ UNCHANGED <<ptr, done, gone, thread, touch, flushers, signals, client>>

Started ==
  /\ main.at = "start" /\ main.k > NumObjects
  /\ main' = At("pause", 0, 0)
  /\ UNCHANGED <<ptr, done, gone, thread, touch, flushers, signals, client, status>>

-------------------------------------------------------------------------------
(* stop() *)

\* Fault: the clock is reset after the workers.
ClockLast(k) == IF k < CLOCK THEN k
                ELSE IF k = NumObjects THEN CLOCK ELSE k + 1

\* The k-th object that stop() resets.
StopOrder(k) == k

\* reset() clears the pointer before it deletes; the destructor's body
\* sets done to flag.
ResetTo(flag) ==
  LET o == StopOrder(main.k) IN
  /\ main.at = "stop" /\ main.k <= NumObjects
  /\ IF ptr[o]
     THEN /\ ptr' = [ptr EXCEPT ![o] = FALSE]
          /\ done' = [done EXCEPT ![o] = flag]
          /\ main' = At("destroy", main.k, 1)
     ELSE /\ main' = At("stop", main.k + 1, 0)
          /\ UNCHANGED <<ptr, done>>
  /\ UNCHANGED <<gone, thread, touch, flushers, signals, client, status>>

\* Fault: the destructor only joins.
ResetNoDone == ResetTo(FALSE)

Reset == ResetTo(TRUE)

\* Non-trivial members, in the order the destructor destroys them (the
\* reverse of their declaration); "thread_guard" stands for the join.
Members(o) ==
  IF o \in Worker
  THEN <<"backend_container", "current_ledger", "work_queue", "thread_guard">>
  ELSE <<"thread_guard">>

\* Fault: the thread is not joined.
DestroyNoJoin ==
  LET o == StopOrder(main.k) IN
  /\ main.at = "destroy" /\ main.j <= Len(Members(o))
  /\ gone' = [gone EXCEPT ![o] = @ \cup {Members(o)[main.j]}]
  /\ main' = At("destroy", main.k, main.j + 1)
  /\ UNCHANGED <<ptr, done, thread, touch, flushers, signals, client, status>>

Destroy ==
  LET o == StopOrder(main.k) IN
  /\ main.at = "destroy" /\ main.j <= Len(Members(o))
  /\ Members(o)[main.j] = "thread_guard" => thread[o] = "stopped"
  /\ gone' = [gone EXCEPT ![o] = @ \cup {Members(o)[main.j]}]
  /\ main' = At("destroy", main.k, main.j + 1)
  /\ UNCHANGED <<ptr, done, thread, touch, flushers, signals, client, status>>

Destroyed ==
  /\ main.at = "destroy" /\ main.j > Len(Members(StopOrder(main.k)))
  /\ main' = At("stop", main.k + 1, 0)
  /\ UNCHANGED <<ptr, done, gone, thread, touch, flushers, signals, client, status>>

Stopped ==
  /\ main.at = "stop" /\ main.k > NumObjects
  /\ Exit("0")
  /\ UNCHANGED <<ptr, done, gone, thread, touch, flushers, signals, client>>

\* What the main thread works on: an object whose constructor has returned
\* and that is not in its global yet, or one whose pointer is cleared and
\* that is not destroyed yet.
InHand ==
  CASE main.at = "register" -> {StartOrder[main.k]}
    [] main.at = "destroy" /\ main.j <= Len(Members(StopOrder(main.k))) -> {StopOrder(main.k)}
    [] OTHER -> {}

\* The handler runs stop() on the main thread, on top of whatever it was
\* doing, another stop() included; stop() never returns.  A signal is
\* blocked in its own handler.
Signal(s) ==
  /\ Up /\ s \notin handled
  /\ handled' = handled \cup {s}
  /\ caught' = caught \cup InHand
  /\ main' = At("stop", 1, 0)
  /\ UNCHANGED <<ptr, done, gone, thread, touch, flushers, client, status>>

-------------------------------------------------------------------------------
(* The threads.  Go moves thread o to label l with worker w in its sights. *)

Go(o, l, w) ==
  /\ Up
  /\ thread' = [thread EXCEPT ![o] = l]
  /\ touch' = [touch EXCEPT ![o] = w]
  /\ UNCHANGED <<main, ptr, done, gone, flushers, signals, client, status>>

\* while (!done)
Loop(o, l) == thread[o] = "loop" /\ Go(o, IF done[o] THEN "stopped" ELSE l, 0)

\* Sleep, then interrupt the workers up to last one by one.
ClockLoop(last) ==
  \/ Loop(CLOCK, "sleep")
  \/ thread[CLOCK] = "sleep" /\ Go(CLOCK, "tick", W(1))
  \/ /\ thread[CLOCK] = "tick"
     /\ IF touch[CLOCK] = last THEN Go(CLOCK, "loop", 0)
                               ELSE Go(CLOCK, "tick", touch[CLOCK] + 1)

\* Fault: the loop runs past the last worker.
ClockPastEnd == ClockLoop(NumObjects + 1)

\* Clock::wait_interrupt
ClockThread == ClockLoop(NumObjects)

\* UDPServer::listen: bind may fail and recvfrom may fail for good.
UdpThread ==
  \/ thread[UDP] = "bind" /\ \E l \in {"loop", "stopped"} : Go(UDP, l, 0)
  \/ Loop(UDP, "recv")
  \/ /\ thread[UDP] = "recv"
     /\ \/ Go(UDP, "loop", 0) \/ Go(UDP, "stopped", 0)
        \/ \E w \in Worker : Go(UDP, "consume", w)
  \/ thread[UDP] = "consume" /\ Go(UDP, "loop", 0)

\* The MHD daemon: a request reads the counters of the workers.
HttpThread ==
  \/ Loop(HTTP, "select")
  \/ thread[HTTP] = "select" /\ (Go(HTTP, "loop", 0) \/ \E w \in Worker : Go(HTTP, "serve", w))
  \/ thread[HTTP] = "serve" /\ Go(HTTP, "loop", 0)

\* TCPServer::listen: readn blocks until the buffer is full or the peer has
\* closed; then the lines are consumed.
TcpThread ==
  \/ Loop(TCP, "select")
  \/ thread[TCP] = "select" /\ Go(TCP, IF client = "sending" THEN "read" ELSE "loop", 0)
  \/ /\ Up /\ thread[TCP] = "read" /\ client = "closed"
     /\ client' = "away"
     /\ \E w \in Worker : touch' = [touch EXCEPT ![TCP] = w]
     /\ thread' = [thread EXCEPT ![TCP] = "consume"]
     /\ UNCHANGED <<main, ptr, done, gone, flushers, signals, status>>
  \/ thread[TCP] = "consume" /\ Go(TCP, "loop", 0)

\* Worker::process: pop; on a flag start a flusher, then join the previous
\* one and renew the ledger; buffer.  At the end flusher_guard joins the
\* current one.
WorkerThread(o) ==
  \/ thread[o] = "loop" /\ Go(o, IF done[o] THEN "end" ELSE "pop", 0)
  \/ thread[o] = "pop" /\ \E l \in {"loop", "flush", "buffer"} : Go(o, l, 0)
  \/ /\ Up /\ thread[o] = "flush"
     /\ thread' = [thread EXCEPT ![o] = "join"]
     /\ flushers' = [flushers EXCEPT ![o] =
                      {"current"} \cup IF @ = {} THEN {} ELSE {"previous"}]
     /\ UNCHANGED <<main, ptr, done, gone, touch, signals, client, status>>
  \/ thread[o] = "join" /\ "previous" \notin flushers[o] /\ Go(o, "buffer", 0)
  \/ thread[o] = "buffer" /\ Go(o, "loop", 0)
  \/ thread[o] = "end" /\ flushers[o] = {} /\ Go(o, "stopped", 0)

\* BackendContainer::flush returns in a flusher of o (module Flush).
FlusherReturns(o) ==
  /\ Up
  /\ \E f \in flushers[o] : flushers' = [flushers EXCEPT ![o] = @ \ {f}]
  /\ UNCHANGED <<main, ptr, done, gone, thread, touch, signals, client, status>>

\* The members a worker thread uses in its next step.
Needs(o) == CASE thread[o] = "pop"    -> {"work_queue"}
              [] thread[o] = "flush"  -> {"current_ledger", "backend_container"}
              [] thread[o] \in {"join", "buffer"} -> {"current_ledger"}
              [] OTHER                -> {}

\* Using a destroyed member, or a null pointer to a worker, may end the
\* process.
Dangling(o) == \/ o \in Worker /\ Needs(o) \cap gone[o] # {}
               \/ touch[o] # 0 /\ ~ptr[touch[o]]
Crash(o) ==
  /\ Up /\ Dangling(o)
  /\ Exit("crash")
  /\ UNCHANGED <<ptr, done, gone, thread, touch, flushers, signals, client>>

ClientSends  == /\ Up /\ client = "away" /\ client' = "sending"
                /\ UNCHANGED <<main, ptr, done, gone, thread, touch, flushers, signals, status>>
ClientCloses == /\ Up /\ client = "sending" /\ client' = "closed"
                /\ UNCHANGED <<main, ptr, done, gone, thread, touch, flushers, signals, status>>

-------------------------------------------------------------------------------
MainStep == \/ Configure \/ Construct \/ Register \/ ConstructFails \/ Started
            \/ Reset \/ Destroy \/ Destroyed \/ Stopped
Threads  == \/ ClockThread \/ UdpThread \/ HttpThread \/ TcpThread
            \/ \E o \in Worker : WorkerThread(o)
Exited   == ~Up /\ UNCHANGED vars

Next == \/ MainStep
        \/ \E s \in {"SIGINT", "SIGTERM"} : Signal(s)
        \/ Threads
        \/ \E o \in Worker : FlusherReturns(o)
        \/ \E o \in Object : Crash(o)
        \/ TCP \in Enabled /\ (ClientSends \/ ClientCloses)
        \/ Exited

Spec == Init /\ [][Next]_vars

(* Every thread is scheduled; recvfrom and select return (they have a      *)
(* timeout).                                                               *)
Fairness == /\ WF_vars(MainStep)
            /\ WF_vars(ClockThread) /\ WF_vars(UdpThread)
            /\ WF_vars(HttpThread) /\ WF_vars(TcpThread)
            /\ \A o \in Worker : WF_vars(WorkerThread(o))

(* Assumptions on the outside, which the code does not see to.  The carbon *)
(* servers read what they are sent or break the connection, so that a      *)
(* flusher returns (::write has no timeout, and module Flush shows it      *)
(* returns then); a TCP client that is sending closes its connection.      *)
BackendsReturn == /\ Spec /\ Fairness
                  /\ \A o \in Worker : WF_vars(FlusherReturns(o))
PoliteClient   == BackendsReturn /\ WF_vars(ClientCloses)

-------------------------------------------------------------------------------
(* Properties *)

Labels == {"none", "bind", "loop", "sleep", "tick", "recv", "consume", "select",
           "serve", "read", "pop", "flush", "join", "buffer", "end", "stopped"}

TypeOK ==
  /\ main \in [at : MainLabels \cup {"exited"},
               k : 0..(NumObjects + 1), j : 0..5]
  /\ ptr \in [Object -> BOOLEAN] /\ done \in [Object -> BOOLEAN]
  /\ gone \in [Object -> SUBSET {"backend_container", "current_ledger",
                                 "work_queue", "thread_guard"}]
  /\ thread \in [Object -> Labels]
  /\ touch \in [Object -> {0} \cup Worker]
  /\ flushers \in [Object -> SUBSET {"current", "previous"}]
  /\ handled \subseteq {"SIGINT", "SIGTERM"}
  /\ caught \subseteq Object
  /\ client \in {"away", "sending", "closed"}
  /\ status \in {"up", "0", "1", "abort", "crash"}

(* aggregator.h:110: "clock should be stopped before destructing workers", *)
(* and so should the servers: no thread uses a worker that stop() has      *)
(* already reset, wherever signals arrive and however often stop() starts  *)
(* again.  The exceptions are users that a signal caught between their     *)
(* construction and the assignment of the pointer, or in their             *)
(* destruction: stop() does not see these and goes on to the workers.      *)
WorkersOutliveTheirUsers ==
  \A o \in Object \ caught : Up /\ touch[o] # 0 => ptr[touch[o]]

(* stop() "releases all resources" (aggregator.h:97): when the process     *)
(* exits with 0, every object that was ever constructed has been destroyed *)
(* and its thread joined, with the flushers of a worker, unless a signal   *)
(* caught it.                                                              *)
ExitStopsThreads ==
  status = "0" =>
    \A o \in Object :
      /\ ~ptr[o]
      /\ thread[o] # "none" /\ o \notin caught =>
           thread[o] = "stopped" /\ "thread_guard" \in gone[o] /\ flushers[o] = {}

(* aggregator.h:124 "release all resources on SIGINT, and SIGTERM": after  *)
(* a signal the process ends.  Under PoliteClient: a backend or a TCP      *)
(* client that keeps the thread waiting keeps stop() waiting.              *)
SignalEndsProcess == handled # {} ~> ~Up
================================================================================
