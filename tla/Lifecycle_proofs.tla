--------------------------- MODULE Lifecycle_proofs ---------------------------
(***************************************************************************)
(* Proofs about Lifecycle: for any number of workers, any configuration    *)
(* and signals at any place, stop() ends the users of the workers before   *)
(* the workers, and an exit with 0 leaves no thread behind, but for the    *)
(* objects a signal caught between two steps of main() or of stop().       *)
(*                                                                         *)
(* The inductive invariant Course says what each place of the main thread  *)
(* implies for the objects, and that each of them is caught, settled,      *)
(* still to be found by stop(), or in the main thread's hands.             *)
(***************************************************************************)
EXTENDS Lifecycle, TLAPS

Running(o) == thread[o] \notin {"none", "stopped"}
Joined(o)  == thread[o] = "stopped" /\ "thread_guard" \in gone[o]

(* stop() has nothing left to do for o, or it will find o.                 *)
Settled(o) == ~ptr[o] /\ (thread[o] = "none" \/ Joined(o))
Pending(o) == thread[o] # "none" => ptr[o]

(* When main() creates o: the inverse of StartOrder.                       *)
Place(o) == IF o > CLOCK THEN o - CLOCK
            ELSE IF o = CLOCK THEN NumWorkers + 1
            ELSE IF o = HTTP THEN NumObjects ELSE NumWorkers + o

WorkersReady == \A w \in Worker : ptr[w]

(* What the main thread is about to register or in the middle of           *)
(* destroying.                                                             *)
Working(o) ==
  \/ main.at = "register" /\ o = StartOrder[main.k]
  \/ main.at = "destroy" /\ o = main.k

(* What holds at each place of the main thread.                            *)
AtConfigure ==
  main.at = "configure" => \A o \in Object : thread[o] = "none" /\ ~ptr[o]
AtStart ==
  main.at \in {"start", "register"} =>
    /\ main.k >= 1
    /\ \A o \in Object : thread[o] # "none" => Place(o) <= main.k
    /\ \A o \in Object : ptr[o] => Place(o) < main.k
    /\ \A w \in Worker : Place(w) < main.k => ptr[w]
AtRegister == main.at = "register" => main.k <= NumObjects
AtPause == main.at = "pause" => WorkersReady
BeforeStop ==
  main.at \in {"configure", "start", "register", "pause"} => caught = {}
AtStop ==
  main.at \in {"stop", "destroy"} =>
    main.k >= 1 /\ \A o \in Object : o < main.k => ~ptr[o]
AtDestroy ==
  main.at = "destroy" =>
    /\ main.k <= NumObjects /\ main.j >= 1 /\ main.j <= Len(Members(main.k)) + 1
    /\ ~ptr[main.k]
    /\ main.j > Len(Members(main.k)) => Joined(main.k)

(* An object is lost only by a signal, and for good.                       *)
Kept ==
  Up => \A o \in Object : o \in caught \/ Settled(o) \/ Pending(o) \/ Working(o)
Lost == \A o \in caught : ~ptr[o]

(* A worker is used by the clock and the servers only, and these run only  *)
(* while every worker is there, unless a signal caught them.               *)
UsersRun ==
  \A o \in Object : touch[o] # 0 => o <= CLOCK /\ Running(o)
Ticking == thread[CLOCK] = "tick" => touch[CLOCK] # 0
WorkersThere ==
  Up => \A o \in Object \ caught : o <= CLOCK /\ Running(o) => WorkersReady
\* A worker's thread does not end before its flushers.
FlushersRun ==
  \A o \in Object : flushers[o] # {} => o > CLOCK /\ Running(o)
Ended == main.at = "exited" <=> ~Up

Course ==
  /\ TypeOK /\ Ended
  /\ AtConfigure /\ AtStart /\ AtRegister /\ AtPause /\ BeforeStop
  /\ AtStop /\ AtDestroy /\ Kept /\ Lost
  /\ UsersRun /\ Ticking /\ WorkersThere /\ FlushersRun /\ ExitStopsThreads

-------------------------------------------------------------------------------
(* Workers are numbered after the clock, and Place inverts StartOrder.     *)
LEMMA Order ==
  /\ NumWorkers \in Nat /\ NumWorkers >= 1 /\ NumObjects = 4 + NumWorkers
  /\ Worker = 5..NumObjects
  /\ \A o \in Object : Place(o) \in 1..NumObjects /\ (Place(o) <= NumWorkers <=> o > 4)
  /\ \A i \in 1..NumObjects :
       /\ StartOrder[i] \in Object
       /\ \A o \in Object : StartOrder[i] = o <=> Place(o) = i
<1>1. NumWorkers \in Nat /\ NumWorkers >= 1 /\ NumObjects = 4 + NumWorkers
  BY LifecycleAssumption DEF NumObjects, CLOCK
<1>2. Worker = 5..NumObjects
  <2>1. ASSUME NEW w \in Worker PROVE w \in 5..NumObjects
    BY <1>1 DEF Worker, W, CLOCK
  <2>2. ASSUME NEW w \in 5..NumObjects PROVE w \in Worker
    <3>1. w - 4 \in 1..NumWorkers /\ w = W(w - 4)
      BY <1>1 DEF W, CLOCK
    <3> QED BY <3>1 DEF Worker
  <2> QED BY <2>1, <2>2
<1>3. ASSUME NEW o \in Object
      PROVE  Place(o) \in 1..NumObjects /\ (Place(o) <= NumWorkers <=> o > 4)
  BY <1>1 DEF Object, Place, CLOCK, HTTP
<1>4. ASSUME NEW i \in 1..NumObjects
      PROVE  /\ StartOrder[i] \in Object
             /\ \A o \in Object : StartOrder[i] = o <=> Place(o) = i
  <2>1. StartOrder[i] = IF i <= NumWorkers THEN 4 + i
                        ELSE IF i = NumWorkers + 1 THEN 4
                        ELSE IF i = NumWorkers + 2 THEN 2
                        ELSE IF i = NumWorkers + 3 THEN 3 ELSE 1
    BY <1>1 DEF StartOrder, W, CLOCK, UDP, TCP, HTTP
  <2> QED BY <1>1, <2>1 DEF Object, Place, CLOCK, HTTP
<1> QED BY <1>1, <1>2, <1>3, <1>4

(* Whatever a thread does, only it moves: from a label at which it runs,   *)
(* and towards a worker only if it is the clock or a server.               *)
Move(o, l, x) ==
  /\ Running(o)
  /\ thread' = [thread EXCEPT ![o] = l]
  /\ touch' = [touch EXCEPT ![o] = x]
  /\ l \in Labels \ {"none"}
  /\ x # 0 => o <= CLOCK /\ x \in Worker /\ l # "stopped"
  /\ o = CLOCK /\ l = "tick" => x # 0

\* A worker's thread may start a flusher, and ends when it has none.
Flushers(o, l) ==
  \/ flushers' = flushers /\ (o <= CLOCK \/ l # "stopped" \/ flushers[o] = {})
  \/ /\ o > CLOCK /\ l # "stopped"
     /\ \E F \in SUBSET {"current", "previous"} : flushers' = [flushers EXCEPT ![o] = F]

LEMMA ThreadMoves ==
  ASSUME TypeOK, UsersRun, Ticking, Threads
  PROVE  /\ Up
         /\ \E o \in Object, l \in Labels, x \in {0} \cup Worker : Move(o, l, x) /\ Flushers(o, l)
         /\ UNCHANGED <<main, ptr, done, gone, handled, caught, status>>
         /\ client' \in {"away", "sending", "closed"}
<1> USE DEF CLOCK, UDP, HTTP, TCP, signals
<1>0. /\ 1 \in Object /\ 2 \in Object /\ 3 \in Object /\ 4 \in Object /\ 5 \in Worker
      /\ Worker \subseteq Object
      /\ \A w \in Worker : w > 4
      /\ \A w \in Worker : w # NumObjects => w + 1 \in Worker
  BY Order DEF Object
<1>1. CASE ClockThread
  <2> DEFINE Ahead == \E l \in {"sleep", "stopped", "tick", "loop"}, x \in {0} \cup Worker :
                        Go(4, l, x) /\ Running(4) /\ (x # 0 <=> l = "tick")
  <2>1. ASSUME Loop(4, "sleep") PROVE Ahead
    BY <2>1 DEF Loop, Running
  <2>2. ASSUME thread[4] = "sleep", Go(4, "tick", W(1)) PROVE Ahead
    <3>1. W(1) \in Worker /\ W(1) # 0
      BY <1>0 DEF W
    <3> QED BY <2>2, <3>1 DEF Running
  <2>3. ASSUME thread[4] = "tick", Go(4, "loop", 0) PROVE Ahead
    BY <2>3 DEF Running
  <2>4. ASSUME thread[4] = "tick", touch[4] # NumObjects, Go(4, "tick", touch[4] + 1)
        PROVE  Ahead
    <3>1. touch[4] + 1 \in Worker
      BY <1>0, <2>4 DEF TypeOK, Ticking
    <3>2. touch[4] + 1 # 0
      BY <1>0, <3>1
    <3>3. Running(4)
      BY <2>4 DEF Running
    <3> QED BY <2>4, <3>1, <3>2, <3>3
  <2>5. Ahead
    BY <1>1, <2>1, <2>2, <2>3, <2>4 DEF ClockThread, ClockLoop
  <2>6. PICK l \in {"sleep", "stopped", "tick", "loop"}, x \in {0} \cup Worker :
          Go(4, l, x) /\ Running(4) /\ (x # 0 <=> l = "tick")
    BY <2>5
  <2>7. Move(4, l, x) /\ Flushers(4, l) /\ l \in Labels
    BY <2>6, <1>0 DEF Go, Move, Labels, Flushers
  <2> QED BY <2>6, <2>7, <1>0 DEF Go, TypeOK
<1>2. CASE UdpThread
  <2>1. PICK l \in {"loop", "stopped", "recv", "consume"}, x \in {0} \cup Worker :
          Go(2, l, x) /\ Running(2) /\ (x # 0 => l = "consume")
    BY <1>0, <1>2 DEF UdpThread, Loop, Running
  <2>2. Move(2, l, x) /\ Flushers(2, l) /\ l \in Labels
    BY <2>1, <1>0 DEF Go, Move, Labels, Flushers
  <2> QED BY <2>1, <2>2, <1>0 DEF Go, TypeOK
<1>3. CASE HttpThread
  <2>1. PICK l \in {"loop", "stopped", "select", "serve"}, x \in {0} \cup Worker :
          Go(1, l, x) /\ Running(1) /\ (x # 0 => l = "serve")
    BY <1>0, <1>3 DEF HttpThread, Loop, Running
  <2>2. Move(1, l, x) /\ Flushers(1, l) /\ l \in Labels
    BY <2>1, <1>0 DEF Go, Move, Labels, Flushers
  <2> QED BY <2>1, <2>2, <1>0 DEF Go, TypeOK
<1>4. CASE TcpThread
  <2>1. CASE Up /\ thread[3] = "read"
    <3>1. /\ thread' = [thread EXCEPT ![3] = "consume"] /\ client' = "away"
          /\ UNCHANGED <<main, ptr, done, gone, flushers, handled, caught, status>>
          /\ \E w \in Worker : touch' = [touch EXCEPT ![3] = w]
      BY <1>4, <2>1 DEF TcpThread, Loop, Go
    <3>2. PICK w \in Worker : touch' = [touch EXCEPT ![3] = w]
      BY <3>1
    <3>3. Running(3)
      BY <2>1 DEF Running
    <3>4. "consume" \in Labels \ {"none"}
      BY DEF Labels
    <3>5. Move(3, "consume", w)
      <4>1. 3 <= CLOCK /\ 3 # CLOCK /\ "consume" # "stopped"
        OBVIOUS
      <4> QED BY <3>1, <3>2, <3>3, <3>4, <4>1, Zenon DEF Move
    <3>6. Flushers(3, "consume")
      BY <3>1 DEF Flushers
    <3>7. \E o \in Object, l \in Labels, x \in {0} \cup Worker : Move(o, l, x) /\ Flushers(o, l)
      BY <1>0, <3>2, <3>4, <3>5, <3>6
    <3> QED BY <2>1, <3>1, <3>7
  <2>2. CASE thread[3] # "read"
    <3>1. PICK l \in {"loop", "stopped", "select", "read"} : Go(3, l, 0) /\ Running(3)
      BY <1>0, <1>4, <2>2 DEF TcpThread, Loop, Running
    <3>2. Move(3, l, 0) /\ Flushers(3, l) /\ l \in Labels
      BY <3>1 DEF Go, Move, Labels, Flushers
    <3> QED BY <3>1, <3>2, <1>0 DEF Go, TypeOK
  <2> QED BY <1>4, <2>1, <2>2 DEF TcpThread, Loop, Go
<1>5. CASE \E o \in Worker : WorkerThread(o)
  <2> PICK o \in Worker : WorkerThread(o)
    BY <1>5
  <2>1. CASE thread[o] = "flush"
    <3>1. /\ Up /\ thread' = [thread EXCEPT ![o] = "join"]
          /\ flushers' = [flushers EXCEPT ![o] =
                           {"current"} \cup IF @ = {} THEN {} ELSE {"previous"}]
          /\ UNCHANGED <<main, ptr, done, gone, touch, handled, caught, client, status>>
      BY <2>1 DEF WorkerThread, Go
    <3> DEFINE F == {"current"} \cup IF flushers[o] = {} THEN {} ELSE {"previous"}
    <3>2. flushers' = [flushers EXCEPT ![o] = F]
      BY <3>1
    <3>3. F \in SUBSET {"current", "previous"}
      OBVIOUS
    <3> HIDE DEF F
    <3>4. Flushers(o, "join")
      BY <1>0, <3>2, <3>3 DEF Flushers
    <3>5. touch' = [touch EXCEPT ![o] = 0]
      <4>1. touch \in [Object -> {0} \cup Worker] /\ o \in Object /\ o > 4
        BY <1>0 DEF TypeOK
      <4>2. touch[o] = 0
        <5>1. touch[o] # 0 => o <= 4
          BY <4>1 DEF UsersRun
        <5>2. o \in Nat
          BY <4>1, Order DEF Object
        <5> QED BY <4>1, <5>1, <5>2
      <4> QED BY <4>1, <4>2, <3>1
    <3>6. Running(o)
      BY <2>1 DEF Running
    <3>7. Move(o, "join", 0) /\ "join" \in Labels
      BY <3>1, <3>5, <3>6 DEF Move, Labels
    <3>8. \E u \in Object, l \in Labels, x \in {0} \cup Worker : Move(u, l, x) /\ Flushers(u, l)
      BY <1>0, <3>4, <3>7
    <3> QED BY <3>1, <3>8 DEF TypeOK
  <2>2. CASE thread[o] # "flush"
    <3>1. PICK l \in {"loop", "stopped", "pop", "flush", "join", "buffer", "end"} :
            Go(o, l, 0) /\ Running(o) /\ (l = "stopped" => flushers[o] = {})
      BY <2>2 DEF WorkerThread, Running
    <3>2. Move(o, l, 0) /\ Flushers(o, l) /\ l \in Labels
      BY <3>1 DEF Go, Move, Labels, Flushers
    <3> QED BY <3>1, <3>2, <1>0 DEF Go, TypeOK
  <2> QED BY <2>1, <2>2
<1> QED BY <1>1, <1>2, <1>3, <1>4, <1>5 DEF Threads

LEMMA WorkersFirst ==
  /\ \A w \in Worker : w \in Object /\ Place(w) \in Nat /\ Place(w) <= NumWorkers
  /\ \A o \in Object : o \notin Worker <=> o <= CLOCK
  /\ \A o \in Object : o <= CLOCK => Place(o) > NumWorkers
<1>1. \A o \in Object : o \in Worker <=> o > 4
  BY Order DEF Object
<1>2. \A w \in Worker : w \in Object
  BY Order DEF Object
<1> QED BY Order, <1>1, <1>2 DEF Object, CLOCK

LEMMA CourseInit == Init => Course
<1> SUFFICES ASSUME Init PROVE Course
  OBVIOUS
<1>1. TypeOK
  BY Order DEF Init, TypeOK, At, Up, Labels, MainLabels
<1>2. Ended /\ AtConfigure /\ AtStart /\ AtRegister /\ AtPause
  BY DEF Init, At, Up, Ended, AtConfigure, AtStart, AtRegister, AtPause
<1>3. BeforeStop /\ AtStop /\ AtDestroy /\ Kept /\ Lost
  BY DEF Init, At, BeforeStop, AtStop, AtDestroy, Kept, Pending, Lost
<1>4. UsersRun /\ WorkersThere /\ FlushersRun /\ ExitStopsThreads
  BY DEF Init, UsersRun, WorkersThere, FlushersRun, Running, ExitStopsThreads
<1>5. Ticking
  BY Order DEF Init, Ticking, Object, CLOCK
<1> QED BY <1>1, <1>2, <1>3, <1>4, <1>5 DEF Course

\* Most steps of the main thread leave the threads where they are.
LEMMA UsersStay ==
  ASSUME Course, UNCHANGED <<thread, touch, flushers>>
  PROVE  UsersRun' /\ Ticking' /\ FlushersRun'
BY DEF Course, UsersRun, Ticking, FlushersRun, Running

-------------------------------------------------------------------------------
(* main()                                                                  *)

LEMMA ConfigureCourse == Course /\ Configure => Course'
<1> SUFFICES ASSUME Course, Configure PROVE Course'
  OBVIOUS
<1> USE DEF Configure, signals
<1>1. TypeOK'
  BY Order DEF Course, TypeOK, At, Exit, MainLabels
<1>2. Ended' /\ AtConfigure' /\ AtRegister' /\ AtPause'
  BY DEF Course, Ended, AtConfigure, AtRegister, AtPause, At, Exit, Up
<1>3. AtStart'
  <2>1. \A w \in Worker : Place(w) >= 1
    BY Order, WorkersFirst
  <2> QED BY <2>1, WorkersFirst DEF Course, AtConfigure, AtStart, At, Exit
<1>4. BeforeStop' /\ AtStop' /\ AtDestroy' /\ Kept' /\ Lost'
  BY DEF Course, BeforeStop, AtConfigure, AtStop, AtDestroy, Kept, Pending, Lost, At, Exit
<1>5. WorkersThere' /\ ExitStopsThreads'
  BY DEF Course, AtConfigure, WorkersThere, Running, ExitStopsThreads, At, Exit, Up, Ended
<1> QED BY <1>1, <1>2, <1>3, <1>4, <1>5, UsersStay DEF Course

LEMMA ConstructCourse == Course /\ Construct => Course'
<1> SUFFICES ASSUME Course, Construct PROVE Course'
  OBVIOUS
<1> USE DEF signals
<1>0. PICK o \in Object :
      main.k \in 1..NumObjects /\ o = StartOrder[main.k] /\ Place(o) = main.k /\ main.at = "start"
  BY Order DEF Course, Construct, TypeOK, AtStart
<1>1. TypeOK'
  BY Order, <1>0 DEF Course, Construct, TypeOK, At, MainLabels, Labels
<1>2. CASE Wanted(o)
  <2>1. /\ main' = At("register", main.k, 0)
        /\ \E l \in {"bind", "loop"} : thread' = [thread EXCEPT ![o] = l]
        /\ UNCHANGED <<ptr, done, gone, touch, flushers, handled, caught, client, status>>
    BY <1>0, <1>2 DEF Construct
  <2>2. Ended' /\ AtConfigure' /\ AtStart' /\ AtRegister' /\ AtPause'
    BY Order, <1>0, <2>1 DEF Course, Ended, AtConfigure, AtStart, AtRegister, AtPause,
                             At, Up, TypeOK
  <2>3. BeforeStop' /\ AtStop' /\ AtDestroy' /\ Lost'
    BY <1>0, <2>1 DEF Course, BeforeStop, AtStop, AtDestroy, Lost, At
  <2>4. Kept'
    <3>1. \A u \in Object : u # o => thread'[u] = thread[u]
      BY <1>0, <2>1 DEF Course, TypeOK
    <3>2. main'.at = "register" /\ main'.k = main.k
      BY <2>1 DEF At
    <3>3. Working(o)'
      BY <1>0, <3>2 DEF Working
    <3>4. ASSUME NEW u \in Object, u # o, Up
          PROVE  u \in caught' \/ Settled(u)' \/ Pending(u)'
      BY <1>0, <2>1, <3>1, <3>4 DEF Course, Kept, Settled, Joined, Pending, Working
    <3> QED BY <2>1, <3>3, <3>4 DEF Kept, Up
  <2>5. UsersRun' /\ Ticking' /\ FlushersRun' /\ ExitStopsThreads'
    BY <1>0, <2>1 DEF Course, UsersRun, Ticking, FlushersRun, Running, ExitStopsThreads,
                      Ended, Up, TypeOK
  <2>6. WorkersThere'
    <3>1. o <= CLOCK => WorkersReady
      BY Order, WorkersFirst, <1>0 DEF Course, AtStart, WorkersReady
    <3> QED BY <1>0, <2>1, <3>1 DEF Course, WorkersThere, Running, WorkersReady, Up, TypeOK
  <2> QED BY <1>1, <2>2, <2>3, <2>4, <2>5, <2>6 DEF Course
<1>3. CASE ~Wanted(o)
  <2>1. /\ main' = At("start", main.k + 1, 0) /\ o \notin Worker
        /\ UNCHANGED <<ptr, done, gone, thread, touch, flushers, handled, caught, client, status>>
    BY <1>0, <1>3 DEF Construct, Wanted
  <2>2. Ended' /\ AtConfigure' /\ AtRegister' /\ AtPause' /\ AtStop' /\ AtDestroy'
    BY <1>0, <2>1 DEF Course, Ended, AtConfigure, AtRegister, AtPause, AtStop, AtDestroy,
                      At, Up
  <2>3. AtStart'
    <3>1. \A w \in Worker : Place(w) # main.k
      BY <1>0, <2>1, Order, WorkersFirst
    <3> QED BY <1>0, <2>1, <3>1, Order, WorkersFirst DEF Course, AtStart, At
  <2>4. BeforeStop' /\ Lost' /\ WorkersThere' /\ ExitStopsThreads'
    BY <1>0, <2>1 DEF Course, BeforeStop, Lost, WorkersThere, WorkersReady, Running,
                      ExitStopsThreads, At, Up
  <2>5. Kept'
    BY <1>0, <2>1 DEF Course, Kept, Settled, Joined, Pending, Working, Up
  <2> QED BY <1>1, <2>1, <2>2, <2>3, <2>4, <2>5, UsersStay DEF Course
<1> QED BY <1>2, <1>3

LEMMA RegisterCourse == Course /\ Register => Course'
<1> SUFFICES ASSUME Course, Register PROVE Course'
  OBVIOUS
<1>0. PICK o \in Object :
      main.k \in 1..NumObjects /\ o = StartOrder[main.k] /\ Place(o) = main.k /\ main.at = "register"
  BY Order DEF Course, Register, TypeOK, AtStart, AtRegister
<1>1. /\ main' = At("start", main.k + 1, 0) /\ ptr' = [ptr EXCEPT ![o] = TRUE]
      /\ UNCHANGED <<done, gone, thread, touch, flushers, handled, caught, client, status>>
  BY <1>0 DEF Register, signals
<1>2. TypeOK'
  BY Order, <1>0, <1>1 DEF Course, TypeOK, At, MainLabels
<1>3. Ended' /\ AtConfigure' /\ AtRegister' /\ AtPause' /\ AtStop' /\ AtDestroy'
  BY <1>0, <1>1 DEF Course, Ended, AtConfigure, AtRegister, AtPause, AtStop, AtDestroy,
                    At, Up
<1>4. \A w \in Object : ptr'[w] <=> (ptr[w] \/ w = o)
  BY <1>0, <1>1 DEF Course, TypeOK
<1>5. AtStart'
  <2>1. \A w \in Worker : Place(w) = main.k => w = o
    BY <1>0, Order, WorkersFirst
  <2> QED BY <1>0, <1>1, <1>4, <2>1, Order, WorkersFirst DEF Course, AtStart, At
<1>6. BeforeStop' /\ Lost'
  BY <1>0, <1>1 DEF Course, BeforeStop, Lost, At
<1>7. Kept'
  <2>1. ASSUME NEW u \in Object, u # o, Up
        PROVE  u \in caught' \/ Settled(u)' \/ Pending(u)'
    BY <1>0, <1>1, <1>4, <2>1 DEF Course, Kept, Settled, Joined, Pending, Working
  <2>2. Pending(o)'
    BY <1>0, <1>4 DEF Pending
  <2> QED BY <1>1, <2>1, <2>2 DEF Kept, Up
<1>8. WorkersThere' /\ ExitStopsThreads'
  BY <1>0, <1>1, <1>4, WorkersFirst DEF Course, WorkersThere, WorkersReady, Running,
       ExitStopsThreads, Ended, Up
<1> QED BY <1>1, <1>2, <1>3, <1>5, <1>6, <1>7, <1>8, UsersStay DEF Course

LEMMA StartedCourse == Course /\ Started => Course'
<1> SUFFICES ASSUME Course, Started PROVE Course'
  OBVIOUS
<1>0. main.at = "start" /\ main.k \in Nat /\ main.k > NumObjects
  BY Order DEF Course, Started, TypeOK
<1>1. /\ main' = At("pause", 0, 0)
      /\ UNCHANGED <<ptr, done, gone, thread, touch, flushers, handled, caught, client, status>>
  BY DEF Started, signals
<1>2. TypeOK'
  BY Order, <1>1 DEF Course, TypeOK, At, MainLabels
<1>3. Ended' /\ AtConfigure' /\ AtStart' /\ AtRegister' /\ AtStop' /\ AtDestroy'
  BY <1>0, <1>1 DEF Course, Ended, AtConfigure, AtStart, AtRegister, AtStop, AtDestroy, At, Up
<1>4. AtPause'
  BY <1>0, <1>1, Order, WorkersFirst DEF Course, AtStart, AtPause, WorkersReady, At
<1>5. BeforeStop' /\ Lost' /\ WorkersThere' /\ ExitStopsThreads'
  BY <1>0, <1>1 DEF Course, BeforeStop, Lost, WorkersThere, WorkersReady, Running,
                    ExitStopsThreads, At, Up
<1>6. Kept'
  BY <1>0, <1>1 DEF Course, Kept, Settled, Joined, Pending, Working, Up
<1> QED BY <1>1, <1>2, <1>3, <1>4, <1>5, <1>6, UsersStay DEF Course

-------------------------------------------------------------------------------
(* Into stop(): a constructor that throws, or a signal, at any place of    *)
(* the main thread.                                                        *)

LEMMA Hand ==
  ASSUME Course, Up
  PROVE  /\ InHand \subseteq Object
         /\ \A o \in InHand : ~ptr[o]
         /\ \A o \in Object : Working(o) => o \in InHand \/ Settled(o)
<1>1. CASE main.at = "register"
  <2>1. InHand = {StartOrder[main.k]}
    BY <1>1 DEF InHand
  <2>2. /\ main.k \in 1..NumObjects /\ StartOrder[main.k] \in Object
        /\ Place(StartOrder[main.k]) = main.k
    BY <1>1, Order DEF Course, TypeOK, AtStart, AtRegister
  <2>3. ~ptr[StartOrder[main.k]]
    BY <1>1, <2>2 DEF Course, AtStart
  <2> QED BY <1>1, <2>1, <2>2, <2>3 DEF Working
<1>2. CASE main.at = "destroy"
  <2>1. main.k \in Object /\ ~ptr[main.k]
    BY <1>2, Order DEF Course, TypeOK, AtStop, AtDestroy, Object
  <2>2. main.j \in Nat /\ Len(Members(main.k)) \in Nat
    BY DEF Course, TypeOK, Members
  <2>3. CASE main.j <= Len(Members(main.k))
    <3>1. InHand = {main.k}
      BY <1>2, <2>3 DEF InHand, StopOrder
    <3> QED BY <1>2, <2>1, <3>1 DEF Working
  <2>4. CASE ~(main.j <= Len(Members(main.k)))
    <3>1. InHand = {}
      BY <1>2, <2>4 DEF InHand, StopOrder
    <3>2. Settled(main.k)
      BY <1>2, <2>1, <2>2, <2>4 DEF Course, AtDestroy, Settled
    <3> QED BY <1>2, <3>1, <3>2 DEF Working
  <2> QED BY <2>3, <2>4
<1>3. CASE main.at \notin {"register", "destroy"}
  <2>1. InHand = {}
    BY <1>3 DEF InHand
  <2> QED BY <1>3, <2>1 DEF Working
<1> QED BY <1>1, <1>2, <1>3

LEMMA StopCourse ==
  ASSUME Course, Up, main' = At("stop", 1, 0),
         caught' = caught \cup InHand,
         handled' \subseteq {"SIGINT", "SIGTERM"},
         UNCHANGED <<ptr, done, gone, thread, touch, flushers, client, status>>
  PROVE  Course'
<1>1. TypeOK'
  <2>1. caught' \subseteq Object
    BY Hand DEF Course, TypeOK
  <2> QED BY <2>1, Order DEF Course, TypeOK, At, MainLabels
<1>2. Ended' /\ AtConfigure' /\ AtStart' /\ AtRegister' /\ AtPause' /\ AtDestroy' /\ BeforeStop'
  BY DEF Course, Ended, AtConfigure, AtStart, AtRegister, AtPause, AtDestroy, BeforeStop,
         At, Up
<1>3. AtStop'
  <2>1. \A o \in Object : ~(o < 1)
    BY DEF Object
  <2> QED BY <2>1 DEF AtStop, At
<1>4. Kept'
  <2>1. \A o \in Object : o \in caught' \/ Settled(o) \/ Pending(o)
    BY Hand DEF Course, Kept
  <2> QED BY <2>1 DEF Kept, Settled, Joined, Pending
<1>5. Lost'
  BY Hand DEF Course, Lost
<1>6. WorkersThere' /\ ExitStopsThreads'
  BY DEF Course, WorkersThere, WorkersReady, Running, ExitStopsThreads, Up
<1> QED BY <1>1, <1>2, <1>3, <1>4, <1>5, <1>6, UsersStay DEF Course

(* Out of the process: with another status than 0.                         *)
LEMMA FailureCourse ==
  ASSUME Course, NEW s \in {"1", "abort", "crash"}, Exit(s),
         UNCHANGED <<ptr, done, gone, thread, touch, flushers, handled, caught, client>>
  PROVE  Course'
<1>1. TypeOK'
  BY Order DEF Course, TypeOK, At, Exit
<1>2. Ended' /\ AtConfigure' /\ AtStart' /\ AtRegister' /\ AtPause'
  BY DEF Ended, AtConfigure, AtStart, AtRegister, AtPause, At, Exit, Up
<1>3. BeforeStop' /\ AtStop' /\ AtDestroy' /\ Kept' /\ Lost'
  BY DEF Course, BeforeStop, AtStop, AtDestroy, Kept, Lost, At, Exit, Up
<1>4. WorkersThere' /\ ExitStopsThreads'
  BY DEF Course, WorkersThere, ExitStopsThreads, Exit, Up
<1> QED BY <1>1, <1>2, <1>3, <1>4, UsersStay DEF Course

LEMMA ConstructFailsCourse == Course /\ ConstructFails => Course'
<1> SUFFICES ASSUME Course, ConstructFails PROVE Course'
  OBVIOUS
<1>0. main.at = "start" /\ UNCHANGED <<ptr, done, gone, thread, touch, flushers, handled, caught, client>>
  BY DEF ConstructFails, signals
<1>1. CASE main' = At("stop", 1, 0) /\ UNCHANGED status
  <2>1. InHand = {} /\ Up
    BY <1>0 DEF InHand, Course, Ended
  <2> QED BY <1>0, <1>1, <2>1, StopCourse DEF Course, TypeOK
<1>2. CASE Exit("abort")
  BY <1>0, <1>2, FailureCourse
<1> QED BY <1>1, <1>2 DEF ConstructFails

LEMMA SignalCourse ==
  ASSUME NEW s \in {"SIGINT", "SIGTERM"}, Course, Signal(s)
  PROVE  Course'
<1>1. handled' \subseteq {"SIGINT", "SIGTERM"}
  BY DEF Course, TypeOK, Signal
<1> QED BY <1>1, StopCourse DEF Signal

-------------------------------------------------------------------------------
(* stop()                                                                  *)

LEMMA ResetCourse == Course /\ Reset => Course'
<1> SUFFICES ASSUME Course, Reset PROVE Course'
  OBVIOUS
<1>0. PICK o \in Object :
      main.k = o /\ main.at = "stop" /\ o \in Nat /\ o >= 1 /\ o <= NumObjects
  BY Order DEF Course, Reset, ResetTo, TypeOK, AtStop, Object
<1>1. CASE ptr[o]
  <2>1. /\ main' = At("destroy", o, 1)
        /\ ptr' = [ptr EXCEPT ![o] = FALSE] /\ done' = [done EXCEPT ![o] = TRUE]
        /\ UNCHANGED <<gone, thread, touch, flushers, handled, caught, client, status>>
    BY <1>0, <1>1 DEF Reset, ResetTo, StopOrder, signals
  <2>2. TypeOK'
    BY Order, <1>0, <2>1 DEF Course, TypeOK, At, MainLabels
  <2>3. Ended' /\ AtConfigure' /\ AtStart' /\ AtRegister' /\ AtPause' /\ BeforeStop'
    BY <1>0, <2>1 DEF Course, Ended, AtConfigure, AtStart, AtRegister, AtPause, BeforeStop,
                      At, Up
  <2>4. /\ main'.k = o /\ main'.at = "destroy" /\ main'.j = 1
        /\ \A u \in Object : u # o => ptr'[u] = ptr[u]
        /\ ~ptr'[o]
    BY <2>1 DEF Course, TypeOK, At
  <2>5. AtStop' /\ Lost'
    BY <1>0, <2>1, <2>4 DEF Course, TypeOK, AtStop, Lost, Object
  <2>6. AtDestroy'
    <3> DEFINE n == Len(Members(o))
    <3>3. n \in 1..4
      BY DEF Members
    <3> HIDE DEF n
    <3>4. 1 <= n + 1 /\ ~(1 > n) /\ o <= NumObjects
      BY <3>3, <1>0
    <3> USE DEF n
    <3> QED BY <2>4, <3>4 DEF AtDestroy
  <2>7. Kept'
    <3>1. Working(o)'
      BY <2>4 DEF Working
    <3>2. ASSUME NEW u \in Object, u # o, Up
          PROVE  u \in caught' \/ Settled(u)' \/ Pending(u)'
      BY <1>0, <2>1, <2>4, <3>2 DEF Course, Kept, Settled, Joined, Pending, Working
    <3> QED BY <2>1, <3>1, <3>2 DEF Kept, Up
  <2>8. ExitStopsThreads'
    BY <1>0, <2>1 DEF Course, ExitStopsThreads, Ended, Up
  <2>9. WorkersThere'
    <3>1. CASE o <= CLOCK
      <4>1. \A w \in Worker : ptr'[w] = ptr[w]
        BY WorkersFirst, <1>0, <2>1, <3>1 DEF Course, TypeOK
      <4> QED BY <1>0, <2>1, <4>1 DEF Course, WorkersThere, WorkersReady, Running, Up
    <3>2. CASE o > CLOCK
      \* The clock and the servers come first: they are caught or ended.
      <4>1. \A u \in Object : u <= CLOCK => u < main.k
        BY <1>0, <3>2 DEF CLOCK, Object
      <4>2. \A u \in Object \ caught : u <= CLOCK => ~ptr[u] /\ (Settled(u) \/ Pending(u))
        BY <1>0, <4>1 DEF Course, AtStop, Kept, Working, Ended
      <4>3. \A u \in Object \ caught : u <= CLOCK => ~Running(u)
        BY <4>2 DEF Settled, Pending, Joined, Running
      <4> QED BY <2>1, <4>3 DEF WorkersThere, Running
    <3> QED BY <1>0, <3>1, <3>2 DEF CLOCK
  <2> QED BY <2>1, <2>2, <2>3, <2>5, <2>6, <2>7, <2>8, <2>9, UsersStay DEF Course
<1>2. CASE ~ptr[o]
  <2>1. /\ main' = At("stop", o + 1, 0)
        /\ UNCHANGED <<ptr, done, gone, thread, touch, flushers, handled, caught, client, status>>
    BY <1>0, <1>2 DEF Reset, ResetTo, StopOrder, signals
  <2>2. TypeOK'
    BY Order, <1>0, <2>1 DEF Course, TypeOK, At, MainLabels
  <2>3. Ended' /\ AtConfigure' /\ AtStart' /\ AtRegister' /\ AtPause' /\ BeforeStop' /\ AtDestroy'
    BY <1>0, <2>1 DEF Course, Ended, AtConfigure, AtStart, AtRegister, AtPause, BeforeStop,
                      AtDestroy, At, Up
  <2>4. AtStop'
    <3>1. main'.k = o + 1 /\ o + 1 >= 1
      BY <1>0, <2>1 DEF At
    <3>2. \A u \in Object : u < o + 1 => u < o \/ u = o
      BY <1>0 DEF Object
    <3> QED BY <1>0, <1>2, <2>1, <3>1, <3>2 DEF Course, AtStop
  <2>5. Kept'
    BY <1>0, <2>1 DEF Course, Kept, Settled, Joined, Pending, Working, Up
  <2>6. Lost' /\ WorkersThere' /\ ExitStopsThreads'
    BY <2>1 DEF Course, Lost, WorkersThere, WorkersReady, Running, ExitStopsThreads, Up
  <2> QED BY <2>1, <2>2, <2>3, <2>4, <2>5, <2>6, UsersStay DEF Course
<1> QED BY <1>1, <1>2

LEMMA DestroyCourse == Course /\ Destroy => Course'
<1> SUFFICES ASSUME Course, Destroy PROVE Course'
  OBVIOUS
<1>0. PICK o \in Object :
      /\ main.k = o /\ main.at = "destroy" /\ main.j \in 1..Len(Members(o))
      /\ Len(Members(o)) \in 1..4
  <2>1. main.at = "destroy" /\ main.k \in Object
    BY Order DEF Course, Destroy, TypeOK, AtStop, AtDestroy, Object
  <2>2. Len(Members(main.k)) \in 1..4
    BY DEF Members
  <2> QED BY <2>1, <2>2 DEF Course, Destroy, TypeOK, AtDestroy, StopOrder
<1> DEFINE m == Members(o)[main.j]
<1>1. /\ main' = At("destroy", o, main.j + 1)
      /\ gone' = [gone EXCEPT ![o] = @ \cup {m}]
      /\ m = "thread_guard" => thread[o] = "stopped"
      /\ UNCHANGED <<ptr, done, thread, touch, flushers, handled, caught, client, status>>
  BY <1>0 DEF Destroy, StopOrder, signals
<1>2. /\ m \in {"backend_container", "current_ledger", "work_queue", "thread_guard"}
      /\ main.j = Len(Members(o)) => m = "thread_guard"
  BY <1>0 DEF Members
<1>3. TypeOK'
  BY Order, <1>0, <1>1, <1>2 DEF Course, TypeOK, At, MainLabels
<1>4. Ended' /\ AtConfigure' /\ AtStart' /\ AtRegister' /\ AtPause' /\ BeforeStop'
  BY <1>0, <1>1 DEF Course, Ended, AtConfigure, AtStart, AtRegister, AtPause, BeforeStop,
                    At, Up
<1>5. \A u \in Object : Joined(u) => Joined(u)'
  BY <1>0, <1>1 DEF Course, TypeOK, Joined
<1>6. main.j = Len(Members(o)) => Joined(o)'
  BY <1>0, <1>1, <1>2 DEF Course, TypeOK, Joined
<1>7. main'.k = o /\ main'.j = main.j + 1 /\ main.j \in Nat /\ main'.at = "destroy"
  BY <1>0, <1>1 DEF At
<1>8. AtStop' /\ Lost'
  BY <1>0, <1>1, <1>7 DEF Course, AtStop, Lost
<1>9. AtDestroy'
  BY <1>0, <1>1, <1>6, <1>7 DEF Course, AtDestroy
<1>10. Kept'
  BY <1>0, <1>1, <1>5, <1>7 DEF Course, Kept, Settled, Pending, Working, Up
<1>11. WorkersThere' /\ ExitStopsThreads'
  BY <1>0, <1>1 DEF Course, WorkersThere, WorkersReady, Running, ExitStopsThreads, Ended, Up
<1> QED BY <1>1, <1>3, <1>4, <1>8, <1>9, <1>10, <1>11, UsersStay DEF Course

LEMMA DestroyedCourse == Course /\ Destroyed => Course'
<1> SUFFICES ASSUME Course, Destroyed PROVE Course'
  OBVIOUS
<1>0. PICK o \in Object :
      /\ main.k = o /\ main.at = "destroy" /\ o \in 1..NumObjects /\ ~ptr[o] /\ Joined(o)
  BY Order DEF Course, Destroyed, TypeOK, AtStop, AtDestroy, Object, StopOrder
<1>1. /\ main' = At("stop", o + 1, 0)
      /\ UNCHANGED <<ptr, done, gone, thread, touch, flushers, handled, caught, client, status>>
  BY <1>0 DEF Destroyed, signals
<1>2. TypeOK'
  <2>1. o + 1 \in 0..(NumObjects + 1)
    BY <1>0, Order
  <2> QED BY <1>1, <2>1 DEF Course, TypeOK, At, MainLabels
<1>3. Ended' /\ AtConfigure' /\ AtStart' /\ AtRegister' /\ AtPause' /\ BeforeStop' /\ AtDestroy'
  BY <1>0, <1>1 DEF Course, Ended, AtConfigure, AtStart, AtRegister, AtPause, BeforeStop,
                    AtDestroy, At, Up
<1>4. AtStop'
  BY Order, <1>0, <1>1 DEF Course, AtStop, At, Object
<1>5. Kept'
  BY <1>0, <1>1 DEF Course, Kept, Settled, Joined, Pending, Working, Up
<1>6. Lost' /\ WorkersThere' /\ ExitStopsThreads'
  BY <1>1 DEF Course, Lost, WorkersThere, WorkersReady, Running, ExitStopsThreads, Up
<1> QED BY <1>1, <1>2, <1>3, <1>4, <1>5, <1>6, UsersStay DEF Course

LEMMA StoppedCourse == Course /\ Stopped => Course'
<1> SUFFICES ASSUME Course, Stopped PROVE Course'
  OBVIOUS
<1>0. main.at = "stop" /\ Up /\ \A o \in Object : o < main.k
  BY Order DEF Course, Stopped, TypeOK, Object, Ended
<1>1. Exit("0") /\ UNCHANGED <<ptr, done, gone, thread, touch, flushers, handled, caught, client>>
  BY DEF Stopped, signals
<1>2. TypeOK'
  BY Order, <1>1 DEF Course, TypeOK, At, Exit
<1>3. Ended' /\ AtConfigure' /\ AtStart' /\ AtRegister' /\ AtPause'
  BY <1>1 DEF Ended, AtConfigure, AtStart, AtRegister, AtPause, At, Exit, Up
<1>4. BeforeStop' /\ AtStop' /\ AtDestroy' /\ Kept' /\ Lost'
  BY <1>1 DEF Course, BeforeStop, AtStop, AtDestroy, Kept, Lost, At, Exit, Up
<1>5. WorkersThere'
  BY <1>1 DEF WorkersThere, Exit, Up
<1>6. ExitStopsThreads'
  <2>1. \A o \in Object : ~ptr[o] /\ (o \notin caught => Settled(o) \/ Pending(o))
    BY <1>0 DEF Course, AtStop, Kept, Working
  <2>2. ASSUME NEW o \in Object, thread[o] # "none", o \notin caught
        PROVE  Joined(o) /\ flushers[o] = {}
    <3>1. Joined(o)
      BY <2>1, <2>2 DEF Settled, Pending
    <3> QED BY <3>1 DEF Course, FlushersRun, Running, Joined
  <2> QED BY <1>1, <2>1, <2>2 DEF ExitStopsThreads, Joined
<1> QED BY <1>1, <1>2, <1>3, <1>4, <1>5, <1>6, UsersStay DEF Course

-------------------------------------------------------------------------------
(* The threads, the flushers and the client                                *)

LEMMA ThreadsCourse == Course /\ Threads => Course'
<1> SUFFICES ASSUME Course, Threads PROVE Course'
  OBVIOUS
<1>0. /\ Up
      /\ UNCHANGED <<main, ptr, done, gone, handled, caught, status>>
      /\ client' \in {"away", "sending", "closed"}
  BY ThreadMoves DEF Course
<1>1. PICK o \in Object, l \in Labels, x \in {0} \cup Worker : Move(o, l, x) /\ Flushers(o, l)
  BY ThreadMoves DEF Course
<1>2. TypeOK'
  <2>1. flushers' \in [Object -> SUBSET {"current", "previous"}]
    BY <1>1 DEF Course, TypeOK, Flushers
  <2> QED BY <1>0, <1>1, <2>1 DEF Course, TypeOK, Move
<1>3. /\ \A u \in Object : u # o => thread'[u] = thread[u] /\ touch'[u] = touch[u]
      /\ thread'[o] = l /\ touch'[o] = x
      /\ l # "none" /\ Running(o)
  BY <1>1 DEF Course, TypeOK, Move
<1>4. /\ \A u \in Object : Joined(u) => Joined(u)'
      /\ \A u \in Object : Settled(u) => Settled(u)'
      /\ \A u \in Object : thread'[u] # "none" <=> thread[u] # "none"
      /\ \A u \in Object : Running(u)' => Running(u)
  BY <1>0, <1>3 DEF Joined, Settled, Running
<1>5. Ended' /\ AtConfigure' /\ AtStart' /\ AtRegister' /\ AtPause' /\ BeforeStop'
  BY <1>0, <1>4 DEF Course, Ended, AtConfigure, AtStart, AtRegister, AtPause, BeforeStop,
                    WorkersReady, Up
<1>6. AtStop' /\ AtDestroy'
  <2>1. main.at \in {"stop", "destroy"} => main.k \in Nat
    BY Order DEF Course, TypeOK
  <2>2. main.at \in {"stop", "destroy"} /\ main.k <= NumObjects => main.k \in Object
    BY <2>1, Order DEF Course, AtStop, Object
  <2>3. AtStop'
    BY <1>0 DEF Course, AtStop
  <2>4. AtDestroy'
    BY <1>0, <1>4, <2>2 DEF Course, AtDestroy, Members
  <2> QED BY <2>3, <2>4
<1>7. Kept' /\ Lost'
  BY <1>0, <1>4 DEF Course, Kept, Lost, Pending, Working, Up
<1>8. UsersRun'
  BY <1>1, <1>3 DEF Course, UsersRun, Move, Running
<1>9. Ticking'
  <2>1. CLOCK \in Object
    BY Order DEF CLOCK, Object
  <2> QED BY <1>1, <1>3, <2>1 DEF Course, Ticking, Move
<1>10. FlushersRun'
  <2>1. ASSUME NEW u \in Object, u # o PROVE flushers'[u] = flushers[u]
    BY <1>1, <2>1 DEF Course, TypeOK, Flushers
  <2>2. flushers'[o] # {} => o > CLOCK /\ l # "stopped"
    <3>1. CASE flushers' = flushers /\ (o <= CLOCK \/ l # "stopped" \/ flushers[o] = {})
      BY <3>1 DEF Course, FlushersRun, Object, CLOCK
    <3>2. CASE o > CLOCK /\ l # "stopped"
      BY <3>2
    <3> QED BY <1>1, <3>1, <3>2 DEF Flushers
  <2> QED BY <1>3, <2>1, <2>2 DEF Course, FlushersRun, Running
<1>11. WorkersThere' /\ ExitStopsThreads'
  BY <1>0, <1>4 DEF Course, WorkersThere, WorkersReady, ExitStopsThreads, Up
<1> QED BY <1>2, <1>5, <1>6, <1>7, <1>8, <1>9, <1>10, <1>11 DEF Course

\* A flusher that returns, and the client, of which Course says only that it
\* has its type.
LEMMA OthersCourse ==
  ASSUME Course, UNCHANGED <<main, ptr, done, gone, thread, touch, handled, caught, status>>,
         flushers' \in [Object -> SUBSET {"current", "previous"}],
         \A o \in Object : flushers'[o] \subseteq flushers[o],
         client' \in {"away", "sending", "closed"}
  PROVE  Course'
<1>1. TypeOK'
  BY DEF Course, TypeOK
<1>2. Ended' /\ AtConfigure' /\ AtStart' /\ AtRegister' /\ AtPause' /\ BeforeStop'
  BY DEF Course, Ended, AtConfigure, AtStart, AtRegister, AtPause, WorkersReady,
         BeforeStop, Up
<1>3. AtStop' /\ AtDestroy' /\ Kept' /\ Lost'
  BY DEF Course, AtStop, AtDestroy, Kept, Lost, Settled, Joined, Pending, Working, Members, Up
<1>4. UsersRun' /\ Ticking' /\ WorkersThere'
  BY DEF Course, UsersRun, Ticking, WorkersThere, WorkersReady, Running, Up
<1>5. \A o \in Object : flushers[o] = {} => flushers'[o] = {}
  OBVIOUS
<1>6. FlushersRun' /\ ExitStopsThreads'
  BY <1>5 DEF Course, FlushersRun, Running, ExitStopsThreads
<1> QED BY <1>1, <1>2, <1>3, <1>4, <1>6 DEF Course

LEMMA FlusherReturnsCourse ==
  ASSUME NEW o \in Worker, Course, FlusherReturns(o)
  PROVE  Course'
<1>1. PICK f \in flushers[o] : flushers' = [flushers EXCEPT ![o] = @ \ {f}]
  BY DEF FlusherReturns
<1>2. o \in Object /\ flushers \in [Object -> SUBSET {"current", "previous"}]
  BY WorkersFirst DEF Course, TypeOK
<1>3. \A u \in Object : flushers'[u] = IF u = o THEN flushers[o] \ {f} ELSE flushers[u]
  BY <1>1, <1>2
<1>4. flushers' \in [Object -> SUBSET {"current", "previous"}]
  BY <1>1, <1>2
<1>5. \A u \in Object : flushers'[u] \subseteq flushers[u]
  BY <1>3
<1>6. /\ UNCHANGED <<main, ptr, done, gone, thread, touch, handled, caught, status>>
      /\ client' \in {"away", "sending", "closed"}
  BY DEF FlusherReturns, signals, Course, TypeOK
<1> QED BY <1>4, <1>5, <1>6, OthersCourse

LEMMA CourseKept == Course /\ [Next]_vars => Course'
<1> SUFFICES ASSUME Course, [Next]_vars PROVE Course'
  OBVIOUS
<1>1. CASE MainStep
  BY <1>1, ConfigureCourse, ConstructCourse, RegisterCourse, ConstructFailsCourse,
     StartedCourse, ResetCourse, DestroyCourse, DestroyedCourse, StoppedCourse DEF MainStep
<1>2. CASE \E s \in {"SIGINT", "SIGTERM"} : Signal(s)
  BY <1>2, SignalCourse
<1>3. CASE Threads
  BY <1>3, ThreadsCourse
<1>4. CASE \E o \in Worker : FlusherReturns(o)
  BY <1>4, FlusherReturnsCourse
<1>5. CASE \E o \in Object : Crash(o)
  <2>1. Exit("crash") /\ UNCHANGED <<ptr, done, gone, thread, touch, flushers, handled, caught, client>>
    BY <1>5 DEF Crash, signals
  <2> QED BY <2>1, FailureCourse
<1>6. CASE ClientSends \/ ClientCloses \/ UNCHANGED vars
  <2>1. /\ UNCHANGED <<main, ptr, done, gone, thread, touch, flushers, handled, caught, status>>
        /\ client' \in {"away", "sending", "closed"}
    BY <1>6 DEF ClientSends, ClientCloses, signals, vars, Course, TypeOK
  <2>2. flushers' \in [Object -> SUBSET {"current", "previous"}]
    BY <2>1 DEF Course, TypeOK
  <2>3. \A o \in Object : flushers'[o] \subseteq flushers[o]
    BY <2>1
  <2> QED BY <2>1, <2>2, <2>3, OthersCourse
<1> QED BY <1>1, <1>2, <1>3, <1>4, <1>5, <1>6 DEF Next, Exited

-------------------------------------------------------------------------------
LEMMA CourseUsers == Course => WorkersOutliveTheirUsers
<1> SUFFICES ASSUME Course, Up, NEW o \in Object \ caught, touch[o] # 0 PROVE ptr[touch[o]]
  BY DEF WorkersOutliveTheirUsers
<1>1. touch[o] \in Worker
  BY DEF Course, TypeOK
<1>2. WorkersReady
  BY DEF Course, UsersRun, WorkersThere
<1> QED BY <1>1, <1>2 DEF WorkersReady

LEMMA CourseAlways == Spec => []Course
<1> QED BY CourseInit, CourseKept, PTL DEF Spec

(* Every variable of the start-up and shutdown keeps its type, wherever    *)
(* signals arrive.                                                         *)
THEOREM TypeCorrect == Spec => []TypeOK
<1>1. Course => TypeOK
  BY DEF Course
<1> QED BY CourseAlways, <1>1, PTL

(* stop() (aggregator.h:98-120) ends the servers and the clock before it   *)
(* resets the first worker: whatever the number of workers and wherever    *)
(* the signals arrive, no thread uses a worker that has been reset, except *)
(* a thread of an object that a signal caught.                             *)
THEOREM UsersEndFirst == Spec => []WorkersOutliveTheirUsers
<1> QED BY CourseAlways, CourseUsers, PTL

(* When stop() exits with 0 (aggregator.h:97), every object ever           *)
(* constructed has been destroyed and its thread and flushers have ended,  *)
(* except those that a signal caught; no pointer is left in any case.      *)
THEOREM NoThreadLeft == Spec => []ExitStopsThreads
<1>1. Course => ExitStopsThreads
  BY DEF Course
<1> QED BY CourseAlways, <1>1, PTL
================================================================================
