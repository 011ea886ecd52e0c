---------------------------- MODULE Status_proofs ----------------------------
(***************************************************************************)
(* Proofs about Status, for any number of workers and of intervals: what   *)
(* the figures of one reply have to do with each other, and with the reply *)
(* before.                                                                 *)
(***************************************************************************)
EXTENDS Status, TLAPS

TypeInv ==
  /\ interval \in [Worker -> Nat \ {0}]
  /\ at \in [Worker -> 0..4]
  /\ bad_lines_seen \in [Worker -> Nat]
  /\ frequency \in [Worker -> Nat \X Nat]
  /\ metrics_rate \in [Worker -> Nat]
  /\ fmut \in [Worker -> {"free", "worker", "handler"}]
  /\ step \in {"idle", "rate", "lock", "table", "bad", "proc", "crashed"}
  /\ who \in Nat
  /\ step \in {"rate", "lock", "table", "bad"} => who \in Worker
  /\ reply \in [Worker -> [rate : Nat, freq : Nat \X Nat, bad : Nat]]
  /\ last \in [Worker -> Nat]

(* The figures of a worker are those of its last interval, or of the one it *)
(* is publishing, up to where it is in PublishOrder.                        *)
Written(w) ==
  /\ bad_lines_seen[w] = IF at[w] <= 1 THEN interval[w] - 1 ELSE interval[w]
  /\ frequency[w][1] = IF at[w] <= 2 THEN interval[w] - 1 ELSE interval[w]
  /\ frequency[w][2] = IF at[w] <= 3 THEN interval[w] - 1 ELSE interval[w]
  /\ metrics_rate[w] = interval[w] - 1

(* Who holds the mutex of a table is in the middle of it. *)
Held(w) ==
  /\ fmut[w] = "worker" <=> at[w] = 3
  /\ fmut[w] = "handler" <=> step = "table" /\ who = w

InOrder(r) == r.rate <= r.freq[1] /\ r.freq[1] = r.freq[2] /\ r.freq[2] <= r.bad

(* The handler is between two figures of w. *)
Half(w) == who = w /\ step \in {"lock", "table", "bad"}

(* The figures the handler has read of the worker it is at are bounded by   *)
(* those that it has still to read.                                         *)
Reading(w) ==
  /\ ~Half(w) => InOrder(reply[w])
  /\ who = w /\ step = "lock" => reply[w].rate <= metrics_rate[w]
  /\ who = w /\ step = "table" =>
       reply[w].rate <= reply[w].freq[1] /\ reply[w].freq[1] = frequency[w][1]
  /\ who = w /\ step = "bad" =>
       /\ reply[w].rate <= reply[w].freq[1]
       /\ reply[w].freq[1] = reply[w].freq[2]
       /\ reply[w].freq[2] <= bad_lines_seen[w]
  /\ reply[w].bad <= bad_lines_seen[w]
  /\ last[w] <= bad_lines_seen[w]

IInv == TypeInv /\ \A w \in Worker : Written(w) /\ Held(w) /\ Reading(w)

-----------------------------------------------------------------------------
LEMMA Order ==
  /\ Len(PublishOrder) = 4
  /\ PublishOrder[1] = "bad" /\ PublishOrder[2] = "lock"
  /\ PublishOrder[3] = "table" /\ PublishOrder[4] = "rate"
  BY DEF PublishOrder

(* A store moves its worker on by one, and the last one ends the interval.  *)
LEMMA StoreMoves ==
  ASSUME TypeInv, NEW w \in Worker, NEW name, Store(w, name)
  PROVE  /\ at[w] \in 1..4
         /\ name = "bad" => at[w] = 1
         /\ name = "lock" => at[w] = 2
         /\ name = "table" => at[w] = 3
         /\ name = "rate" => at[w] = 4
         /\ at[w] # 4 => at' = [at EXCEPT ![w] = @ + 1] /\ interval' = interval
         /\ at[w] = 4 => /\ at' = [at EXCEPT ![w] = 0]
                         /\ interval' = [interval EXCEPT ![w] = @ + 1]
         /\ UNCHANGED <<listed, step, who, reply, last>>
<1>1. at[w] \in 1..4 /\ PublishOrder[at[w]] = name
  BY DEF TypeInv, Store
<1>2. at[w] = 1 \/ at[w] = 2 \/ at[w] = 3 \/ at[w] = 4
  BY <1>1
<1>3. /\ name = "bad" => at[w] = 1
      /\ name = "lock" => at[w] = 2
      /\ name = "table" => at[w] = 3
      /\ name = "rate" => at[w] = 4
  BY <1>1, <1>2, Order
<1> QED
  BY <1>1, <1>3, Order DEF Store

LEMMA StatusInit == Init => IInv
  BY StatusAssumption
     DEF Init, IInv, TypeInv, Written, Held, Reading, Half, InOrder, Nothing, Worker

(* What the handler has read stays below what the writers go on to write.   *)
LEMMA ReadingKept ==
  ASSUME IInv, NEW w \in Worker,
         UNCHANGED <<step, who, reply, last>>,
         bad_lines_seen[w] <= bad_lines_seen'[w], bad_lines_seen'[w] \in Nat,
         metrics_rate[w] <= metrics_rate'[w], metrics_rate'[w] \in Nat,
         step = "table" /\ who = w => frequency'[w][1] = frequency[w][1]
  PROVE  Reading(w)'
<1>1. /\ reply[w].rate \in Nat /\ reply[w].bad \in Nat
      /\ reply[w].freq[1] \in Nat /\ reply[w].freq[2] \in Nat
      /\ bad_lines_seen[w] \in Nat /\ metrics_rate[w] \in Nat /\ last[w] \in Nat
  BY DEF IInv, TypeInv
<1>2. Reading(w)
  BY DEF IInv
<1>3. Half(w)' <=> Half(w)
  BY DEF Half
<1>4. InOrder(reply[w])' <=> InOrder(reply[w])
  BY DEF InOrder
<1> QED
  BY <1>1, <1>2, <1>3, <1>4 DEF Reading

LEMMA EndIntervalKeeps ==
  ASSUME IInv, NEW w \in Worker, EndInterval(w)
  PROVE  IInv'
<1>1. TypeInv'
  BY DEF IInv, TypeInv, EndInterval, figures
<1>2. ASSUME NEW v \in Worker PROVE Written(v)' /\ Held(v)'
  BY <1>2 DEF IInv, TypeInv, EndInterval, figures, Written, Held
<1>3. ASSUME NEW v \in Worker PROVE Reading(v)'
  BY <1>3, ReadingKept DEF IInv, TypeInv, EndInterval, figures
<1> QED
  BY <1>1, <1>2, <1>3 DEF IInv

LEMMA PublishKeeps ==
  ASSUME IInv, NEW w \in Worker, Publish(w)
  PROVE  IInv'
<1> USE DEF IInv
<1>1. CASE StoreBad(w)
  <2>0. Store(w, "bad") /\ at[w] = 1
    BY <1>1, StoreMoves DEF StoreBad
  <2>1. /\ at[w] = 1 /\ at' = [at EXCEPT ![w] = 2] /\ interval' = interval
        /\ UNCHANGED <<step, who, reply, last, frequency, metrics_rate, fmut>>
        /\ bad_lines_seen' = [bad_lines_seen EXCEPT ![w] = interval[w]]
    BY <1>1, <2>0, StoreMoves DEF StoreBad, TypeInv
  <2>2. TypeInv'
    BY <2>1 DEF TypeInv
  <2>3. ASSUME NEW v \in Worker PROVE Written(v)' /\ Held(v)'
    BY <2>1, <2>3 DEF TypeInv, Written, Held
  <2>4. ASSUME NEW v \in Worker PROVE Reading(v)'
    <3>1. bad_lines_seen[v] <= bad_lines_seen'[v]
      BY <2>1 DEF TypeInv, Written
    <3> QED
      BY <2>1, <2>2, <3>1, ReadingKept DEF TypeInv
  <2> QED
    BY <2>2, <2>3, <2>4
<1>2. CASE LockAndStore(w)
  <2>0. Store(w, "lock") /\ at[w] = 2
    BY <1>2, StoreMoves DEF LockAndStore
  <2>1. /\ at[w] = 2 /\ at' = [at EXCEPT ![w] = 3] /\ interval' = interval
        /\ UNCHANGED <<step, who, reply, last, bad_lines_seen, metrics_rate>>
        /\ frequency' = [frequency EXCEPT ![w][1] = interval[w]]
        /\ fmut[w] = "free" /\ fmut' = [fmut EXCEPT ![w] = "worker"]
    BY <1>2, <2>0, StoreMoves DEF LockAndStore, TypeInv
  <2>2. TypeInv'
    BY <2>1 DEF TypeInv
  <2>3. ASSUME NEW v \in Worker PROVE Written(v)' /\ Held(v)'
    BY <2>1, <2>3 DEF TypeInv, Written, Held
  <2>4. ASSUME NEW v \in Worker PROVE Reading(v)'
    <3>1. step = "table" /\ who = v => v # w
      BY <2>1 DEF Held
    <3>2. step = "table" /\ who = v => frequency'[v][1] = frequency[v][1]
      BY <2>1, <3>1 DEF TypeInv
    <3> QED
      BY <2>1, <2>2, <3>2, ReadingKept DEF TypeInv
  <2> QED
    BY <2>2, <2>3, <2>4
<1>3. CASE StoreRest(w)
  <2>0. Store(w, "table") /\ at[w] = 3
    BY <1>3, StoreMoves DEF StoreRest
  <2>1. /\ at[w] = 3 /\ at' = [at EXCEPT ![w] = 4] /\ interval' = interval
        /\ UNCHANGED <<step, who, reply, last, bad_lines_seen, metrics_rate>>
        /\ frequency' = [frequency EXCEPT ![w][2] = interval[w]]
        /\ fmut' = [fmut EXCEPT ![w] = "free"]
    BY <1>3, <2>0, StoreMoves DEF StoreRest, TypeInv
  <2>2. TypeInv'
    BY <2>1 DEF TypeInv
  <2>3. ASSUME NEW v \in Worker PROVE Written(v)' /\ Held(v)'
    BY <2>1, <2>3 DEF TypeInv, Written, Held
  <2>4. ASSUME NEW v \in Worker PROVE Reading(v)'
    <3>1. step = "table" /\ who = v => frequency'[v][1] = frequency[v][1]
      BY <2>1 DEF TypeInv
    <3> QED
      BY <2>1, <2>2, <3>1, ReadingKept DEF TypeInv
  <2> QED
    BY <2>2, <2>3, <2>4
<1>4. CASE StoreRate(w)
  <2>0. Store(w, "rate") /\ at[w] = 4
    BY <1>4, StoreMoves DEF StoreRate
  <2>1. /\ at[w] = 4 /\ at' = [at EXCEPT ![w] = 0]
        /\ interval' = [interval EXCEPT ![w] = @ + 1]
        /\ UNCHANGED <<step, who, reply, last, bad_lines_seen, frequency, fmut>>
        /\ metrics_rate' = [metrics_rate EXCEPT ![w] = interval[w]]
    BY <1>4, <2>0, StoreMoves DEF StoreRate, TypeInv
  <2>2. TypeInv'
    BY <2>1 DEF TypeInv
  <2>3. ASSUME NEW v \in Worker PROVE Written(v)' /\ Held(v)'
    BY <2>1, <2>3 DEF TypeInv, Written, Held
  <2>4. ASSUME NEW v \in Worker PROVE Reading(v)'
    <3>1. metrics_rate[v] <= metrics_rate'[v]
      BY <2>1 DEF TypeInv, Written
    <3> QED
      BY <2>1, <2>2, <3>1, ReadingKept DEF TypeInv
  <2> QED
    BY <2>2, <2>3, <2>4
<1> QED
  BY <1>1, <1>2, <1>3, <1>4 DEF Publish

-----------------------------------------------------------------------------
(* Steps that read and write no figure: InOrder is all there is to keep.    *)
LEMMA NoFigureKeeps ==
  ASSUME IInv, TypeInv', UNCHANGED <<writer, fmut, reply, last>>,
         step \notin {"lock", "table", "bad"}, step' \notin {"lock", "table", "bad"}
  PROVE  IInv'
<1>1. ASSUME NEW w \in Worker PROVE Written(w)' /\ Held(w)'
  BY <1>1 DEF IInv, Written, Held, writer, figures
<1>2. ASSUME NEW w \in Worker PROVE Reading(w)'
  <2>1. Reading(w) /\ ~Half(w)
    BY <1>2 DEF IInv, Half
  <2> QED
    BY <2>1 DEF Reading, Half, InOrder, writer, figures
<1> QED
  BY <1>1, <1>2 DEF IInv

LEMMA RequestKeeps == ASSUME IInv, Request PROVE IInv'
<1>1. /\ step = "idle" /\ step' \in {"rate", "proc"} /\ who' = 1
      /\ reply' = [w \in Worker |-> Nothing]
      /\ UNCHANGED <<writer, fmut, last>>
  BY DEF Request
<1>2. TypeInv'
  <2>1. reply' \in [Worker -> [rate : Nat, freq : Nat \X Nat, bad : Nat]]
    BY <1>1 DEF Nothing
  <2>2. who' \in Nat /\ who' \in Worker
    BY <1>1, StatusAssumption DEF Worker
  <2> QED
    BY <1>1, <2>1, <2>2 DEF IInv, TypeInv, writer, figures
<1>3. ASSUME NEW w \in Worker PROVE Written(w)' /\ Held(w)'
  BY <1>1, <1>3 DEF IInv, Written, Held, writer, figures
<1>4. ASSUME NEW w \in Worker PROVE Reading(w)'
  BY <1>1, <1>4 DEF IInv, TypeInv, Reading, Half, InOrder, Nothing, writer, figures
<1> QED
  BY <1>2, <1>3, <1>4 DEF IInv

(* A worker the handler is not at keeps what Reading says of it.            *)
LEMMA OtherReading ==
  ASSUME IInv, NEW w \in Worker, w # who, UNCHANGED writer,
         reply'[w] = reply[w], last'[w] = last[w],
         who' = w => step' \notin {"lock", "table", "bad"}
  PROVE  Reading(w)'
<1>1. Reading(w) /\ ~Half(w) /\ ~Half(w)'
  BY DEF IInv, Half
<1> QED
  BY <1>1 DEF Reading, Half, InOrder, writer, figures

LEMMA ReadRateKeeps == ASSUME IInv, ReadRate PROVE IInv'
<1>1. /\ step = "rate" /\ step' = "lock" /\ who \in Worker
      /\ reply' = [reply EXCEPT ![who].rate = metrics_rate[who]]
      /\ UNCHANGED <<writer, fmut, who, last>>
  BY DEF ReadRate, IInv, TypeInv
<1>2. TypeInv'
  BY <1>1 DEF IInv, TypeInv, writer, figures
<1>3. ASSUME NEW w \in Worker PROVE Written(w)' /\ Held(w)'
  BY <1>1, <1>3 DEF IInv, Written, Held, writer, figures
<1>4. Reading(who)'
  <2>1. Reading(who) /\ Written(who)
    BY <1>1 DEF IInv
  <2>2. reply'[who].rate = metrics_rate[who] /\ reply'[who].bad = reply[who].bad
    BY <1>1 DEF IInv, TypeInv
  <2> QED
    BY <1>1, <2>1, <2>2 DEF IInv, TypeInv, Reading, Half, writer, figures
<1>5. ASSUME NEW w \in Worker, w # who PROVE Reading(w)'
  BY <1>1, <1>5, OtherReading DEF IInv, TypeInv
<1> QED
  BY <1>1, <1>2, <1>3, <1>4, <1>5 DEF IInv

(* One half of the table copied into a reply. *)
LEMMA CopyHalf ==
  ASSUME NEW r \in [rate : Nat, freq : Nat \X Nat, bad : Nat],
         NEW i \in {1, 2}, NEW n \in Nat
  PROVE  LET c == [r EXCEPT !.freq[i] = n]
         IN  /\ c \in [rate : Nat, freq : Nat \X Nat, bad : Nat]
             /\ c.rate = r.rate /\ c.bad = r.bad
             /\ c.freq[i] = n
             /\ \A j \in {1, 2} \ {i} : c.freq[j] = r.freq[j]
<1> DEFINE f == [r.freq EXCEPT ![i] = n]
           c == [r EXCEPT !.freq[i] = n]
<1>1. r.freq \in Nat \X Nat /\ r.rate \in Nat /\ r.bad \in Nat
  OBVIOUS
<1>2. /\ f \in Nat \X Nat /\ f[i] = n
      /\ \A j \in {1, 2} \ {i} : f[j] = r.freq[j]
  BY <1>1
<1>3. c = [r EXCEPT !.freq = f]
  OBVIOUS
<1>4. c.rate = r.rate /\ c.bad = r.bad /\ c.freq = f
  BY <1>3
<1>5. c \in [rate : Nat, freq : Nat \X Nat, bad : Nat]
  BY <1>1, <1>2, <1>3
<1> QED
  BY <1>2, <1>4, <1>5

LEMMA LockAndCopyKeeps == ASSUME IInv, LockAndCopy PROVE IInv'
<1>1. /\ step = "lock" /\ step' = "table" /\ who \in Worker
      /\ fmut[who] = "free" /\ fmut' = [fmut EXCEPT ![who] = "handler"]
      /\ reply' = [reply EXCEPT ![who].freq[1] = frequency[who][1]]
      /\ UNCHANGED <<writer, who, last>>
  BY DEF LockAndCopy, CopyTable, IInv, TypeInv
<1>2. /\ reply[who] \in [rate : Nat, freq : Nat \X Nat, bad : Nat]
      /\ frequency[who][1] \in Nat
  BY <1>1 DEF IInv, TypeInv
<1>3. /\ reply'[who] \in [rate : Nat, freq : Nat \X Nat, bad : Nat]
      /\ reply'[who].rate = reply[who].rate /\ reply'[who].bad = reply[who].bad
      /\ reply'[who].freq[1] = frequency[who][1]
  <2>1. reply'[who] = [reply[who] EXCEPT !.freq[1] = frequency[who][1]]
    BY <1>1 DEF IInv, TypeInv
  <2> QED
    BY <1>2, <2>1, CopyHalf
<1>4. ASSUME NEW w \in Worker, w # who PROVE reply'[w] = reply[w]
  BY <1>1, <1>4 DEF IInv, TypeInv
<1>5. TypeInv'
  <2>1. reply' \in [Worker -> [rate : Nat, freq : Nat \X Nat, bad : Nat]]
    BY <1>1, <1>3, <1>4 DEF IInv, TypeInv
  <2> QED
    BY <1>1, <2>1 DEF IInv, TypeInv, writer, figures
<1>6. ASSUME NEW w \in Worker PROVE Written(w)' /\ Held(w)'
  BY <1>1, <1>6 DEF IInv, TypeInv, Written, Held, writer, figures
<1>7. Reading(who)'
  <2>1. Reading(who) /\ Written(who)
    BY <1>1 DEF IInv
  <2>2. reply[who].rate <= frequency[who][1]
    BY <1>1, <1>2, <2>1 DEF IInv, TypeInv, Reading, Written
  <2> QED
    BY <1>1, <1>3, <2>1, <2>2 DEF Reading, Half, writer, figures
<1>8. ASSUME NEW w \in Worker, w # who PROVE Reading(w)'
  BY <1>1, <1>4, <1>8, OtherReading
<1> QED
  BY <1>1, <1>5, <1>6, <1>7, <1>8 DEF IInv

LEMMA CopyRestKeeps == ASSUME IInv, CopyRest PROVE IInv'
<1>1. /\ step = "table" /\ step' = "bad" /\ who \in Worker
      /\ fmut' = [fmut EXCEPT ![who] = "free"]
      /\ reply' = [reply EXCEPT ![who].freq[2] = frequency[who][2]]
      /\ UNCHANGED <<writer, who, last>>
  BY DEF CopyRest, IInv, TypeInv
<1>2. /\ reply[who] \in [rate : Nat, freq : Nat \X Nat, bad : Nat]
      /\ frequency[who][2] \in Nat
  BY <1>1 DEF IInv, TypeInv
<1>3. /\ reply'[who] \in [rate : Nat, freq : Nat \X Nat, bad : Nat]
      /\ reply'[who].rate = reply[who].rate /\ reply'[who].bad = reply[who].bad
      /\ reply'[who].freq[1] = reply[who].freq[1]
      /\ reply'[who].freq[2] = frequency[who][2]
  <2>1. reply'[who] = [reply[who] EXCEPT !.freq[2] = frequency[who][2]]
    BY <1>1 DEF IInv, TypeInv
  <2> QED
    BY <1>2, <2>1, CopyHalf
<1>4. ASSUME NEW w \in Worker, w # who PROVE reply'[w] = reply[w]
  BY <1>1, <1>4 DEF IInv, TypeInv
<1>5. TypeInv'
  <2>1. reply' \in [Worker -> [rate : Nat, freq : Nat \X Nat, bad : Nat]]
    BY <1>1, <1>3, <1>4 DEF IInv, TypeInv
  <2> QED
    BY <1>1, <2>1 DEF IInv, TypeInv, writer, figures
<1>6. fmut[who] = "handler" /\ at[who] # 3
  BY <1>1 DEF IInv, Held
<1>7. ASSUME NEW w \in Worker PROVE Written(w)' /\ Held(w)'
  BY <1>1, <1>6, <1>7 DEF IInv, TypeInv, Written, Held, writer, figures
<1>8. Reading(who)'
  <2>1. Reading(who) /\ Written(who)
    BY <1>1 DEF IInv
  <2>2. /\ frequency[who][1] = frequency[who][2]
        /\ frequency[who][2] <= bad_lines_seen[who]
    <3>1. at[who] \in 0..4 /\ interval[who] \in Nat
      BY <1>1 DEF IInv, TypeInv
    <3> QED
      BY <1>6, <2>1, <3>1 DEF Written
  <2> QED
    BY <1>1, <1>3, <2>1, <2>2 DEF Reading, Half, writer, figures
<1>9. ASSUME NEW w \in Worker, w # who PROVE Reading(w)'
  BY <1>1, <1>4, <1>9, OtherReading
<1> QED
  BY <1>1, <1>5, <1>7, <1>8, <1>9 DEF IInv

LEMMA ReadBadKeeps == ASSUME IInv, ReadBad PROVE IInv'
<1>1. /\ step = "bad" /\ who \in Worker /\ who' = who + 1
      /\ step' \in {"rate", "idle"}
      /\ step' = "rate" => who < NumWorkers
      /\ reply' = [reply EXCEPT ![who].bad = bad_lines_seen[who]]
      /\ last' = last \/ last' = [w \in Worker |-> reply'[w].bad]
      /\ UNCHANGED <<writer, fmut>>
  BY DEF ReadBad, MoreWorkers, IInv, TypeInv
<1>2. /\ reply' \in [Worker -> [rate : Nat, freq : Nat \X Nat, bad : Nat]]
      /\ reply'[who].rate = reply[who].rate /\ reply'[who].freq = reply[who].freq
      /\ reply'[who].bad = bad_lines_seen[who]
  <2>1. /\ reply'[who] = [reply[who] EXCEPT !.bad = bad_lines_seen[who]]
        /\ reply[who] \in [rate : Nat, freq : Nat \X Nat, bad : Nat]
        /\ bad_lines_seen[who] \in Nat
    BY <1>1 DEF IInv, TypeInv
  <2>2. reply'[who] \in [rate : Nat, freq : Nat \X Nat, bad : Nat]
    BY <2>1
  <2>3. \A w \in Worker \ {who} : reply'[w] = reply[w]
    BY <1>1 DEF IInv, TypeInv
  <2>4. reply' \in [Worker -> [rate : Nat, freq : Nat \X Nat, bad : Nat]]
    BY <1>1, <2>2, <2>3 DEF IInv, TypeInv
  <2> QED
    BY <2>1, <2>4
<1>3. ASSUME NEW w \in Worker, w # who PROVE reply'[w] = reply[w]
  BY <1>1, <1>3 DEF IInv, TypeInv
<1>4. last' \in [Worker -> Nat]
  <2>1. \A w \in Worker : reply'[w].bad \in Nat
    BY <1>2
  <2> QED
    BY <1>1, <2>1 DEF IInv, TypeInv
<1>5. TypeInv'
  <2>1. who' \in Nat /\ (step' = "rate" => who' \in Worker)
    BY <1>1, StatusAssumption DEF Worker
  <2>2. UNCHANGED <<interval, at, bad_lines_seen, frequency, metrics_rate, fmut>>
    BY <1>1 DEF writer, figures
  <2> QED
    BY <1>1, <1>2, <1>4, <2>1, <2>2 DEF IInv, TypeInv
<1>6. ASSUME NEW w \in Worker PROVE Written(w)' /\ Held(w)'
  BY <1>1, <1>6 DEF IInv, Written, Held, writer, figures
<1>7. ASSUME NEW w \in Worker PROVE Reading(w)'
  <2>1. /\ Reading(w) /\ ~Half(w)'
        /\ reply[w].bad \in Nat /\ bad_lines_seen[w] \in Nat
    BY <1>1, <1>7 DEF IInv, TypeInv, Half
  <2>2. reply'[w].bad <= bad_lines_seen[w]
    BY <1>2, <1>3, <2>1 DEF Reading
  <2>3. last'[w] <= bad_lines_seen[w]
    BY <1>1, <2>1, <2>2 DEF Reading
  <2>4. InOrder(reply'[w])
    <3>1. CASE w = who
      BY <1>1, <1>2, <2>1, <3>1 DEF Reading, InOrder
    <3>2. CASE w # who
      BY <1>3, <2>1, <3>2 DEF Reading, Half
    <3> QED
      BY <3>1, <3>2
  <2>5. bad_lines_seen' = bad_lines_seen /\ InOrder(reply[w])'
    BY <1>1, <2>4 DEF InOrder, writer, figures
  <2> QED
    BY <1>1, <2>1, <2>2, <2>3, <2>5 DEF Reading, Half
<1> QED
  BY <1>5, <1>6, <1>7 DEF IInv

LEMMA ProcKeeps == ASSUME IInv, ReadProc \/ ReadNoId PROVE IInv'
<1>1. /\ step = "proc" /\ step' \in {"idle", "proc", "crashed"}
      /\ who' = who \/ who' = who + 1
      /\ UNCHANGED <<writer, fmut, reply, last>>
  BY DEF ReadProc, ReadNoId
<1>2. TypeInv'
  BY <1>1 DEF IInv, TypeInv, writer, figures
<1> QED
  BY <1>1, <1>2, NoFigureKeeps

LEMMA StutterKeeps ==
  ASSUME IInv, UNCHANGED <<writer, fmut, step, who, reply, last>>
  PROVE  IInv'
  BY DEF IInv, TypeInv, Written, Held, Reading, Half, InOrder, writer, figures

LEMMA StatusStep == IInv /\ [Next]_vars => IInv'
<1> SUFFICES ASSUME IInv, [Next]_vars PROVE IInv'
  OBVIOUS
<1>1. CASE \E t \in Thread : ThreadStarts(t)
  BY <1>1, StutterKeeps DEF ThreadStarts
<1>2. CASE \E w \in Worker : EndInterval(w) \/ Publish(w)
  BY <1>2, EndIntervalKeeps, PublishKeeps
<1>3. CASE Request
  BY <1>3, RequestKeeps
<1>4. CASE Handle
  BY <1>4, ReadRateKeeps, LockAndCopyKeeps, CopyRestKeeps, ReadBadKeeps, ProcKeeps
     DEF Handle
<1>5. CASE UNCHANGED vars
  BY <1>5, StutterKeeps DEF vars
<1> QED
  BY <1>1, <1>2, <1>3, <1>4, <1>5 DEF Next

-----------------------------------------------------------------------------
(* In one reply to /app the rate of a worker is never newer than its table, *)
(* the table is that of one interval, and the table is never newer than the *)
(* bad lines: worker.cc:68-75 stores in the opposite order of the reads of  *)
(* http_server.cc:224-251, the table under fmut (worker.h:71-82).           *)
THEOREM OneDirection == Spec => []ReplyNeverGoesBack
<1>1. IInv => ReplyNeverGoesBack
  <2> SUFFICES ASSUME IInv, Replying, NEW w \in Worker, Read(w)
               PROVE  InOrder(reply[w])
    BY DEF ReplyNeverGoesBack, InOrder
  <2>1. ~Half(w)
    BY DEF IInv, TypeInv, Read, Half, Worker
  <2> QED
    BY <2>1 DEF IInv, Reading
<1> QED
  BY <1>1, StatusInit, StatusStep, PTL DEF Spec

(* The rate a reply to /app shows is at most one interval older than the    *)
(* bad lines the reply before it has shown for the same worker: the worker  *)
(* stores the rate last, but in the same interval (worker.cc:68-75).        *)
THEOREM OneBehind == Spec => LagsByOne
<1>1. ASSUME IInv, [Next]_vars, step = "rate", step' = "lock"
      PROVE  reply'[who].rate + 1 >= last[who]
  <2>1. ReadRate
    BY <1>1 DEF Next, Handle, ThreadStarts, EndInterval, Publish, Store, StoreBad,
       LockAndStore, StoreRest, StoreRate, Request, ReadRate, LockAndCopy, CopyTable,
       CopyRest, ReadBad, ReadProc, ReadNoId, vars
  <2>2. who \in Worker /\ reply'[who].rate = metrics_rate[who]
    BY <1>1, <2>1 DEF ReadRate, IInv, TypeInv
  <2>3. /\ metrics_rate[who] + 1 >= bad_lines_seen[who]
        /\ bad_lines_seen[who] >= last[who]
    BY <1>1, <2>2 DEF IInv, TypeInv, Written, Reading
  <2> QED
    BY <2>2, <2>3, <1>1 DEF IInv, TypeInv
<1>2. IInv /\ [Next]_vars
        => [step = "rate" /\ step' = "lock" => reply'[who].rate + 1 >= last[who]]_vars
  BY <1>1
<1> QED
  BY <1>2, StatusInit, StatusStep, PTL DEF Spec, LagsByOne
-----------------------------------------------------------------------------
(* The bounds that TypeOK adds to TypeInv: a worker that publishes does so  *)
(* for an interval within MaxIntervals, and /proc stays within ProcOrder.   *)
Publishing == \A w \in Worker : at[w] # 0 => interval[w] <= MaxIntervals
InProcOrder == step = "proc" => who <= NumWorkers + 2
BoundsInv == TypeOK /\ Publishing /\ InProcOrder

LEMMA ProcLength == Len(ProcOrder) = NumWorkers + 2
<1>1. /\ [w \in Worker |-> w] \in Seq(Nat)
      /\ Len([w \in Worker |-> w]) = NumWorkers
  BY StatusAssumption DEF Worker
<1>2. SERVER \in Nat /\ CLOCK \in Nat
  BY StatusAssumption DEF SERVER, CLOCK
<1> HIDE DEF Worker, SERVER, CLOCK
<1>3. <<SERVER>> \o [w \in Worker |-> w] \in Seq(Nat)
      /\ Len(<<SERVER>> \o [w \in Worker |-> w]) = NumWorkers + 1
  BY <1>1, <1>2, StatusAssumption
<1> QED
  BY <1>2, <1>3, StatusAssumption DEF ProcOrder

LEMMA PublishBounds ==
  ASSUME IInv, BoundsInv, NEW w \in Worker, Publish(w)
  PROVE  BoundsInv'
<1> USE StatusAssumption DEF Interval
<1>0. TypeInv
  BY DEF IInv
<1>1. ASSUME NEW name, Store(w, name)
      PROVE  /\ interval' \in [Worker -> 1..MaxIntervals + 1]
             /\ at' \in [Worker -> 0..4]
             /\ interval[w] \in Interval
             /\ Publishing'
             /\ UNCHANGED <<listed, step, who, reply, last>>
  <2>1. /\ at[w] \in 1..4 /\ interval[w] \in 1..MaxIntervals
        /\ interval \in [Worker -> 1..MaxIntervals + 1] /\ at \in [Worker -> 0..4]
    <3>1. /\ at[w] \in 1..4 /\ interval \in [Worker -> 1..MaxIntervals + 1]
          /\ at \in [Worker -> 0..4]
      BY <1>0, <1>1, StoreMoves, Order DEF BoundsInv, TypeOK
    <3>2. interval[w] <= MaxIntervals
      BY <3>1 DEF BoundsInv, Publishing
    <3> QED BY <3>1, <3>2
  <2>2. CASE at[w] = 4
    <3>1. /\ at' = [at EXCEPT ![w] = 0]
          /\ interval' = [interval EXCEPT ![w] = interval[w] + 1]
          /\ UNCHANGED <<listed, step, who, reply, last>>
      BY <1>0, <1>1, <2>2, StoreMoves
    <3> QED BY <2>1, <3>1 DEF BoundsInv, Publishing
  <2>3. CASE at[w] # 4
    <3>1. /\ at' = [at EXCEPT ![w] = at[w] + 1] /\ interval' = interval
          /\ UNCHANGED <<listed, step, who, reply, last>>
      BY <1>0, <1>1, <2>3, StoreMoves
    <3> QED BY <2>1, <2>3, <3>1 DEF BoundsInv, Publishing
  <2> QED BY <2>2, <2>3
<1>2. PICK name : Store(w, name)
  BY DEF Publish, StoreBad, LockAndStore, StoreRest, StoreRate
<1>3. /\ bad_lines_seen' \in [Worker -> Interval]
      /\ frequency' \in [Worker -> Interval \X Interval]
      /\ metrics_rate' \in [Worker -> Interval]
      /\ fmut' \in [Worker -> {"free", "worker", "handler"}]
  <2>1. interval[w] \in Interval
    BY <1>1, <1>2
  <2>2. /\ bad_lines_seen \in [Worker -> Interval]
        /\ frequency \in [Worker -> Interval \X Interval]
        /\ metrics_rate \in [Worker -> Interval]
        /\ fmut \in [Worker -> {"free", "worker", "handler"}]
    BY DEF BoundsInv, TypeOK
  <2> HIDE DEF Interval
  <2>3. CASE StoreBad(w)
    BY <2>1, <2>2, <2>3 DEF StoreBad
  <2>4. CASE LockAndStore(w)
    BY <2>1, <2>2, <2>4 DEF LockAndStore
  <2>5. CASE StoreRest(w)
    BY <2>1, <2>2, <2>5 DEF StoreRest
  <2>6. CASE StoreRate(w)
    BY <2>1, <2>2, <2>6 DEF StoreRate
  <2> QED BY <2>3, <2>4, <2>5, <2>6 DEF Publish
<1> QED
  BY <1>1, <1>2, <1>3, Order DEF BoundsInv, TypeOK, InProcOrder

LEMMA HandleBounds ==
  ASSUME IInv, BoundsInv, Handle
  PROVE  BoundsInv'
<1> DEFINE Figures == [rate : Interval, freq : Interval \X Interval, bad : Interval]
<1>1. UNCHANGED <<listed, writer>>
  BY DEF Handle, ReadRate, LockAndCopy, CopyTable, CopyRest, ReadBad, ReadProc, ReadNoId
<1>2. UNCHANGED <<interval, at, bad_lines_seen, frequency, metrics_rate>>
  BY <1>1 DEF writer, figures
<1>3. /\ reply \in [Worker -> Figures] /\ last \in [Worker -> Interval]
      /\ fmut \in [Worker -> {"free", "worker", "handler"}]
      /\ who \in 1..NumWorkers + 3
      /\ \A w \in Worker : /\ reply[w] \in Figures
                           /\ metrics_rate[w] \in Interval
                           /\ bad_lines_seen[w] \in Interval
                           /\ frequency[w] \in Interval \X Interval
      /\ step \in {"rate", "lock", "table", "bad"} => who \in Worker
  BY DEF BoundsInv, TypeOK
<1>4. IInv'
  BY StatusStep DEF Next
<1>5. /\ reply' \in [Worker -> Figures] /\ last' \in [Worker -> Interval]
      /\ who' \in 1..NumWorkers + 3
      /\ InProcOrder'
  <2>1. CASE ReadRate
    BY <1>3, <2>1 DEF ReadRate, InProcOrder
  <2>2. CASE LockAndCopy
    <3>1. /\ who \in Worker /\ who' = who /\ last' = last /\ step' = "table"
          /\ reply' = [reply EXCEPT ![who].freq[1] = frequency[who][1]]
      BY <1>3, <2>2 DEF LockAndCopy, CopyTable
    <3> QED BY <1>3, <3>1 DEF InProcOrder
  <2>3. CASE CopyRest
    <3>1. /\ who \in Worker /\ who' = who /\ last' = last /\ step' = "bad"
          /\ reply' = [reply EXCEPT ![who].freq[2] = frequency[who][2]]
      BY <1>3, <2>3 DEF CopyRest
    <3> QED BY <1>3, <3>1 DEF InProcOrder
  <2>4. CASE ReadBad
    <3>1. /\ who \in Worker /\ who' = who + 1 /\ step' \in {"rate", "idle"}
          /\ reply' = [reply EXCEPT ![who].bad = bad_lines_seen[who]]
          /\ last' = last \/ last' = [w \in Worker |-> reply'[w].bad]
      BY <1>3, <2>4 DEF ReadBad
    <3>2. reply' \in [Worker -> Figures]
      BY <1>3, <3>1
    <3>3. last' \in [Worker -> Interval]
      BY <1>3, <3>1, <3>2
    <3>4. who' \in 1..NumWorkers + 3
      BY <3>1, StatusAssumption DEF Worker
    <3> QED BY <3>1, <3>2, <3>3, <3>4 DEF InProcOrder
  <2>5. CASE ReadProc \/ ReadNoId
    <3>1. /\ step = "proc" /\ UNCHANGED <<reply, last>>
          /\ \/ who' = who /\ step' = "crashed"
             \/ who' = who + 1
                /\ step' = IF who = NumWorkers + 2 THEN "idle" ELSE "proc"
      BY <2>5, ProcLength DEF ReadProc, ReadNoId
    <3>2. who \in 1..NumWorkers + 2
      BY <1>3, <3>1, StatusAssumption DEF BoundsInv, InProcOrder
    <3>3. who' \in 1..NumWorkers + 3
      BY <3>1, <3>2, StatusAssumption
    <3>4. step' = "proc" => who' <= NumWorkers + 2
      BY <3>1, <3>2, StatusAssumption
    <3> QED BY <1>3, <3>1, <3>3, <3>4 DEF InProcOrder
  <2> QED BY <2>1, <2>2, <2>3, <2>4, <2>5 DEF Handle
<1> QED
  BY <1>2, <1>1, <1>4, <1>5 DEF BoundsInv, TypeOK, IInv, TypeInv, Publishing

LEMMA BoundsStep == ASSUME IInv, BoundsInv, [Next]_vars PROVE BoundsInv'
<1> USE DEF BoundsInv, TypeOK, Publishing, InProcOrder
<1>1. ASSUME NEW t \in Thread, ThreadStarts(t) PROVE BoundsInv'
  BY <1>1 DEF ThreadStarts, writer, figures
<1>2. ASSUME NEW w \in Worker, EndInterval(w) PROVE BoundsInv'
  BY <1>2, Order DEF EndInterval, figures
<1>3. ASSUME NEW w \in Worker, Publish(w) PROVE BoundsInv'
  BY <1>3, PublishBounds
<1>4. CASE Request
  <2>1. /\ UNCHANGED <<listed, interval, at, figures, fmut, last>>
        /\ step' \in {"rate", "proc"} /\ who' = 1
        /\ reply' = [w \in Worker |-> Nothing]
    BY <1>4 DEF Request, writer
  <2>2. Nothing \in [rate : Interval, freq : Interval \X Interval, bad : Interval]
    BY StatusAssumption DEF Nothing, Interval
  <2>3. who' \in Worker /\ who' \in 1..NumWorkers + 3 /\ who' <= NumWorkers + 2
    BY <2>1, StatusAssumption DEF Worker
  <2> QED BY <2>1, <2>2, <2>3 DEF figures
<1>5. CASE Handle
  BY <1>5, HandleBounds
<1>6. CASE UNCHANGED vars
  BY <1>6 DEF vars, writer, figures
<1> QED
  BY <1>1, <1>2, <1>3, <1>4, <1>5, <1>6 DEF Next

(* Every variable of the status server keeps its type: the handler never    *)
(* looks for a worker that is not there, nor /proc for a further thread     *)
(* (http_server.cc:106-251).                                                *)
THEOREM StatusTypeCorrect == Spec => []TypeOK
<1>1. Init => BoundsInv
  BY StatusAssumption, Order
     DEF Init, BoundsInv, TypeOK, Publishing, InProcOrder, Nothing, Interval, Worker
<1>2. IInv /\ BoundsInv /\ [Next]_vars => BoundsInv'
  BY BoundsStep
<1>3. BoundsInv => TypeOK
  BY DEF BoundsInv
<1> QED
  BY <1>1, <1>2, <1>3, StatusInit, StatusStep, PTL DEF Spec
=============================================================================
