----------------------------- MODULE PacketFeed -----------------------------
(***************************************************************************)
(* What a packet server promises its consumer: each packet it receives is  *)
(* either handed over whole, line by line and after the packets received   *)
(* before it by the same thread, or, when the thread ends, not at all.     *)
(***************************************************************************)
EXTENDS Sequences

CONSTANTS Thread,
          Packet    \* sequences of lines

VARIABLES inbox,    \* inbox[t]: the packets t has not handled yet
          handed    \* handed[t]: the lines t has handed over

vars == <<inbox, handed>>

Init == /\ inbox = [t \in Thread |-> <<>>]
        /\ handed = [t \in Thread |-> <<>>]

Arrive(t, p) == /\ inbox' = [inbox EXCEPT ![t] = Append(@, p)]
                /\ UNCHANGED handed

Handle(t) == /\ inbox[t] # <<>>
             /\ handed' = [handed EXCEPT ![t] = @ \o Head(inbox[t])]
             /\ inbox' = [inbox EXCEPT ![t] = Tail(@)]

Quit(t) == /\ inbox' = [inbox EXCEPT ![t] = <<>>]
           /\ UNCHANGED handed

Next == \E t \in Thread : \/ \E p \in Packet : Arrive(t, p)
                          \/ Handle(t)
                          \/ Quit(t)

Spec == Init /\ [][Next]_vars
=============================================================================
