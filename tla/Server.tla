------------------------------- MODULE Server -------------------------------
(***************************************************************************)
(* The base class of the socket servers: a server is of one kind, and its  *)
(* destructor raises done and joins the threads, which look at done in     *)
(* their own time.                                                         *)
(***************************************************************************)
VARIABLES
  kind,   \* which subclass ServerFactory made
  done    \* Server::done

server == <<kind, done>>

ServerInit == kind \in {"udp", "tcp"} /\ done = FALSE

Stop == ~done /\ done' = TRUE /\ UNCHANGED kind
=============================================================================
