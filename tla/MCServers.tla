------------------------------ MODULE MCServers ------------------------------
(* A finite instance of Servers for TLC. *)
EXTENDS Servers

\* Two lines, one that is shorter, empty lines, text behind a NUL, nothing.
MCDatagram == {<<"a", "nl", "b">>, <<"b">>, <<"nl", "nl">>, <<"a", "nul", "b">>, <<>>}

\* A line of one character, and one that fills the buffer and does not end.
MCStream == {<<"text", "newline">>, <<"text", "text", "text">>}
=============================================================================
