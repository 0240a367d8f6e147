---------------------------- MODULE MCTcpServer ----------------------------
(* Model-checking instances of the TCP server. *)
EXTENDS TcpServer

CONSTANTS h1, f1, f2

Http1 == {h1}
Ftp2  == {f1, f2}
=============================================================================
