-------------------------- MODULE MCTcpConnection --------------------------
(* TcpConnection with a peer that sends a few messages and short files.    *)
EXTENDS TcpConnection
=============================================================================
