---------------------------- MODULE MCTcpExchange ----------------------------
(* Instances of TcpExchange; the sets of commands are given by the cfg files. *)
EXTENDS TcpExchange, TLC
=============================================================================
