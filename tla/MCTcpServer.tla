---------------------------- MODULE MCTcpServer ----------------------------
(***************************************************************************)
(* Three clients, the third of which ends the server, and a deque of one,  *)
(* so that producers wait for the consumer; for liveness two clients and a *)
(* deque that holds both requests.                                         *)
(***************************************************************************)
EXTENDS TcpServer, TLC

Symmetry == Permutations(Clients)
=============================================================================
