---------------------------- MODULE MCHttpServer ----------------------------
(* HttpServer for TLC: transports are interchangeable. *)
EXTENDS HttpServer, TLC

TransportSymmetry == Permutations(Transport)
=============================================================================
