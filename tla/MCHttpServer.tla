---------------------------- MODULE MCHttpServer ----------------------------
(***************************************************************************)
(* A small instance of HttpServer for TLC.                                 *)
(***************************************************************************)
EXTENDS HttpServer

=============================================================================
