--------------------------- MODULE MCHttpServer1 ---------------------------
(* HttpServer1 on a small instance.                                        *)
EXTENDS HttpServer1
=============================================================================
