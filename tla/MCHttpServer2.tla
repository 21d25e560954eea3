--------------------------- MODULE MCHttpServer2 ---------------------------
(* HttpServer2 on a small instance.                                        *)
EXTENDS HttpServer2
=============================================================================
