--------------------------- MODULE MCHttpServer3 ---------------------------
(* HttpServer3 on a small instance.                                        *)
EXTENDS HttpServer3, TLC

\* Sockets, and objects, are interchangeable in every safety property.
MCSymmetry == Permutations(Sockets) \cup Permutations(Objects)
=============================================================================
