---------------------------- MODULE MCHttpClient ----------------------------
(* HttpClient for TLC, with the bounds of HttpClient.cfg.                  *)
EXTENDS HttpClient
=============================================================================
