-------------------------- MODULE MC_HttpRequests --------------------------
(* Finite instances of dohttpreq: two requests whose transfers overlap. *)
EXTENDS HttpRequests
=============================================================================
