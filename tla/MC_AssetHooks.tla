--------------------------- MODULE MC_AssetHooks ---------------------------
(* Two threads that load or run Wren code. *)
EXTENDS AssetHooks
=============================================================================
