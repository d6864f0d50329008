----------------------------- MODULE MC_AsyncIO -----------------------------
(* Finite instances of the asynchronous I/O pool.  One worker more than    *)
(* MAX_THREADS exists, so that the bound is the counter's doing.           *)
EXTENDS AsyncIO
=============================================================================
