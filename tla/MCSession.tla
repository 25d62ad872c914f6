----------------------------- MODULE MCSession -----------------------------
(* Threads that share one scoped session: enough for a request in progress,*)
(* a request waiting for the slot and a close() at the same time.          *)
EXTENDS SessionTransport
=============================================================================
