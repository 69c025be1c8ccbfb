--------------------------- MODULE MCLiveSession ---------------------------
(* The session's loop under a few control requests of two worker threads.  *)
EXTENDS LiveSession
CONSTANTS w1, w2
=============================================================================
