----------------------------- MODULE MCEventHub -----------------------------
(* Two dashboards, the event loop and one worker thread; the queues hold   *)
(* two frames, so that offers of both threads meet a full queue.           *)
EXTENDS EventHub
CONSTANTS c1, c2, w1
=============================================================================
