--------------------------- MODULE MCEventStream ---------------------------
(* A log of four events, small and large, read through one queue.           *)
EXTENDS EventStream
=============================================================================
