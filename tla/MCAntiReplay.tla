--------------------------- MODULE MCAntiReplay ---------------------------
(* Windows of two and three words for TLC.                                 *)
EXTENDS AntiReplay
=============================================================================
