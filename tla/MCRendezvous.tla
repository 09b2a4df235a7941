---------------------------- MODULE MCRendezvous ----------------------------
(* Two connections, each for either of two devices, and room for one        *)
(* binding and one attachment.                                              *)
EXTENDS Rendezvous, TLC

CONSTANTS dev1, dev2, c1, c2

\* Connections and devices are only compared.
Symmetry == Permutations(Conn) \cup Permutations(Device)
=============================================================================
