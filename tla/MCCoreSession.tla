---------------------------- MODULE MCCoreSession ----------------------------
(* CoreSession with every deadline one tick long but RECONNECT_MAX, which     *)
(* outlasts RECONNECT_GRACE.                                                  *)
EXTENDS CoreSession

ShortDuration == [t \in TimerId |-> IF t = "RECONNECT_MAX" THEN 2 ELSE 1]

(* A refused handshake reports a transient code or a persistent one. *)
Refusals == {"CRYPTO_NO_RESPONSE", "CRYPTO_HANDSHAKE_REJECTED"}

(* Everything a shell reports; and, for two peers, a lost link only. *)
AllHostEvents == {Event(k) : k \in HostEventKind}
LinkLoss == {Event("LINK_DOWN")}
=============================================================================
