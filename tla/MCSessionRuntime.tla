-------------------------- MODULE MCSessionRuntime --------------------------
(* SessionRuntime with short deadlines: every timer takes one tick but        *)
(* RECONNECT_MAX, which outlasts RECONNECT_GRACE as T_RECONNECT_MAX outlasts  *)
(* T_RECONNECT_GRACE, so the two expire apart and after a re-arm together.    *)
EXTENDS SessionRuntime

ShortDuration == [t \in TimerId |-> IF t = "RECONNECT_MAX" THEN 3
                                    ELSE IF t = "RECONNECT_GRACE" THEN 2 ELSE 1]

(* What twinvpn-core hands the machine today, by class: a transient transport *)
(* code, a persistent terminal code, and the default authentication code.     *)
TransportCodes == {"CRYPTO_NO_RESPONSE", "CRYPTO_HANDSHAKE_REJECTED"}
TerminalCodes == {"NET_NO_ROUTE"}
AuthCodes == {"AUTH_CRED_EXPIRED"}
=============================================================================
