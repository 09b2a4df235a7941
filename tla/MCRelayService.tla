-------------------------- MODULE MCRelayService --------------------------
(* Small instances of RelayService for TLC.                                *)
EXTENDS RelayService, TLC

CONSTANTS a, b, t, u

\* a and b may meet on t; u is a tag a has no part in.  Only a's own protocol
\* is followed.
AlwaysT == [p \in Watched |-> t]
DeviceOf == [p \in Peer |-> IF p = a THEN "a" ELSE "b"]
Devices == {"a", "b"}

\* Keys and tokens are only compared for equality.
Symmetry == Permutations(Key \ {OtherKey}) \cup Permutations(Token)

Issued == [p \in Watched |-> Token]
=============================================================================
