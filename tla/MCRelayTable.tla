--------------------------- MODULE MCRelayTable ---------------------------
(* Small instances of RelayTable for TLC.                                  *)
EXTENDS RelayTable, TLC

CONSTANTS a, b, c

\* Every socket has a subject of its own; a and c share a prefix.
Self == [p \in Peer |-> p]
Street == [p \in Peer |-> IF p = b THEN "north" ELSE "south"]
Streets == {"north", "south"}

\* Tags are only compared for equality, and so are a and c.
TableSymmetry == Permutations(Tag) \cup Permutations({a, c})
=============================================================================
