---------------------------- MODULE AntiReplay ----------------------------
(* The windows of ReplayWindow, each receiving the same counters in an     *)
(* order nobody controls, beside the history of what it took.              *)
EXTENDS ReplayWindow

VARIABLES
    engine, inner, leg,             \* the three windows
    engineTook, innerTook, legTook  \* what each has taken so far

windows == <<engine, inner, leg, engineTook, innerTook, legTook>>

Received == 0 .. RejectAfter

ReplayTypeOK ==
    /\ engine \in [highest : Received, map : Bitmap]
    /\ inner \in [highest : Received, map : Bitmap, started : BOOLEAN]
    /\ leg \in [highest : Received, behind : SUBSET (0 .. LegWidth - 1), seen : BOOLEAN]
    /\ {engineTook, innerTook, legTook} \subseteq SUBSET Received

ReplayInit ==
    /\ engine = NewEngineWindow /\ engineTook = {}
    /\ inner = NewKeysWindow /\ innerTook = {}
    /\ leg = NewLegWindow /\ legTook = {}

\* accept: a counter the window takes is recorded, any other changes nothing.
Receive(c) ==
    /\ engine' = IF EngineTakes(engine, c) THEN EngineTaken(engine, c) ELSE engine
    /\ engineTook' = IF EngineTakes(engine, c) THEN engineTook \cup {c} ELSE engineTook
    /\ inner' = IF KeysTake(inner, c) THEN KeysTaken(inner, c) ELSE inner
    /\ innerTook' = IF KeysTake(inner, c) THEN innerTook \cup {c} ELSE innerTook
    /\ leg' = IF LegTakes(leg, c) THEN LegTaken(leg, c) ELSE leg
    /\ legTook' = IF LegTakes(leg, c) THEN legTook \cup {c} ELSE legTook

ReplayNext == \E c \in Received : Receive(c)

ReplaySpec == ReplayInit /\ [][ReplayNext]_windows

----------------------------------------------------------------------------
(* Properties.                                                             *)

\* New to a history, and less than a width behind its newest.
Fresh(took, c, width) == c \notin took /\ \A h \in took : c > h - width

\* The engine's window refuses what it took, what is a whole window old and
\* what reaches the ceiling, and nothing else, at every word and bit boundary
\* (tunnel replay.rs would_accept, accept, shift).
EngineRemembers ==
    \A c \in Received :
        EngineTakes(engine, c) <=> c < RejectAfter /\ Fresh(engineTook, c, Window)

\* The keys' own window, which moves its words another way, agrees with the
\* engine's on every counter: a repeated record is answered as a replay and
\* never as a failed authentication (engine.rs open, noise.rs open, crypto
\* replay.rs).
ReplayIsNamed ==
    /\ innerTook = engineTook
    /\ \A c \in Received : EngineTakes(engine, c) <=> KeysTake(inner, c)

\* A leg's window refuses exactly what it took and what is its width old
\* (relay frame.rs accept, relay-client frame.rs accept).
LegRemembers ==
    \A c \in Received : LegTakes(leg, c) <=> Fresh(legTook, c, LegWidth)
=============================================================================
