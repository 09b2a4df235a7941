-------------------------- MODULE SessionLifecycle --------------------------
(***************************************************************************)
(* What a Session promises its user, with the table abstracted away: six   *)
(* phases and the ways from one to another.  Traffic is carried only after *)
(* an establishment or a recovery; a Session that carries traffic never    *)
(* fails for good without first trying to recover; one that holds traffic  *)
(* back never turns into a failure nor starts over.  A new process rests,  *)
(* or resumes in recovery, or stays failed: it never carries by itself.    *)
(* SessionRuntime is shown to implement this.                              *)
(***************************************************************************)
VARIABLES
    phase,
    restored    \* whether the process found the Session rather than moved it

vars == <<phase, restored>>

Phase == {"RESTING", "ESTABLISHING", "CARRYING", "RECOVERING", "HOLDING", "TERMINAL"}

Init == phase = "RESTING" /\ restored = FALSE

Move(from, to) == phase \in from /\ phase' = to /\ restored' = FALSE

Request   == Move({"RESTING", "TERMINAL"}, "ESTABLISHING")
Progress  == Move({"ESTABLISHING"}, "ESTABLISHING")
Refuse    == Move({"RESTING", "ESTABLISHING"}, "TERMINAL")
Succeed   == Move({"ESTABLISHING", "RECOVERING"}, "CARRYING")
Shift     == Move({"CARRYING"}, "CARRYING")
StartOver == Move({"RECOVERING"}, "ESTABLISHING")
Exhaust   == Move({"RECOVERING"}, "TERMINAL")
Release   == Move({"HOLDING"}, "CARRYING")

(* A loss, a park or a give-up; a violation; a disconnect: from anywhere. *)
Recover == Move(Phase, "RECOVERING")
Hold    == Move(Phase, "HOLDING")
Close   == Move(Phase, "RESTING")

Restart == phase' \in {"RESTING", "RECOVERING", "TERMINAL"} /\ restored' = TRUE

Next == \/ Request \/ Progress \/ Refuse \/ Succeed \/ Shift \/ StartOver
        \/ Exhaust \/ Release \/ Recover \/ Hold \/ Close \/ Restart

Spec == Init /\ [][Next]_vars
=============================================================================
