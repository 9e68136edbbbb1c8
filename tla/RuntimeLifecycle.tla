--------------------------- MODULE RuntimeLifecycle ---------------------------
(***************************************************************************)
(* The life cycle as a caller of RuntimeManager sees it: what one whole    *)
(* call does to the state.  STARTING and STOPPING are passed through, and  *)
(* are left behind only by a call whose state event could not be queued.   *)
(***************************************************************************)
VARIABLE state

Init == state = "OFFLINE"

BringUp     == state = "OFFLINE" /\ state' \in {"STARTING", "READY"}
Run         == state \in {"READY", "PAUSED"} /\ state' = "RUNNING"
Suspend     == state = "RUNNING" /\ state' = "PAUSED"
TakeDown    == /\ state \in {"STARTING", "READY", "RUNNING", "PAUSED"}
               /\ state' \in {"STOPPING", "OFFLINE"}
BreakDown   == state \notin {"OFFLINE", "ERROR"} /\ state' = "ERROR"
Recover     == state \in {"ERROR", "STOPPING"} /\ state' = "OFFLINE"

Next == BringUp \/ Run \/ Suspend \/ TakeDown \/ BreakDown \/ Recover

Spec == Init /\ [][Next]_state
=============================================================================
