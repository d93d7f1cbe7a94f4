----------------------------- MODULE ProvSession -----------------------------
(***************************************************************************)
(* What the provisioning manager promises its users about a session: it    *)
(* goes down, idle, starting, active, stopping, idle, and while it is      *)
(* starting or stopping one thread owns it, which nobody else disturbs.    *)
(* ProvMgr implements this; the web page manager relies on it.             *)
(***************************************************************************)
CONSTANTS
    Threads,   \* whatever calls the manager or runs on its behalf
    Nobody     \* is not one of them

VARIABLES
    phase,     \* down (no context), or the state with all active ones as one
    owner      \* the thread whose start or stop is under way

Phases == {"down", "idle", "starting", "active", "stopping"}

Init == phase = "down" /\ owner = Nobody

Enter(from, to, t) == phase = from /\ phase' = to /\ owner' = t

\* wifi_prov_mgr_init, and a deinit that has stopped the session or found none.
Create  == phase = "down" /\ phase' = "idle" /\ UNCHANGED owner
Destroy == phase \in {"idle", "stopping"} /\ phase' = "down" /\ owner' = Nobody

\* start_provisioning, which fails in the end or not.
BeginStart(t) == Enter("idle", "starting", t)
CancelStart   == Enter("starting", "idle", Nobody)
EndStart      == Enter("starting", "active", Nobody)

\* A stop, which goes on in a task of its own.
BeginStop(t) == Enter("active", "stopping", t)
HandOver(t)  == Enter("stopping", "stopping", t)
EndStop      == Enter("stopping", "idle", Nobody)

Next ==
    \/ Create \/ Destroy
    \/ CancelStart \/ EndStart \/ EndStop
    \/ \E t \in Threads : BeginStart(t) \/ BeginStop(t) \/ HandOver(t)

Spec == Init /\ [][Next]_<<phase, owner>>
=============================================================================
