---------------------------- MODULE CaptivePortal ----------------------------
(***************************************************************************)
(* The captive portal and the DNS responder under it,                      *)
(* components/captive_portal/captive_portal.c and the task's life cycle in *)
(* components/capt_dns/capt_dns.c: the actions that their callers are made *)
(* of.  Neither has a lock.  A stop asks the DNS task to end and waits for *)
(* its answer, without which it does not go on.                            *)
(***************************************************************************)
VARIABLES
    isStarted,   \* _is_started
    dns,         \* the DNS task: none, up, asked to stop, ended, or the event
                 \* group that stands for it without a task
    getHandler   \* whose handler the server runs for "/*"

portalVars == <<isStarted, dns, getHandler>>

PortalTypeOK ==
    /\ isStarted \in BOOLEAN
    /\ dns \in {"none", "up", "asked", "ended", "no_task"}
    /\ getHandler \in {"app", "portal", "none"}

PortalInit == isStarted = FALSE /\ dns = "none" /\ getHandler = "app"

\* captive_portal_start: the result of xTaskCreate is not looked at, so "task"
\* may be missing though the portal has started.
StartPortal(task) ==
    /\ ~isStarted
    /\ dns' = task
    /\ getHandler' = "portal"
    /\ isStarted' = TRUE

\* It runs already, or the interface has no address for the DNS responder.
StartPortalFails == UNCHANGED portalVars

\* The responder is there, but the URL is not built, or the handler for "/*" not
\* removed or not registered; by then the application's may be gone.  The DNS task
\* is asked to end, and its answer waited for.
AbortPortal(task, gone) ==
    /\ ~isStarted
    /\ dns' = IF task = "up" THEN "asked" ELSE task
    /\ getHandler' = IF gone THEN "none" ELSE getHandler
    /\ UNCHANGED isStarted

GiveUpPortal ==
    /\ dns \in {"ended", "none"}
    /\ dns' = "none"
    /\ UNCHANGED <<isStarted, getHandler>>

\* captive_portal_stop, up to the wait of capt_dns_stop and from there.
StopPortalIdle == ~isStarted /\ UNCHANGED portalVars

AskDns ==
    /\ isStarted
    /\ dns' = IF dns = "up" THEN "asked" ELSE dns
    /\ UNCHANGED <<isStarted, getHandler>>

RestoreForgotten == getHandler' = getHandler

Restore == getHandler' = "app"

\* Another stop may have deleted the event group meanwhile.
StopPortal ==
    /\ dns \in {"ended", "none"}
    /\ dns' = "none"
    /\ Restore
    /\ isStarted' = FALSE

\* capt_dns_task sees the request, wherever it is in its loops, and ends.
DnsTaskEnds ==
    /\ dns = "asked"
    /\ dns' = "ended"
    /\ UNCHANGED <<isStarted, getHandler>>
=============================================================================
