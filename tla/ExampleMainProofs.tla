-------------------------- MODULE ExampleMainProofs --------------------------
(***************************************************************************)
(* What ExampleMain keeps for every set of credentials, every bound and    *)
(* every choice of failures.                                               *)
(***************************************************************************)
EXTENDS ExampleMain, TLAPS

-----------------------------------------------------------------------------
\* Types, whatever races.
THEOREM TypeCorrect == Spec => []TypeOK
<1>1. Init => TypeOK
  <2> SUFFICES ASSUME Init PROVE TypeOK
    OBVIOUS
  <2>1. wifi \in BOOLEAN /\ connected \in BOOLEAN
    BY Zenon DEF Init
  <2> QED
    BY <2>1, ExampleCreds DEF ExampleCreds, Init, TypeOK, Sessions, Age
<1>2. TypeOK /\ [Next]_vars => TypeOK'
  <2> SUFFICES ASSUME TypeOK, [Next]_vars PROVE TypeOK'
    OBVIOUS
  <2> USE ExampleCreds DEF ExampleCreds
  <2>1. CASE CheckProvisioned
    BY <2>1 DEF TypeOK, session, CheckProvisioned, sta, Sessions, Age
  <2>2. CASE MainStartsWebprov
    BY <2>2 DEF TypeOK, session, MainStartsWebprov, StartSucceeds, StartFails, StartAborts, Refused,
       sta, Sessions, Age
  <2>3. CASE MainStartsSta
    BY <2>3 DEF TypeOK, session, MainStartsSta, Post, Sessions, Age
  <2>4. CASE MainChangesState
    BY <2>4 DEF TypeOK, session, MainChangesState, Change, change_state, sta, Sessions, Age
  <2>5. CASE MainGoesOn
    BY <2>5 DEF TypeOK, session, MainGoesOn, sta, Sessions, Age
  <2>6. CASE HandlesConnecting
    <3>1. CASE Retry
      BY <2>6, <3>1 DEF TypeOK, HandlesConnecting, Dispatch, Retry, Verdicts, Connect, Change,
         change_state, Sessions, Age
    <3>2. CASE FallBack
      <4>1. wifi' \in BOOLEAN
        BY <3>2, Zenon DEF FallBack
      <4> QED
        BY <2>6, <3>2, <4>1 DEF TypeOK, HandlesConnecting, Dispatch, FallBack, StartSucceeds,
           StartFails, StartAborts, Refused, Change, change_state, session, sta, Sessions, Age
    <3> QED BY <2>6, <3>1, <3>2 DEF HandlesConnecting
  <2>7. CASE ProvisioningDisconnected
    BY <2>7 DEF TypeOK, ProvisioningDisconnected, Dispatch, Verdicts, Connect, app, Sessions, Age
  <2>8. CASE GotIp
    <3>1. connected' \in BOOLEAN
      BY <2>8, Zenon DEF GotIp
    <3>2. wifi' \in BOOLEAN
      BY <2>8, Zenon DEF TypeOK, GotIp, Listens
    <3> QED
      BY <2>8, <3>1, <3>2 DEF TypeOK, GotIp, Dispatch, Change, change_state, sta, Sessions, Age
  <2>9. CASE ProvEnd
    BY <2>9 DEF TypeOK, ProvEnd, Dispatch, app, sta, Sessions, Age
  <2>10. CASE \E cred \in Creds : ApplyConfig(cred)
    BY <2>10 DEF TypeOK, ApplyConfig, SessionOnly, app, Sessions, Age
  <2>11. CASE ResetToReady \/ ConnectTimer
    BY <2>11 DEF TypeOK, ResetToReady, ConnectTimer, Connect, SessionOnly, app, Sessions, Age
  <2>12. CASE Shutdown \/ Stage1 \/ Stage2
    BY <2>12 DEF TypeOK, Shutdown, Stage1, Stage2, SessionOnly, app, sta, Sessions, Age
  <2>22. CASE prov_stop_task
    BY <2>22 DEF TypeOK, prov_stop_task, Post, SessionOnly, app, sta, Sessions, Age
  <2>13. CASE ClearCommand
    BY <2>13 DEF TypeOK, session, ClearCommand, app, sta, Sessions, Age
  <2>14. CASE WipeStops
    BY <2>14 DEF TypeOK, session, WipeStops, Post, app, Sessions, Age
  <2>15. CASE WipeStorage \/ WipeErases
    BY <2>15 DEF TypeOK, WipeStorage, WipeErases, app, session, Sessions, Age
  <2>16. CASE Restart
    <3>1. wifi' \in BOOLEAN /\ connected' \in BOOLEAN
      BY <2>16, Zenon DEF Restart
    <3> QED
      BY <2>16, <3>1 DEF TypeOK, Restart, Sessions, Age
  <2>17. CASE Associates
    BY <2>17 DEF TypeOK, session, Associates, FromNetwork, app, Sessions, Age
  <2>18. CASE GetsAddress
    BY <2>18 DEF TypeOK, session, GetsAddress, FromNetwork, Post, app, Sessions, Age
  <2>19. CASE Drops({"trying", "no_address", "up"})
    BY <2>19 DEF TypeOK, session, Drops, FromNetwork, Post, app, Sessions, Age
  <2>20. CASE HalfMinute
    BY <2>20 DEF TypeOK, HalfMinute, sta, Sessions, Age
  <2>21. CASE UNCHANGED vars
    BY <2>21 DEF TypeOK, session, vars, app, sta, Sessions, Age
  <2> QED
    BY <2>1, <2>2, <2>3, <2>4, <2>5, <2>6, <2>7, <2>8, <2>9, <2>10, <2>11, <2>12, <2>13,
       <2>14, <2>15, <2>16, <2>17, <2>18, <2>19, <2>20, <2>21, <2>22
       DEF Next, app_main, event_loop, page, timers, clearing, WipeRestarts, AbortRestarts,
           PowerFails
<1> QED BY <1>1, <1>2, PTL DEF Spec

-----------------------------------------------------------------------------
\* What waits in the queue, and the queue's shape: behind the news that the station
\* is down, or has just started, comes nothing but the end of a session, and that
\* comes once.
Kinds == {"sta_start", "got_ip", "disconnected", "prov_end"}

NewsWaits    == \E i \in DOMAIN events : events[i] \in News
LossWaits    == \E i \in DOMAIN events : events[i] = "disconnected"
AddressWaits == \E i \in DOMAIN events : events[i] = "got_ip"
EndWaits     == \E i \in DOMAIN events : events[i] = "prov_end"

Shape ==
    /\ \A i, j \in DOMAIN events :
          i < j /\ events[i] \in News => events[j] = "prov_end"
    /\ \A i, j \in DOMAIN events :
          events[i] = "prov_end" /\ events[j] = "prov_end" => i = j

\* An event is posted.
LEMMA Posted ==
    ASSUME TypeOK, Shape, NEW e \in Kinds, Post(e),
           NewsWaits => e = "prov_end", EndWaits => e # "prov_end"
    PROVE  /\ Shape'
           /\ NewsWaits' <=> NewsWaits \/ e \in News
           /\ LossWaits' <=> LossWaits \/ e = "disconnected"
           /\ AddressWaits' <=> AddressWaits \/ e = "got_ip"
           /\ EndWaits' <=> EndWaits \/ e = "prov_end"
<1> DEFINE n == Len(events)
<1>1. /\ n \in Nat /\ DOMAIN events = 1 .. n /\ DOMAIN events' = 1 .. n + 1
      /\ \A i \in 1 .. n : events'[i] = events[i]
      /\ events'[n + 1] = e
  BY DEF TypeOK, Post
<1>2. Shape'
  BY <1>1 DEF Shape, NewsWaits, EndWaits, News, Kinds
<1>3. \A i \in DOMAIN events' : i \in DOMAIN events \/ i = n + 1
  BY <1>1
<1>4. DOMAIN events \subseteq DOMAIN events' /\ n + 1 \in DOMAIN events'
  BY <1>1
<1>5. NewsWaits' <=> NewsWaits \/ e \in News
  BY <1>1, <1>3, <1>4 DEF NewsWaits
<1>6. /\ LossWaits' <=> LossWaits \/ e = "disconnected"
      /\ AddressWaits' <=> AddressWaits \/ e = "got_ip"
      /\ EndWaits' <=> EndWaits \/ e = "prov_end"
  BY <1>1, <1>3, <1>4 DEF LossWaits, AddressWaits, EndWaits
<1> QED
  BY <1>2, <1>5, <1>6

\* An event is taken.
LEMMA Taken ==
    ASSUME TypeOK, Shape, NEW e \in Kinds, Dispatch(e)
    PROVE  /\ Alive /\ Shape'
           /\ NewsWaits <=> NewsWaits' \/ e \in News
           /\ LossWaits <=> LossWaits' \/ e = "disconnected"
           /\ AddressWaits <=> AddressWaits' \/ e = "got_ip"
           /\ EndWaits <=> EndWaits' \/ e = "prov_end"
           /\ e \in News => ~NewsWaits' /\ ~LossWaits' /\ ~AddressWaits'
           /\ e = "prov_end" => ~EndWaits'
<1> DEFINE n == Len(events)
<1>1. /\ n \in Nat /\ n > 0 /\ DOMAIN events = 1 .. n /\ DOMAIN events' = 1 .. n - 1
      /\ \A i \in 1 .. n - 1 : events'[i] = events[i + 1]
      /\ events[1] = e
  BY DEF TypeOK, Dispatch
<1>2. \A i \in DOMAIN events' : i + 1 \in DOMAIN events /\ i + 1 > 1
  BY <1>1
<1>3. \A i \in DOMAIN events :
         i = 1 \/ (i - 1 \in DOMAIN events' /\ events'[i - 1] = events[i])
  BY <1>1
<1>4. 1 \in DOMAIN events
  BY <1>1
<1>5. Shape'
  BY <1>1, <1>2 DEF Shape
<1>6. NewsWaits <=> NewsWaits' \/ e \in News
  BY <1>1, <1>2, <1>3, <1>4 DEF NewsWaits
<1>7. /\ LossWaits <=> LossWaits' \/ e = "disconnected"
      /\ AddressWaits <=> AddressWaits' \/ e = "got_ip"
      /\ EndWaits <=> EndWaits' \/ e = "prov_end"
  BY <1>1, <1>2, <1>3, <1>4 DEF LossWaits, AddressWaits, EndWaits
<1>8. e \in News => \A i \in DOMAIN events' : events'[i] = "prov_end"
  BY <1>1, <1>2, <1>4 DEF Shape
<1>9. e \in News => ~NewsWaits' /\ ~LossWaits' /\ ~AddressWaits'
  BY <1>8 DEF NewsWaits, LossWaits, AddressWaits, News
<1>10. e = "prov_end" => ~EndWaits'
  BY <1>1, <1>2, <1>4 DEF Shape, EndWaits
<1> QED
  BY <1>5, <1>6, <1>7, <1>9, <1>10 DEF Dispatch

\* The queue stays, or is empty.
LEMMA Kept ==
    ASSUME UNCHANGED events
    PROVE  /\ Shape' <=> Shape
           /\ NewsWaits' <=> NewsWaits
           /\ LossWaits' <=> LossWaits
           /\ AddressWaits' <=> AddressWaits
           /\ EndWaits' <=> EndWaits
BY DEF Shape, NewsWaits, LossWaits, AddressWaits, EndWaits

LEMMA Emptied ==
    ASSUME events' = <<>>
    PROVE  Shape' /\ ~NewsWaits' /\ ~LossWaits' /\ ~AddressWaits' /\ ~EndWaits'
BY DEF Shape, NewsWaits, LossWaits, AddressWaits, EndWaits

LEMMA Empty ==
    ASSUME events = <<>>
    PROVE  Shape /\ ~NewsWaits /\ ~LossWaits /\ ~AddressWaits /\ ~EndWaits
BY DEF Shape, NewsWaits, LossWaits, AddressWaits, EndWaits

-----------------------------------------------------------------------------
\* The inductive invariant, part by part.

\* Until app_main has started one thing or the other nothing happens.
Booting ==
    main \in {"check", "webprov", "sta"} =>
        /\ prov = "none" /\ events = <<>> /\ link = "down"
        /\ connect = "idle" /\ shut = "idle"
        /\ wipe = "idle" /\ lost # "none" /\ state = "INIT"
        /\ wifi <=> main = "sta"

\* A session has ended when its END waits; without a session no timer of one runs.
EndMeant == EndWaits <=> prov = "ended"
NoTimers == prov \in {"none", "ending", "ended"} => connect = "idle" /\ shut = "idle"

\* The news that a station is down, or has just started, finds it no further than
\* trying.
NewsDown == NewsWaits => link \in {"down", "trying"}

\* The network is there while the link is up; settings being cleared take the
\* link down by themselves.
UpSeen ==
    /\ link = "up" => lost = "none"
    /\ lost = "none" => link = "up" \/ wipe \in {"stopped", "storage", "erased"}

\* The application's time does not pass before the network's, unless the address
\* that will stop it waits.
Timed ==
    "late_main" \notin Races =>
        /\ main = "connecting" /\ lost = "none" => AddressWaits
        /\ wifi /\ began # "none" /\ lost = "none" /\ wipe \in {"idle", "armed"}
              => AddressWaits
        /\ wifi /\ began = "passed" => lost = "passed" \/ AddressWaits

\* An address that waits is that of the link, or the loss of the link waits, too.
AddressLink == AddressWaits => link = "up" \/ LossWaits

\* While the application does not listen, a link is the session's, and so is the timer
\* that is to try one.
Managed ==
    Alive /\ ~wifi =>
        /\ shut = "idle" /\ prov # "SUCCESS"
        /\ link # "down" \/ AddressWaits \/ NewsWaits => prov = "CRED_RECV" /\ connect = "idle"
        /\ connect = "armed" => prov = "CRED_RECV"
        /\ NewsWaits => link = "down"

Heard == Alive /\ state = "CONNECTED" => wifi /\ (link = "up" \/ LossWaits)

Consistent ==
    /\ Shape /\ Booting /\ EndMeant /\ NoTimers /\ NewsDown /\ UpSeen
    /\ Timed /\ AddressLink /\ Managed /\ Heard

\* app_main.
LEMMA MainConsistent ==
    ASSUME TypeOK, TypeOK', Consistent, app_main
    PROVE  Consistent'
<1> USE DEF Consistent, Booting, EndMeant, NoTimers, NewsDown, UpSeen, Timed,
            AddressLink, Managed, Heard, Alive, Aborted
<1>1. CASE CheckProvisioned
  BY <1>1, Kept DEF TypeOK, session, CheckProvisioned, sta
<1>2. CASE MainStartsWebprov
  BY <1>2, Kept DEF TypeOK, MainStartsWebprov, StartSucceeds, StartFails,
     StartAborts, Refused, session, sta
<1>3. CASE MainStartsSta
  <2>1. ~NewsWaits /\ ~EndWaits /\ ~AddressWaits
    BY <1>3, Empty DEF MainStartsSta
  <2>2. /\ Shape'
        /\ NewsWaits' /\ ~EndWaits' /\ ~AddressWaits' /\ ~LossWaits'
    BY <1>3, <2>1, Posted, Empty DEF MainStartsSta, Kinds, News
  <2>3. /\ wifi /\ wifi' /\ main' = "connecting" /\ link' = "down"
        /\ state' = "INIT" /\ lost' # "none"
    BY <1>3 DEF MainStartsSta
  <2>4. Booting' /\ EndMeant' /\ NoTimers' /\ NewsDown' /\ AddressLink' /\ UpSeen'
    BY <1>3, <2>2, <2>3 DEF TypeOK, MainStartsSta, session
  <2>5. Timed' /\ Managed' /\ Heard'
    BY <1>3, <2>2, <2>3 DEF TypeOK, MainStartsSta, session
  <2> QED
    BY <2>2, <2>4, <2>5
<1>4. CASE MainChangesState
  BY <1>4, Kept DEF TypeOK, MainChangesState, Change, change_state, session, sta
<1>5. CASE MainGoesOn
  BY <1>5, Kept DEF TypeOK, session, MainGoesOn, sta
<1> QED
  BY <1>1, <1>2, <1>3, <1>4, <1>5 DEF app_main

\* The event loop's task.
LEMMA LoopConsistent ==
    ASSUME TypeOK, TypeOK', Consistent, event_loop
    PROVE  Consistent'
<1> USE DEF Consistent, Booting, EndMeant, NoTimers, NewsDown, UpSeen, Timed,
            AddressLink, Managed, Heard, Aborted
<1>1. CASE HandlesConnecting
  <2>1. PICK e \in News : Dispatch(e)
    BY <1>1 DEF HandlesConnecting, News
  <2>2. /\ wifi /\ link \in {"down", "trying"} /\ main \notin {"check", "webprov", "sta"}
        /\ Alive /\ Shape' /\ ~NewsWaits' /\ ~LossWaits' /\ ~AddressWaits'
        /\ NewsWaits /\ ~AddressWaits
        /\ EndWaits' <=> EndWaits
    BY <1>1, <2>1, Taken, Empty DEF HandlesConnecting, News, Kinds
  <2>3. CASE Retry
    <3>1. /\ began' # "passed" /\ state' = "CONNECTING"
          /\ UNCHANGED <<main, wifi, connect, shut, wipe, lost>>
          /\ link' \in {"down", "trying"}
      BY <1>1, <2>2, <2>3 DEF TypeOK, HandlesConnecting, Retry, TimedOut, Connect,
         Change, change_state
    <3>2. \A p \in {"none", "ending", "ended"} : prov' = p <=> prov = p
      BY <2>3 DEF Retry, Verdicts
    <3>3. Booting' /\ EndMeant' /\ NoTimers' /\ NewsDown' /\ AddressLink'
      BY <2>2, <3>1, <3>2
    <3>4. UpSeen' /\ Managed' /\ Heard'
      BY <2>2, <3>1 DEF Alive
    <3>5. Timed'
      BY <2>2, <3>1
    <3> QED
      BY <2>2, <3>3, <3>4, <3>5
  <2>4. CASE FallBack
    <3>1. /\ UNCHANGED <<connect, shut, wipe, lost>>
          /\ wifi' = FALSE
          /\ link' \in {"down", "trying"}
      BY <1>1, <2>2, <2>4 DEF HandlesConnecting, FallBack, StartSucceeds, StartFails,
         StartAborts, session, sta
    <3>2. main' \notin {"check", "webprov", "sta"} /\ (main' = "connecting" => main = "connecting")
      BY <2>2, <2>4 DEF FallBack, StartFails, StartAborts
    <3>3. \/ prov = "none" /\ prov' = "STARTED" /\ link' = "down" /\ state' = "PROVISIONING"
          \/ prov' = prov /\ main' \in {"initialised", "start_failed"}
      BY <2>4 DEF FallBack, StartSucceeds, StartFails, StartAborts, Refused, Change,
         change_state, session
    <3>4. Booting' /\ EndMeant' /\ NoTimers' /\ NewsDown' /\ AddressLink' /\ UpSeen'
      BY <2>2, <3>1, <3>2, <3>3
    <3>5. Timed'
      BY <2>2, <3>1, <3>2
    <3>6. Managed' /\ Heard'
      BY <2>2, <3>1, <3>3 DEF Alive
    <3> QED
      BY <2>2, <3>4, <3>5, <3>6
  <2> QED
    BY <1>1, <2>3, <2>4 DEF HandlesConnecting
<1>2. CASE ProvisioningDisconnected
  <2>1. Dispatch("disconnected")
    BY <1>2 DEF ProvisioningDisconnected
  <2>2. /\ ~wifi /\ main \notin {"check", "webprov", "sta"} /\ NewsWaits
        /\ Alive /\ Shape' /\ ~NewsWaits' /\ ~LossWaits' /\ ~AddressWaits'
        /\ ~AddressWaits
        /\ EndWaits' <=> EndWaits
    BY <1>2, <2>1, Taken, Empty DEF ProvisioningDisconnected, News, Kinds
  <2>3. link = "down" /\ prov = "CRED_RECV" /\ connect = "idle" /\ shut = "idle"
    BY <2>2
  <2> QED
    <3>1. /\ UNCHANGED <<main, state, began, wifi, connect, shut, wipe, lost>>
          /\ link' \in {"down", "trying"}
          /\ prov' \in {"CRED_RECV", "FAIL"}
          /\ link' # "down" => prov' = "CRED_RECV"
      BY <1>2, <2>3 DEF ProvisioningDisconnected, Verdicts, Connect, app
    <3>2. Booting' /\ EndMeant' /\ NoTimers' /\ NewsDown' /\ AddressLink'
      BY <2>2, <2>3, <3>1
    <3>3. UpSeen' /\ Managed' /\ Heard'
      BY <2>2, <2>3, <3>1 DEF Alive
    <3>4. Timed'
      BY <2>2, <2>3, <3>1
    <3> QED
      BY <2>2, <3>2, <3>3, <3>4
<1>3. CASE GotIp
  <2>1. Dispatch("got_ip")
    BY <1>3 DEF GotIp
  <2>2. /\ AddressWaits /\ main \notin {"check", "webprov", "sta"}
        /\ Alive /\ Shape'
        /\ NewsWaits' <=> NewsWaits
        /\ LossWaits' <=> LossWaits
        /\ EndWaits' <=> EndWaits
        /\ AddressWaits' => AddressWaits
    BY <2>1, Taken, Empty DEF News, Kinds
  <2>3. began' = "none" /\ state' = "CONNECTED"
    BY <1>3 DEF TypeOK, GotIp, Change, change_state
  <2>4. \/ prov \in {"CRED_RECV", "SUCCESS", "FAIL"} /\ prov' = "SUCCESS" /\ wifi'
        \/ prov \notin {"CRED_RECV", "SUCCESS", "FAIL"} /\ prov' = prov /\ wifi' = wifi
    BY <1>3, Zenon DEF GotIp, Listens
  <2>5. wifi'
    BY <2>2, <2>4
  <2> QED
    BY <1>3, <2>2, <2>3, <2>4, <2>5 DEF TypeOK, GotIp, sta, Alive
<1>4. CASE ProvEnd
  <2>1. Dispatch("prov_end")
    BY <1>4 DEF ProvEnd
  <2>2. /\ EndWaits /\ ~EndWaits' /\ Alive /\ Shape'
        /\ NewsWaits' <=> NewsWaits
        /\ LossWaits' <=> LossWaits
        /\ AddressWaits' <=> AddressWaits
        /\ main \notin {"check", "webprov", "sta"}
    BY <2>1, Taken, Empty DEF News, Kinds
  <2> QED
    BY <1>4, <2>2 DEF TypeOK, ProvEnd, app, sta, Alive
<1> QED
  BY <1>1, <1>2, <1>3, <1>4 DEF event_loop

\* The session.
LEMMA SessionConsistent ==
    ASSUME TypeOK, Consistent, page \/ ResetToReady \/ timers \/ prov_stop_task
    PROVE  Consistent'
<1> USE DEF Consistent, Booting, EndMeant, NoTimers, NewsDown, UpSeen, Timed,
            AddressLink, Managed, Heard, Alive, Aborted
<1>1. CASE \E cred \in Creds : ApplyConfig(cred)
  <2>1. PICK cred \in Creds : ApplyConfig(cred)
    BY <1>1
  <2> QED
    BY <2>1, Kept DEF TypeOK, ApplyConfig, SessionOnly, app
<1>2. CASE ResetToReady
  BY <1>2, Kept DEF ResetToReady, TimerTask, SessionOnly, app
<1>3. CASE ConnectTimer
  BY <1>3, Kept DEF ConnectTimer, TimerTask, Connect, SessionOnly, app
<1>4. CASE Shutdown
  BY <1>4, Kept DEF Shutdown, SessionOnly, app, sta
<1>5. CASE Stage1 \/ Stage2
  BY <1>5, Kept DEF Stage1, Stage2, TimerTask, SessionOnly, app, sta
<1>6. CASE prov_stop_task
  <2>1. /\ Shape'
        /\ NewsWaits' <=> NewsWaits
        /\ LossWaits' <=> LossWaits
        /\ AddressWaits' <=> AddressWaits
        /\ EndWaits'
    BY <1>6, Posted DEF prov_stop_task, Kinds, News
  <2> QED
    BY <1>6, <2>1 DEF prov_stop_task, SessionOnly, app, sta
<1> QED
  BY <1>1, <1>2, <1>3, <1>4, <1>5, <1>6 DEF page, timers

\* The clearing of the settings, and restarts.
LEMMA WipeConsistent ==
    ASSUME TypeOK, Consistent,
           ClearCommand \/ WipeStops \/ WipeStorage \/ WipeErases \/ Restart
    PROVE  Consistent'
<1> USE DEF Consistent, Booting, EndMeant, NoTimers, NewsDown, UpSeen, Timed,
            AddressLink, Managed, Heard, Alive, Aborted
<1>1. CASE ClearCommand
  BY <1>1, Kept DEF TypeOK, session, ClearCommand, app, sta
<1>2. CASE WipeStops
  <2>1. CASE link = "up"
    <3>1. /\ Shape' /\ LossWaits'
          /\ AddressWaits' <=> AddressWaits
          /\ EndWaits' <=> EndWaits
      BY <1>2, <2>1, Posted DEF WipeStops, Kinds, News
    <3> QED
      BY <1>2, <2>1, <3>1 DEF WipeStops, session, app
  <2>2. CASE link # "up"
    BY <1>2, <2>2, Kept DEF WipeStops, session, app
  <2> QED
    BY <2>1, <2>2
<1>3. CASE WipeStorage \/ WipeErases
  BY <1>3, Kept DEF WipeStorage, WipeErases, session, app
<1>4. CASE Restart
  BY <1>4, Emptied DEF Restart
<1> QED
  BY <1>1, <1>2, <1>3, <1>4

\* The network and time.
LEMMA NetworkConsistent ==
    ASSUME "slow_loop" \notin Races, TypeOK, Consistent,
           Associates \/ GetsAddress \/ Drops({"trying", "no_address", "up"}) \/ HalfMinute
    PROVE  Consistent'
<1> USE DEF Consistent, Booting, EndMeant, NoTimers, NewsDown, UpSeen, Timed,
            AddressLink, Managed, Heard, Alive, Aborted
<1>0. ASSUME FromNetwork PROVE ~NewsWaits
  BY <1>0 DEF FromNetwork, NewsWaits
<1>1. CASE Associates
  BY <1>0, <1>1, Kept DEF Associates, FromNetwork, session, app
<1>2. CASE GetsAddress
  <2>1. /\ Shape' /\ ~NewsWaits'
        /\ LossWaits' <=> LossWaits
        /\ AddressWaits'
        /\ EndWaits' <=> EndWaits
    BY <1>0, <1>2, Posted DEF GetsAddress, Kinds, News
  <2> QED
    BY <1>0, <1>2, <2>1 DEF GetsAddress, FromNetwork, session, app
<1>3. CASE Drops({"trying", "no_address", "up"})
  <2>1. /\ Shape' /\ LossWaits'
        /\ AddressWaits' <=> AddressWaits
        /\ EndWaits' <=> EndWaits
    BY <1>0, <1>3, Posted DEF Drops, Kinds, News
  <2> QED
    BY <1>0, <1>3, <2>1 DEF TypeOK, Age, Drops, FromNetwork, session, app
<1>4. CASE HalfMinute
  BY <1>4, Kept, Empty DEF TypeOK, Age, HalfMinute, sta
<1> QED
  BY <1>1, <1>2, <1>3, <1>4

LEMMA StepConsistent ==
    ASSUME "slow_loop" \notin Races, TypeOK, TypeOK', Consistent, [Next]_vars
    PROVE  Consistent'
<1>1. CASE app_main
  BY <1>1, MainConsistent
<1>2. CASE event_loop
  BY <1>2, LoopConsistent
<1>3. CASE UNCHANGED vars
  BY <1>3, Kept DEF vars, app, session, sta, Consistent, Booting, EndMeant, NoTimers,
     NewsDown, UpSeen, Timed, AddressLink, Managed, Heard, Alive, Aborted
<1> QED
  BY <1>1, <1>2, <1>3, SessionConsistent, WipeConsistent, NetworkConsistent
     DEF Next, clearing, WipeRestarts, AbortRestarts, PowerFails

\* The invariant holds in every state, if the event loop handles the end of one
\* connection before the next attempt ends.
THEOREM ConsistentAlways ==
    ASSUME "slow_loop" \notin Races
    PROVE  Spec => [](TypeOK /\ Consistent)
<1>1. Init => Consistent
  <2> SUFFICES ASSUME Init PROVE Consistent
    OBVIOUS
  <2> QED
    BY Empty DEF Init, Consistent, Booting, EndMeant, NoTimers, NewsDown, UpSeen, Timed,
       AddressLink, Managed, Heard
<1>2. TypeOK /\ TypeOK' /\ Consistent /\ [Next]_vars => Consistent'
  BY StepConsistent
<1> QED
  BY <1>1, <1>2, TypeCorrect, PTL DEF Spec

-----------------------------------------------------------------------------
\* A device that takes itself to be connected is, or hears that it is no more, also
\* when app_main is late (event_handler, and its registration before the address is
\* heard), if the event loop is not slower than two attempts to connect.
THEOREM LossIsHeard ==
    ASSUME "slow_loop" \notin Races
    PROVE  Spec => []LossHeard
<1>1. TypeOK /\ Consistent => LossHeard
  BY DEF Consistent, Heard, LossWaits, LossHeard
<1> QED
  BY <1>1, ConsistentAlways, PTL

\* The device gives up a network, and offers provisioning, only when the network has
\* been away for 30 s (handle_connecting_state), if in addition app_main notes that it
\* connects before the address is there.
THEOREM FallbackIsEarned ==
    ASSUME Races \cap {"late_main", "slow_loop"} = {}
    PROVE  Spec => FallbackEarned
<1>1. TypeOK /\ Consistent /\ [Next]_vars
        => [wifi /\ ~wifi' /\ boots' = boots => lost = "passed"]_vars
  <2> SUFFICES ASSUME TypeOK, Consistent, Next, wifi, ~wifi', boots' = boots
               PROVE  lost = "passed"
    OBVIOUS
  <2>1. ~Restart
    BY DEF Restart, TypeOK
  <2>2. ~app_main
    BY DEF app_main, CheckProvisioned, MainStartsWebprov, MainStartsSta,
       MainChangesState, MainGoesOn, Consistent, Booting
  <2>3. ~ProvisioningDisconnected /\ ~GotIp /\ ~ProvEnd
    BY DEF ProvisioningDisconnected, GotIp, Listens, ProvEnd, app
  <2>4. ~page /\ ~ResetToReady /\ ~timers /\ ~prov_stop_task
    BY DEF page, ApplyConfig, ResetToReady, timers, ConnectTimer, Shutdown, Stage1, Stage2,
       prov_stop_task, SessionOnly, app
  <2>5. ~(ClearCommand \/ WipeStops \/ WipeStorage \/ WipeErases)
    BY DEF ClearCommand, WipeStops, WipeStorage, WipeErases, app
  <2>6. ~(Associates \/ GetsAddress \/ Drops({"trying", "no_address", "up"}) \/ HalfMinute)
    BY DEF Associates, GetsAddress, Drops, HalfMinute, FromNetwork, app
  <2>7. HandlesConnecting
    BY <2>1, <2>2, <2>3, <2>4, <2>5, <2>6
       DEF Next, event_loop, clearing, WipeRestarts, AbortRestarts, PowerFails
  <2>8. FallBack
    BY <2>7 DEF HandlesConnecting, Retry
  <2>9. began = "passed"
    BY <2>8 DEF FallBack, TimedOut, change_state
  <2>10. PICK e \in News : Dispatch(e)
    BY <2>7 DEF HandlesConnecting, News
  <2>11. ~AddressWaits
    BY <2>10, Taken DEF Consistent, News, Kinds
  <2> QED
    BY <2>9, <2>11 DEF Consistent, Timed
<1>2. Spec => [](TypeOK /\ Consistent)
  BY ConsistentAlways
<1> QED
  BY <1>1, <1>2, PTL DEF Spec, FallbackEarned
=============================================================================
