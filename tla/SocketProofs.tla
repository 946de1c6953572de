---------------------------- MODULE SocketProofs ----------------------------
(***************************************************************************)
(* Safety of the socket adapter and the health monitor, for any number of  *)
(* versions, retries and events.                                           *)
(*                                                                         *)
(* NeverDeaf is not inductive alone.  A backoff sleep or a probe that ends *)
(* after the shutdown does nothing, so it must not be what NeverDeaf rests *)
(* on by then: Disconnected says that after disconnect() the adapter calls *)
(* itself open only for a socket that is there, and connecting never.      *)
(* HealthInSync needs that the first connect finds the adapter closed.     *)
(* OneOfEach and LogoutIsFinal need that each attempt is begun once and     *)
(* goes on in one way at a time (IdsInv, OneInv).                          *)
(***************************************************************************)
EXTENDS Socket, TLAPS, FiniteSetTheorems

Ending == \E s \in closing : s.id = attempt

Disconnected ==
  intentional => /\ stopped
                 /\ watchdog = 0
                 /\ state # "connecting"
                 /\ state = "open" => Connected \/ Ending

FirstConnect ==
  attempt = 0 => /\ state = "closed"
                 /\ loading = {} /\ live = {} /\ closing = {}
                 /\ sleeping = 0 /\ probing = 0

SafeInv == NeverDeaf /\ HealthInSync /\ Disconnected /\ FirstConnect

IInv == TypeOK /\ SafeInv

-----------------------------------------------------------------------------
(* The monitor is stopped by the shutdown alone.                           *)
LEMMA OnlyShutdownStops ==
  /\ \A s : SetState(s) => stopped' = stopped
  /\ ScheduleRetry => stopped' = stopped
  /\ \A b : StartSocket(b) => stopped' = stopped
<1>1. \A s : SetState(s) => stopped' = stopped
  BY DEF SetState, Health, heard, health
<1>2. ScheduleRetry => stopped' = stopped
  BY <1>1 DEF ScheduleRetry, heard, health
<1>3. \A b : StartSocket(b) => stopped' = stopped
  BY <1>1 DEF StartSocket
<1> QED BY <1>1, <1>2, <1>3

(* Setting the state keeps the types of the listeners, and leaves the      *)
(* health monitor in sync with the adapter it was in sync with.            *)
LEMMA SetStateIsHeard ==
  ASSUME TypeOK, HealthInSync, FirstConnect,
         NEW s \in States, SetState(s),
         stopped' = stopped,
         attempt > 0 \/ s = "connecting"
  PROVE  /\ state' = s
         /\ grace' \in BOOLEAN /\ alerted' \in BOOLEAN
         /\ main' \in {"starting", "up", "exited"}
         /\ ~stopped => (state' = "open" <=> ~(grace' \/ alerted'))
<1>1. CASE s = state
  BY <1>1 DEF TypeOK, HealthInSync, FirstConnect, SetState, heard, health, States
<1>2. CASE s # state
  <2>1. WaitForOpen(s)  BY <1>2 DEF SetState
  <2>2. main' \in {"starting", "up", "exited"}
    BY <2>1 DEF WaitForOpen, TypeOK
  <2>3. CASE stopped
    BY <1>2, <2>2, <2>3 DEF SetState, health, TypeOK
  <2>4. CASE ~stopped
    BY <1>2, <2>2, <2>4 DEF SetState, Health, TypeOK, States
  <2> QED BY <2>3, <2>4
<1> QED BY <1>1, <1>2

(* Giving up or sleeping: scheduleRetry always leaves one or the other.    *)
LEMMA RetrySleepsOrGivesUp ==
  ASSUME TypeOK, HealthInSync, FirstConnect, ScheduleRetry,
         stopped' = stopped, attempt > 0
  PROVE  /\ state' \in States /\ retries' \in Nat /\ sleeping' \in Nat
         /\ grace' \in BOOLEAN /\ alerted' \in BOOLEAN
         /\ main' \in {"starting", "up", "exited"}
         /\ ~stopped => (state' = "open" <=> ~(grace' \/ alerted'))
         /\ state' = "closed" \/ sleeping' > 0
<1>1. CASE retries' > MaxAttempts
  <2>1. SetState("closed") /\ sleeping' = sleeping /\ retries' = retries + 1
    BY <1>1 DEF ScheduleRetry
  <2> QED BY <2>1, SetStateIsHeard DEF TypeOK, States
<1>2. CASE ~(retries' > MaxAttempts)
  BY <1>2 DEF ScheduleRetry, TypeOK, HealthInSync, heard, health
<1> QED BY <1>1, <1>2

(* A new attempt is connecting, watched and heard of.                      *)
LEMMA StartSocketIsWatched ==
  ASSUME TypeOK, HealthInSync, FirstConnect, NEW b \in BOOLEAN, StartSocket(b),
         stopped' = stopped
  PROVE  /\ state' = "connecting"
         /\ attempt' \in Nat /\ attempt' > 0 /\ watchdog' = attempt'
         /\ loading' \subseteq Connects
         /\ grace' \in BOOLEAN /\ alerted' \in BOOLEAN
         /\ main' \in {"starting", "up", "exited"}
         /\ ~stopped => (state' = "open" <=> ~(grace' \/ alerted'))
<1>1. SetState("connecting") /\ attempt' = attempt + 1 /\ watchdog' = attempt + 1
  BY DEF StartSocket
<1>2. loading' \subseteq Connects
  BY DEF StartSocket, TypeOK, Connects
<1> QED BY <1>1, <1>2, SetStateIsHeard DEF TypeOK, States
-----------------------------------------------------------------------------
(* What the two commonest ends of a handler re-establish.                  *)

(* A handler that starts a new attempt while nobody has disconnected.      *)
LEMMA StartSocketIsSafe ==
  ASSUME TypeOK, SafeInv, NEW b \in BOOLEAN, StartSocket(b), ~intentional,
         UNCHANGED <<stopped, intentional>>
  PROVE  SafeInv'
<1>1. /\ state' = "connecting"
      /\ attempt' \in Nat /\ attempt' > 0 /\ watchdog' = attempt'
      /\ ~stopped => (state' = "open" <=> ~(grace' \/ alerted'))
  BY StartSocketIsWatched DEF SafeInv
<1>2. NeverDeaf'  BY <1>1 DEF NeverDeaf, Scheduled
<1>3. HealthInSync'  BY <1>1 DEF HealthInSync
<1>4. Disconnected' /\ FirstConnect'  BY <1>1 DEF Disconnected, FirstConnect
<1> QED BY <1>2, <1>3, <1>4 DEF SafeInv

(* A handler that retries or gives up while nobody has disconnected.       *)
LEMMA ScheduleRetryIsSafe ==
  ASSUME TypeOK, SafeInv, ScheduleRetry, ~intentional, attempt > 0,
         attempt' >= attempt,
         UNCHANGED <<stopped, intentional>>
  PROVE  SafeInv'
<1>1. /\ state' \in States /\ sleeping' \in Nat
      /\ ~stopped => (state' = "open" <=> ~(grace' \/ alerted'))
      /\ state' = "closed" \/ sleeping' > 0
  BY RetrySleepsOrGivesUp DEF SafeInv
<1>2. NeverDeaf'  BY <1>1 DEF NeverDeaf, Scheduled, States
<1>3. HealthInSync'  BY <1>1 DEF HealthInSync
<1>4. Disconnected' /\ FirstConnect'  BY DEF Disconnected, FirstConnect, TypeOK
<1> QED BY <1>2, <1>3, <1>4 DEF SafeInv

-----------------------------------------------------------------------------
(* Every step keeps the invariant.                                         *)

LEMMA NextKeepsIInv == IInv /\ [Next]_vars => IInv'
<1> SUFFICES ASSUME TypeOK, SafeInv, [Next]_vars PROVE TypeOK' /\ SafeInv'
  BY DEF IInv
<1> USE SocketConstants
<1> USE DEF retry, wire, flags, world
<1>1. CASE Connect
  <2>1. StartSocket(FALSE) /\ UNCHANGED <<sock, live, closing, retry, flags, version, world>>
        /\ ~intentional
    BY <1>1 DEF Connect
  <2>2. stopped' = stopped  BY <2>1, OnlyShutdownStops
  <2>3. SafeInv'  BY <2>1, <2>2, StartSocketIsSafe
  <2>4. TypeOK'
    BY <2>1, <2>2, StartSocketIsWatched DEF SafeInv, TypeOK, States
  <2> QED BY <2>3, <2>4
<1>2. CASE ForceReconnect
  <2>1. TypeOK'  BY <1>2 DEF ForceReconnect, EndSocket, Event, TypeOK, heard, health
  <2>2. NeverDeaf'
    BY <1>2 DEF ForceReconnect, EndSocket, SafeInv, NeverDeaf, Connected, Scheduled
  <2>3. HealthInSync' /\ FirstConnect'
    BY <1>2 DEF ForceReconnect, EndSocket, SafeInv, HealthInSync, FirstConnect, heard, health
  <2>4. Disconnected'
    BY <1>2 DEF ForceReconnect, EndSocket, SafeInv, Disconnected, Connected, Ending, heard, health
  <2> QED BY <2>1, <2>2, <2>3, <2>4 DEF SafeInv
<1>3. CASE Shutdown
  <2>1. TypeOK'  BY <1>3 DEF Shutdown, EndSocket, TypeOK, States
  <2>2. SafeInv'
    BY <1>3 DEF Shutdown, EndSocket, SafeInv, NeverDeaf, HealthInSync, Disconnected,
                FirstConnect
  <2> QED BY <2>1, <2>2
<1>4. CASE SocketBuilt
  <2>1. UNCHANGED <<state, attempt, closing, watchdog, retry, flags, version, world, heard>>
    BY <1>4 DEF SocketBuilt
  <2>2. PICK c \in loading :
          /\ loading' = loading \ {c}
          /\ \/ /\ sock' = c.id
                /\ live' = live \cup {[id |-> c.id, version |-> version, opened |-> FALSE]}
             \/ UNCHANGED <<sock, live>>
    BY <1>4 DEF SocketBuilt
  <2>3. c \in Connects /\ attempt > 0  BY <2>2 DEF TypeOK, SafeInv, FirstConnect
  <2>4. live \subseteq live' /\ live' \subseteq Sockets /\ sock' \in Nat
    <3>1. [id |-> c.id, version |-> version, opened |-> FALSE] \in Sockets /\ c.id \in Nat
      BY <2>3 DEF TypeOK, Connects, Sockets
    <3> QED BY <2>2, <3>1 DEF TypeOK
  <2>5. TypeOK'  BY <2>1, <2>2, <2>4 DEF TypeOK, heard, health
  <2>6. SafeInv'
    BY <2>1, <2>3, <2>4 DEF SafeInv, NeverDeaf, HealthInSync, Disconnected, FirstConnect,
                            Connected, Ending, Scheduled, heard, health
  <2> QED BY <2>5, <2>6
<1>5. CASE ConnectRejected
  <2>1. PICK c \in loading :
          /\ loading' = loading \ {c}
          /\ watchdog' = 0
          /\ IF intentional THEN UNCHANGED <<state, retry, heard>>
             ELSE ScheduleRetry /\ UNCHANGED probing
          /\ lateFailure' \in BOOLEAN
          /\ UNCHANGED <<attempt, sock, live, closing, flags, version, upstream, refused, events>>
    BY <1>5 DEF ConnectRejected, TypeOK
  <2>2. CASE intentional
    <3>1. TypeOK'  BY <2>1, <2>2 DEF TypeOK, heard, health
    <3>2. SafeInv'
      BY <2>1, <2>2 DEF SafeInv, NeverDeaf, HealthInSync, Disconnected, FirstConnect,
                        Connected, Ending, Scheduled, heard, health
    <3> QED BY <3>1, <3>2
  <2>3. CASE ~intentional
    <3>1. ScheduleRetry /\ stopped' = stopped  BY <2>1, <2>3, OnlyShutdownStops
    <3>2. attempt > 0  BY <2>1 DEF SafeInv, FirstConnect, TypeOK
    <3>3. TypeOK'
      BY <2>1, <2>3, <3>1, <3>2, RetrySleepsOrGivesUp DEF SafeInv, TypeOK
    <3>4. SafeInv'
      BY <2>1, <2>3, <3>1, <3>2, ScheduleRetryIsSafe DEF TypeOK
    <3> QED BY <3>3, <3>4
  <2> QED BY <2>2, <2>3
<1>6. CASE ConnectFails
  <2>1. /\ loading' \subseteq loading /\ main' = "exited"
        /\ UNCHANGED <<state, attempt, sock, live, closing, watchdog, retry, flags, version,
                       world, health>>
    BY <1>6 DEF ConnectFails
  <2>2. TypeOK'  BY <2>1 DEF TypeOK, health
  <2>3. SafeInv'
    BY <2>1 DEF SafeInv, NeverDeaf, HealthInSync, Disconnected, FirstConnect,
                        Connected, Ending, Scheduled, health
  <2> QED BY <2>2, <2>3
<1>7. CASE Opens
  <2>1. PICK s \in live :
          /\ live' = (live \ {s}) \cup {[s EXCEPT !.opened = TRUE]}
          /\ IF s.id = attempt
             THEN watchdog' = 0 /\ retries' = 0 /\ SetState("open")
             ELSE UNCHANGED <<watchdog, retries, state, heard>>
    BY <1>7 DEF Opens
  <2>2. UNCHANGED <<attempt, loading, sock, closing, sleeping, probing, flags, version,
                    upstream, refused, lateFailure>>
        /\ events' \in Nat
    BY <1>7 DEF Opens, Event, TypeOK
  <2> DEFINE t == [s EXCEPT !.opened = TRUE]
  <2>3. t \in Sockets /\ t \in live' /\ t.id = s.id /\ t.opened /\ attempt > 0
    <3>1. s \in Sockets  BY DEF TypeOK
    <3>2. t \in Sockets /\ t.id = s.id /\ t.opened  BY <3>1 DEF Sockets
    <3>3. attempt > 0  BY DEF TypeOK, SafeInv, FirstConnect
    <3> QED BY <2>1, <3>2, <3>3
  <2>4. live' \subseteq Sockets  BY <2>1, <2>3 DEF TypeOK
  <2> HIDE DEF t
  <2>5. CASE s.id = attempt
    <3>1. stopped' = stopped  BY <2>1, <2>5, OnlyShutdownStops
    <3>2. /\ state' = "open" /\ watchdog' = 0 /\ retries' = 0
          /\ grace' \in BOOLEAN /\ alerted' \in BOOLEAN
          /\ main' \in {"starting", "up", "exited"}
          /\ ~stopped => ~(grace' \/ alerted')
      BY <2>1, <2>3, <2>5, <3>1, SetStateIsHeard DEF SafeInv, States
    <3>3. Connected'  BY <2>2, <2>3, <2>5 DEF Connected
    <3>4. TypeOK'  BY <2>2, <2>4, <3>1, <3>2 DEF TypeOK, States
    <3>5. SafeInv'
      BY <2>2, <2>3, <3>1, <3>2, <3>3
      DEF SafeInv, NeverDeaf, HealthInSync, Disconnected, FirstConnect
    <3> QED BY <3>4, <3>5
  <2>6. CASE s.id # attempt
    <3>1. UNCHANGED <<watchdog, retries, state, heard>>  BY <2>1, <2>6
    <3>2. TypeOK'  BY <2>2, <2>4, <3>1 DEF TypeOK, heard, health
    <3>3. Connected => Connected'
      BY <2>1, <2>2, <2>6 DEF Connected
    <3>4. SafeInv'
      BY <2>2, <2>3, <3>1, <3>3
      DEF SafeInv, NeverDeaf, HealthInSync, Disconnected, FirstConnect, Ending, Scheduled,
          heard, health
    <3> QED BY <3>2, <3>4
  <2> QED BY <2>5, <2>6
<1>8. CASE ClosedAbandoned
  <2>1. PICK s \in live \cup closing : s.id # attempt /\ Closed(s)
    BY <1>8 DEF ClosedAbandoned
  <2>2. UNCHANGED <<state, attempt, loading, sock, watchdog, retry, flags, version, world, heard>>
    BY <1>8 DEF ClosedAbandoned
  <2>3. TypeOK'  BY <2>1, <2>2 DEF Closed, TypeOK, heard, health
  <2>4. (Connected => Connected') /\ (Ending => Ending')
    BY <2>1, <2>2 DEF Closed, Connected, Ending
  <2>5. SafeInv'
    BY <2>1, <2>2, <2>4 DEF Closed, SafeInv, NeverDeaf, HealthInSync, Disconnected,
                            FirstConnect, Ending, Scheduled, heard, health
  <2> QED BY <2>3, <2>5
<1>9. CASE ClosedIntentionally
  <2>1. PICK s \in live \cup closing : s.id = attempt /\ Closed(s)
    BY <1>9 DEF ClosedIntentionally
  <2>2. /\ intentional /\ watchdog' = 0 /\ SetState("closed")
        /\ UNCHANGED <<attempt, loading, sock, retry, flags, version, world>>
    BY <1>9 DEF ClosedIntentionally
  <2>3. stopped' = stopped /\ attempt > 0
    BY <2>1, <2>2, OnlyShutdownStops DEF SafeInv, FirstConnect, TypeOK
  <2>4. /\ state' = "closed"
        /\ grace' \in BOOLEAN /\ alerted' \in BOOLEAN
        /\ main' \in {"starting", "up", "exited"}
        /\ ~stopped => (grace' \/ alerted')
    BY <2>2, <2>3, SetStateIsHeard DEF SafeInv, States
  <2>5. TypeOK'  BY <2>1, <2>2, <2>3, <2>4 DEF Closed, TypeOK, States
  <2>6. SafeInv'
    BY <2>2, <2>3, <2>4 DEF SafeInv, NeverDeaf, HealthInSync, Disconnected, FirstConnect
  <2> QED BY <2>5, <2>6
<1>10. CASE ClosedForRestart
  <2>1. PICK s \in live \cup closing : Closed(s)  BY <1>10 DEF ClosedForRestart
  <2>2. /\ ~intentional /\ forced' = FALSE /\ StartSocket(TRUE)
        /\ UNCHANGED <<sock, retry, intentional, version, world>>
    BY <1>10 DEF ClosedForRestart
  <2>3. stopped' = stopped  BY <2>2, OnlyShutdownStops
  <2>4. SafeInv'  BY <2>2, <2>3, StartSocketIsSafe
  <2>5. TypeOK'
    BY <2>1, <2>2, <2>3, StartSocketIsWatched DEF Closed, SafeInv, TypeOK, States
  <2> QED BY <2>4, <2>5
<1>11. CASE LoggedOut
  <2>1. PICK s \in live : s.id = attempt /\ Closed(s)  BY <1>11 DEF LoggedOut
  <2>2. /\ ~intentional /\ watchdog' = 0 /\ SetState("logged-out")
        /\ UNCHANGED <<attempt, loading, sock, retry, flags, version, world>>
    BY <1>11 DEF LoggedOut
  <2>3. stopped' = stopped /\ attempt > 0
    BY <2>1, <2>2, OnlyShutdownStops DEF SafeInv, FirstConnect, TypeOK
  <2>4. /\ state' = "logged-out"
        /\ grace' \in BOOLEAN /\ alerted' \in BOOLEAN
        /\ main' \in {"starting", "up", "exited"}
        /\ ~stopped => (grace' \/ alerted')
    BY <2>2, <2>3, SetStateIsHeard DEF SafeInv, States
  <2>5. TypeOK'  BY <2>1, <2>2, <2>3, <2>4 DEF Closed, TypeOK, States
  <2>6. SafeInv'
    BY <2>2, <2>3, <2>4 DEF SafeInv, NeverDeaf, HealthInSync, Disconnected, FirstConnect
  <2> QED BY <2>5, <2>6
<1>12. CASE RestartRequired
  <2>1. PICK s \in live : Closed(s) /\ ~intentional /\ StartSocket(TRUE)
    BY <1>12 DEF RestartRequired
  <2>2. UNCHANGED <<sock, retry, flags, version, upstream, refused, lateFailure>>
        /\ events' \in Nat
    BY <1>12 DEF RestartRequired, Event, TypeOK
  <2>3. stopped' = stopped  BY <2>1, OnlyShutdownStops
  <2>4. SafeInv'  BY <2>1, <2>2, <2>3, StartSocketIsSafe
  <2>5. TypeOK'
    BY <2>1, <2>2, <2>3, StartSocketIsWatched DEF Closed, SafeInv, TypeOK, States
  <2> QED BY <2>4, <2>5
<1>13. CASE VersionRejected
  <2>1. PICK s \in live : Closed(s)  BY <1>13 DEF VersionRejected
  <2>2. /\ ~intentional /\ watchdog' = 0 /\ probing' = probing + 1
        /\ UNCHANGED <<state, attempt, loading, sock, sleeping, retries, flags, version,
                       world, heard>>
    BY <1>13 DEF VersionRejected
  <2>3. attempt > 0  BY <2>1 DEF SafeInv, FirstConnect, TypeOK
  <2>4. TypeOK'  BY <2>1, <2>2 DEF Closed, TypeOK, heard, health
  <2>5. SafeInv'
    BY <2>2, <2>3 DEF SafeInv, NeverDeaf, HealthInSync, Disconnected, FirstConnect,
                      Scheduled, TypeOK, heard, health
  <2> QED BY <2>4, <2>5
<1>14. CASE Dropped
  <2>1. PICK s \in live \cup closing : Closed(s)  BY <1>14 DEF Dropped
  <2>2. /\ ~intentional /\ watchdog' = 0 /\ ScheduleRetry
        /\ UNCHANGED <<attempt, loading, sock, probing, flags, version, world>>
    BY <1>14 DEF Dropped
  <2>3. attempt > 0 /\ stopped' = stopped
    BY <2>1, <2>2, OnlyShutdownStops DEF SafeInv, FirstConnect, TypeOK
  <2>4. SafeInv'  BY <2>2, <2>3, ScheduleRetryIsSafe DEF TypeOK
  <2>5. TypeOK'
    BY <2>1, <2>2, <2>3, RetrySleepsOrGivesUp DEF Closed, SafeInv, TypeOK
  <2> QED BY <2>4, <2>5
<1>15. CASE WatchdogFires
  <2>1. /\ watchdog # 0 /\ watchdog = attempt
        /\ watchdog' = 0 /\ attempt' = attempt + 1 /\ sock' = 0
        /\ EndSocket(sock) /\ ScheduleRetry
        /\ UNCHANGED <<loading, probing, flags, version, world>>
    BY <1>15 DEF WatchdogFires
  <2>2. ~intentional /\ attempt > 0  BY <2>1 DEF SafeInv, Disconnected, TypeOK
  <2>3. stopped' = stopped  BY <2>1, OnlyShutdownStops
  <2>4. SafeInv'  BY <2>1, <2>2, <2>3, ScheduleRetryIsSafe DEF TypeOK
  <2>5. TypeOK'
    BY <2>1, <2>2, <2>3, RetrySleepsOrGivesUp DEF EndSocket, SafeInv, TypeOK
  <2> QED BY <2>4, <2>5
<1>16. CASE BackoffEnds
  <2>1. /\ sleeping > 0 /\ sleeping' = sleeping - 1
        /\ IF intentional THEN UNCHANGED <<state, attempt, loading, watchdog, heard>>
           ELSE StartSocket(TRUE)
        /\ UNCHANGED <<sock, live, closing, probing, retries, flags, version, world>>
    BY <1>16 DEF BackoffEnds
  <2>2. sleeping' \in Nat  BY <2>1 DEF TypeOK
  <2>3. CASE intentional
    <3>1. TypeOK'  BY <2>1, <2>2, <2>3 DEF TypeOK, heard, health
    <3>2. SafeInv'
      BY <2>1, <2>3 DEF SafeInv, NeverDeaf, HealthInSync, Disconnected, FirstConnect,
                        Connected, Ending, Scheduled, TypeOK, heard, health
    <3> QED BY <3>1, <3>2
  <2>4. CASE ~intentional
    <3>1. StartSocket(TRUE) /\ stopped' = stopped  BY <2>1, <2>4, OnlyShutdownStops
    <3>2. SafeInv'  BY <2>1, <2>4, <3>1, StartSocketIsSafe
    <3>3. TypeOK'
      BY <2>1, <2>2, <3>1, StartSocketIsWatched DEF SafeInv, TypeOK, States
    <3> QED BY <3>2, <3>3
  <2> QED BY <2>3, <2>4
<1>17. CASE ProbeReturns
  <2>1. /\ probing > 0 /\ probing' = probing - 1
        /\ UNCHANGED <<sock, live, closing, flags, world>>
    BY <1>17 DEF ProbeReturns
  <2>2. probing' \in Nat  BY <2>1 DEF TypeOK
  <2>3. CASE intentional
    <3>1. /\ UNCHANGED <<state, attempt, loading, watchdog, sleeping, retries, heard>>
          /\ version' \in Versions
      BY <1>17, <2>3 DEF ProbeReturns, TypeOK
    <3>2. TypeOK'  BY <2>1, <2>2, <3>1 DEF TypeOK, heard, health
    <3>3. SafeInv'
      BY <2>1, <2>3, <3>1 DEF SafeInv, NeverDeaf, HealthInSync, Disconnected, FirstConnect,
                              Connected, Ending, Scheduled, TypeOK, heard, health
    <3> QED BY <3>2, <3>3
  <2>4. CASE ~intentional /\ version' = upstream /\ retries' = 0 /\ StartSocket(TRUE)
             /\ UNCHANGED sleeping
    <3>1. stopped' = stopped  BY <2>4, OnlyShutdownStops
    <3>2. SafeInv'  BY <2>1, <2>4, <3>1, StartSocketIsSafe
    <3>3. TypeOK'
      BY <2>1, <2>2, <2>4, <3>1, StartSocketIsWatched DEF SafeInv, TypeOK, States
    <3> QED BY <3>2, <3>3
  <2>5. CASE ~intentional /\ ScheduleRetry /\ UNCHANGED <<version, attempt, loading, watchdog>>
    <3>1. stopped' = stopped /\ attempt > 0
      BY <2>1, <2>5, OnlyShutdownStops DEF SafeInv, FirstConnect, TypeOK
    <3>2. SafeInv'  BY <2>1, <2>5, <3>1, ScheduleRetryIsSafe DEF TypeOK
    <3>3. TypeOK'
      BY <2>1, <2>2, <2>5, <3>1, RetrySleepsOrGivesUp DEF SafeInv, TypeOK
    <3> QED BY <3>2, <3>3
  <2> QED BY <1>17, <2>3, <2>4, <2>5 DEF ProbeReturns
<1>18. CASE GraceEnds
  <2>1. TypeOK'  BY <1>18 DEF GraceEnds, TypeOK
  <2>2. SafeInv'
    BY <1>18 DEF GraceEnds, SafeInv, NeverDeaf, HealthInSync, Disconnected, FirstConnect,
                 Connected, Ending, Scheduled
  <2> QED BY <2>1, <2>2
<1>19. CASE Refuse \/ Publish \/ UNCHANGED vars
  <2>1. /\ UNCHANGED <<state, attempt, wire, watchdog, retry, flags, version, lateFailure, heard>>
        /\ upstream' \in Versions /\ refused' \subseteq Versions /\ events' \in Nat
    BY <1>19 DEF Refuse, Publish, Event, vars, TypeOK
  <2>2. TypeOK'  BY <2>1 DEF TypeOK, heard, health
  <2>3. SafeInv'
    BY <2>1 DEF SafeInv, NeverDeaf, HealthInSync, Disconnected, FirstConnect,
                Connected, Ending, Scheduled, heard, health
  <2> QED BY <2>2, <2>3
<1> QED
  BY <1>1, <1>2, <1>3, <1>4, <1>5, <1>6, <1>7, <1>8, <1>9, <1>10, <1>11, <1>12, <1>13, <1>14,
     <1>15, <1>16, <1>17, <1>18, <1>19
  DEF Next, SocketEvents, LocalCloses

(* The initial state is safe.                                              *)
LEMMA InitIsSafe == Init => IInv
<1> SUFFICES ASSUME Init PROVE TypeOK /\ SafeInv
  BY DEF IInv
<1>1. TypeOK  BY SocketConstants DEF Init, TypeOK, States
<1>2. SafeInv
  BY DEF Init, SafeInv, NeverDeaf, HealthInSync, Disconnected, FirstConnect
<1> QED BY <1>1, <1>2

(* The invariant holds in every behaviour.                                 *)
LEMMA IInvHolds == Spec => []IInv
BY InitIsSafe, NextKeepsIInv, PTL DEF Spec

-----------------------------------------------------------------------------
(* Every variable keeps its type.                                          *)
THEOREM TypeCorrect == Spec => []TypeOK
<1>1. IInv => TypeOK  BY DEF IInv
<1> QED BY <1>1, IInvHolds, PTL

(* While the adapter calls itself open or connecting a socket is up, or a  *)
(* watchdog, a backoff sleep or a probe will make it act again.            *)
THEOREM NeverDeafHolds == Spec => []NeverDeaf
<1>1. IInv => NeverDeaf  BY DEF IInv, SafeInv
<1> QED BY <1>1, IInvHolds, PTL

(* The grace timer runs or an alert is out exactly while the adapter does  *)
(* not call itself open, until the monitor is stopped.                     *)
THEOREM HealthInSyncHolds == Spec => []HealthInSync
<1>1. IInv => HealthInSync  BY DEF IInv, SafeInv
<1> QED BY <1>1, IInvHolds, PTL

(* After an intentional close no watchdog is armed, or ever armed again.   *)
THEOREM ShutdownDisarmsHolds == Spec => []ShutdownDisarms
<1>1. IInv => ShutdownDisarms  BY DEF IInv, SafeInv, Disconnected, ShutdownDisarms
<1> QED BY <1>1, IInvHolds, PTL

-----------------------------------------------------------------------------
(* One socket, one retry.  An attempt's number is borne by one connect or  *)
(* by one socket at most, and as long as no abandoned connect rejects late *)
(* a single thing is under way for the latest attempt: a backoff sleep, a  *)
(* probe, a connect, or a socket that is up or closing.                    *)

IdsBound ==
  /\ \A c \in loading : c.id <= attempt
  /\ \A s \in live \cup closing : s.id <= attempt
IdsOnce ==
  /\ \A c, e \in loading : c.id = e.id => c = e
  /\ \A s, t \in live \cup closing : s.id = t.id => s = t
  /\ live \cap closing = {}
  /\ \A c \in loading, s \in live \cup closing : c.id # s.id
IdsInv == IdsBound /\ IdsOnce

Idle  == sleeping = 0 /\ probing = 0
Loads == \E c \in loading : c.id = attempt
Holds == \E s \in live \cup closing : s.id = attempt

OnePlan       == sleeping + probing <= 1
PlanAlone     == watchdog # 0 \/ Loads \/ Holds => Idle
LiveIsCurrent == \A s \in live : s.id = attempt /\ sock = attempt
LogoutQuiet   == state = "logged-out" => Idle /\ watchdog = 0 /\ ~Loads /\ ~Holds

OneInv == OnePlan /\ PlanAlone /\ LiveIsCurrent /\ LogoutQuiet

\* What the pieces of the handlers do to the plans.
LEMMA PlanPieces ==
  /\ \A s : SetState(s) => state' = s
  /\ ScheduleRetry => /\ state' \in {state, "closed"}
                      /\ sleeping' \in {sleeping, sleeping + 1}
  /\ \A b : StartSocket(b) =>
       /\ attempt' = attempt + 1 /\ state' = "connecting" /\ watchdog' = attempt + 1
       /\ loading' = loading \cup {[id |-> attempt + 1, background |-> b]}
  BY DEF SetState, ScheduleRetry, StartSocket

\* A new attempt's number is new.
LEMMA StartIsNew ==
  ASSUME TypeOK, IdsInv, NEW b \in BOOLEAN, StartSocket(b),
         live' \subseteq live, closing' \subseteq closing
  PROVE  IdsInv'
<1>1. /\ attempt \in Nat /\ attempt' = attempt + 1
      /\ loading' = loading \cup {[id |-> attempt + 1, background |-> b]}
  BY PlanPieces DEF TypeOK
<1>2. /\ \A c \in loading : c.id \in Nat /\ c.id <= attempt
      /\ \A s \in live' \cup closing' : s \in live \cup closing /\ s.id \in Nat /\ s.id <= attempt
  BY DEF TypeOK, Connects, Sockets, IdsInv, IdsBound
<1>3. \A c \in loading' : c \in loading \/ c = [id |-> attempt + 1, background |-> b]
  BY <1>1
<1>4. IdsBound'
  BY <1>1, <1>2, <1>3 DEF IdsBound
<1>5. IdsOnce'
  <2>1. \A c, e \in loading' : c.id = e.id => c = e
    BY <1>1, <1>2, <1>3 DEF IdsInv, IdsOnce
  <2>2. \A c \in loading', s \in live' \cup closing' : c.id # s.id
    BY <1>1, <1>2, <1>3 DEF IdsInv, IdsOnce
  <2> QED
    BY <1>2, <2>1, <2>2 DEF IdsInv, IdsOnce
<1> QED
  BY <1>4, <1>5 DEF IdsInv

\* Connects and sockets end, or move to the closing ones.
LEMMA FewerIds ==
  ASSUME TypeOK, IdsInv, attempt' \in Nat, attempt' >= attempt, loading' \subseteq loading,
         \/ live' \subseteq live /\ closing' \subseteq closing
         \/ \E n \in Nat : EndSocket(n)
  PROVE  IdsInv'
<1>1. live' \cup closing' \subseteq live \cup closing /\ live' \cap closing' = {}
  BY DEF EndSocket, IdsInv, IdsOnce
<1>2. /\ \A c \in loading : c.id \in Nat /\ c.id <= attempt
      /\ \A s \in live \cup closing : s.id \in Nat /\ s.id <= attempt
  BY DEF TypeOK, Connects, Sockets, IdsInv, IdsBound
<1>3. IdsBound'
  BY <1>1, <1>2 DEF IdsBound, TypeOK
<1>4. IdsOnce'
  BY <1>1 DEF IdsInv, IdsOnce
<1> QED
  BY <1>3, <1>4 DEF IdsInv

\* A current connect becomes the current socket.
LEMMA BuiltIds ==
  ASSUME TypeOK, IdsInv, SocketBuilt
  PROVE  IdsInv'
<1>1. PICK c \in loading :
        /\ loading' = loading \ {c}
        /\ IF c.id = attempt
           THEN live' = live \cup {[id |-> c.id, version |-> version, opened |-> FALSE]}
           ELSE live' = live
  BY DEF SocketBuilt
<1>2. UNCHANGED <<attempt, closing>>
  BY DEF SocketBuilt
<1>3. CASE c.id = attempt
  <2> DEFINE new == [id |-> c.id, version |-> version, opened |-> FALSE]
  <2>1. new.id = c.id
    OBVIOUS
  <2>2. live' = live \cup {new}
    BY <1>1, <1>3
  <2> HIDE DEF new
  <2>3. \A s \in live \cup closing : s.id # new.id
    BY <1>1, <2>1 DEF IdsInv, IdsOnce
  <2>4. \A e \in loading' : e \in loading /\ e.id # new.id
    BY <1>1, <2>1 DEF IdsInv, IdsOnce
  <2>5. IdsBound'
    BY <1>1, <1>2, <1>3, <2>1, <2>2 DEF IdsInv, IdsBound, TypeOK
  <2>6. IdsOnce'
    BY <1>2, <2>2, <2>3, <2>4 DEF IdsInv, IdsOnce
  <2> QED
    BY <2>5, <2>6 DEF IdsInv
<1>4. CASE c.id # attempt
  BY <1>1, <1>2, <1>4, FewerIds DEF TypeOK
<1> QED
  BY <1>3, <1>4

\* A socket opens under its number.
LEMMA OpenedIds ==
  ASSUME TypeOK, IdsInv, Opens
  PROVE  IdsInv'
<1>1. PICK s \in live : live' = (live \ {s}) \cup {[s EXCEPT !.opened = TRUE]}
  BY DEF Opens
<1>2. UNCHANGED <<attempt, loading, closing>>
  BY DEF Opens
<1> DEFINE t == [s EXCEPT !.opened = TRUE]
<1>3. t.id = s.id
  BY DEF TypeOK, Sockets
<1>4. live' = (live \ {s}) \cup {t}
  BY <1>1
<1> HIDE DEF t
<1>5. \A r \in live \cup closing : r.id = t.id => r = s
  BY <1>3 DEF IdsInv, IdsOnce
<1>6. t \notin closing
  BY <1>5 DEF IdsInv, IdsOnce
<1>7. IdsBound'
  BY <1>2, <1>3, <1>4 DEF IdsInv, IdsBound
<1>8. IdsOnce'
  <2>1. \A a, b \in live' \cup closing' : a.id = b.id => a = b
    BY <1>2, <1>4, <1>5, <1>6 DEF IdsInv, IdsOnce
  <2>2. \A c \in loading', a \in live' \cup closing' : c.id # a.id
    BY <1>2, <1>3, <1>4 DEF IdsInv, IdsOnce
  <2> QED
    BY <1>2, <1>4, <1>6, <2>1, <2>2 DEF IdsInv, IdsOnce
<1> QED
  BY <1>7, <1>8 DEF IdsInv

\* Every step keeps the numbers apart.
LEMMA NextIds == TypeOK /\ IdsInv /\ [Next]_vars => IdsInv'
<1> SUFFICES ASSUME TypeOK, IdsInv, [Next]_vars PROVE IdsInv'
  OBVIOUS
<1> USE DEF wire
<1>1. CASE Connect
  BY <1>1, StartIsNew DEF Connect
<1>2. CASE ForceReconnect \/ Shutdown
  BY <1>2, FewerIds DEF ForceReconnect, Shutdown, TypeOK
<1>3. CASE SocketBuilt
  BY <1>3, BuiltIds
<1>4. CASE ConnectRejected \/ ConnectFails
  BY <1>4, FewerIds DEF ConnectRejected, ConnectFails, TypeOK
<1>5. CASE Opens
  BY <1>5, OpenedIds
<1>6. CASE ClosedAbandoned \/ ClosedIntentionally \/ LoggedOut \/ VersionRejected \/ Dropped
  BY <1>6, FewerIds DEF ClosedAbandoned, ClosedIntentionally, LoggedOut, VersionRejected, Dropped,
     Closed, TypeOK
<1>7. CASE ClosedForRestart \/ RestartRequired
  BY <1>7, StartIsNew DEF ClosedForRestart, RestartRequired, Closed
<1>8. CASE WatchdogFires
  BY <1>8, FewerIds DEF WatchdogFires, TypeOK
<1>9. CASE BackoffEnds \/ ProbeReturns
  <2>1. UNCHANGED <<live, closing>>
    BY <1>9 DEF BackoffEnds, ProbeReturns
  <2>2. StartSocket(TRUE) \/ UNCHANGED <<attempt, loading>>
    BY <1>9 DEF BackoffEnds, ProbeReturns
  <2>3. CASE StartSocket(TRUE)
    BY <2>1, <2>3, StartIsNew
  <2>4. CASE UNCHANGED <<attempt, loading>>
    BY <2>1, <2>4, FewerIds DEF TypeOK
  <2> QED
    BY <2>2, <2>3, <2>4
<1>10. CASE GraceEnds \/ Refuse \/ Publish \/ UNCHANGED vars
  BY <1>10, FewerIds DEF GraceEnds, Refuse, Publish, vars, TypeOK
<1> QED
  BY <1>1, <1>2, <1>3, <1>4, <1>5, <1>6, <1>7, <1>8, <1>9, <1>10
     DEF Next, SocketEvents, LocalCloses

\* A number borne by nothing else: what the end of its bearer leaves.
LEMMA BearerGone ==
  ASSUME TypeOK, IdsInv
  PROVE  /\ \A c \in loading : c.id = attempt =>
              ~Holds /\ ~\E e \in loading \ {c} : e.id = attempt
         /\ \A s \in live \cup closing : s.id = attempt =>
              ~Loads /\ ~\E t \in (live \cup closing) \ {s} : t.id = attempt
         /\ ~(\E c \in loading : c.id = attempt + 1)
         /\ ~(\E s \in live \cup closing : s.id = attempt + 1)
<1>1. /\ \A c \in loading : c.id \in Nat /\ c.id <= attempt
      /\ \A s \in live \cup closing : s.id \in Nat /\ s.id <= attempt
      /\ attempt \in Nat
  BY DEF TypeOK, Connects, Sockets, IdsInv, IdsBound
<1>2. \A c \in loading : c.id = attempt => ~Holds /\ ~\E e \in loading \ {c} : e.id = attempt
  BY DEF IdsInv, IdsOnce, Holds
<1>3. \A s \in live \cup closing : s.id = attempt =>
        ~Loads /\ ~\E t \in (live \cup closing) \ {s} : t.id = attempt
  BY DEF IdsInv, IdsOnce, Loads
<1>4. attempt + 1 > attempt
  BY <1>1
<1> QED
  BY <1>1, <1>2, <1>3, <1>4

\* The one thing under way for the latest attempt starts the next one.
LEMMA StartIsAlone ==
  ASSUME TypeOK, IdsInv, NEW b \in BOOLEAN, StartSocket(b), live' = {}, closing' \subseteq closing,
         sleeping' = 0, probing' = 0
  PROVE  OneInv'
<1>1. /\ attempt' = attempt + 1 /\ state' = "connecting"
  BY PlanPieces
<1>2. Idle'
  BY DEF Idle
<1> QED
  BY <1>1, <1>2 DEF OneInv, OnePlan, PlanAlone, LiveIsCurrent, LogoutQuiet, Idle

\* It ends, and leaves at most one sleep or one probe behind.
LEMMA EndsAlone ==
  ASSUME TypeOK, OneInv, live' = {}, watchdog' = 0, ~Loads', ~Holds',
         Idle, state # "logged-out",
         \/ ScheduleRetry /\ probing' = probing
         \/ UNCHANGED <<state, sleeping>> /\ probing' = probing + 1
         \/ UNCHANGED <<sleeping, probing>>
  PROVE  OneInv'
<1>1. OnePlan'
  BY PlanPieces DEF OnePlan, Idle
<1>2. LogoutQuiet'
  <2>1. CASE UNCHANGED <<sleeping, probing>>
    BY <2>1 DEF LogoutQuiet, Idle
  <2>2. CASE state' # "logged-out"
    BY <2>2 DEF LogoutQuiet
  <2> QED
    BY <2>1, <2>2, PlanPieces
<1> QED
  BY <1>1, <1>2 DEF OneInv, PlanAlone, LiveIsCurrent

\* Nothing of the latest attempt begins, and no plan is made.
LEMMA QuietStep ==
  ASSUME TypeOK, OneInv, UNCHANGED <<attempt, sleeping, probing>>,
         watchdog' \in {0, watchdog}, Loads' => Loads, Holds' => Holds,
         state' = "logged-out" => state = "logged-out",
         \A s \in live' : s.id = attempt /\ sock' = attempt
  PROVE  OneInv'
  BY DEF OneInv, OnePlan, PlanAlone, LiveIsCurrent, LogoutQuiet, Idle

\* Every step keeps it, unless an abandoned connect rejects.
LEMMA NextOne ==
  ASSUME TypeOK, FirstConnect, IdsInv, OneInv, [Next]_vars, ~lateFailure'
  PROVE  OneInv'
<1> USE DEF retry, wire, world
<1>1. CASE Connect
  BY <1>1, StartIsAlone DEF Connect, FirstConnect
<1>2. CASE ForceReconnect
  <2>1. live' \subseteq live /\ live' \cup closing' = live \cup closing
    BY <1>2 DEF ForceReconnect, EndSocket
  <2> QED
    BY <1>2, <2>1, QuietStep DEF ForceReconnect, OneInv, LiveIsCurrent, Loads, Holds
<1>3. CASE Shutdown
  <2>1. live' \subseteq live /\ live' \cup closing' = live \cup closing
    BY <1>3 DEF Shutdown, EndSocket
  <2> QED
    BY <1>3, <2>1, QuietStep DEF Shutdown, OneInv, LiveIsCurrent, Loads, Holds
<1>4. CASE SocketBuilt
  <2>1. PICK c \in loading :
          /\ loading' = loading \ {c}
          /\ IF c.id = attempt
             THEN /\ sock' = c.id
                  /\ live' = live \cup {[id |-> c.id, version |-> version, opened |-> FALSE]}
             ELSE UNCHANGED <<sock, live>>
    BY <1>4 DEF SocketBuilt
  <2>2. UNCHANGED <<state, attempt, closing, watchdog, sleeping, probing>>
    BY <1>4 DEF SocketBuilt
  <2>3. CASE c.id = attempt
    <3>1. Loads /\ ~Holds /\ ~Loads'
      BY <2>1, <2>2, <2>3, BearerGone DEF Loads
    <3>2. Idle /\ state # "logged-out"
      BY <3>1 DEF OneInv, PlanAlone, LogoutQuiet
    <3>3. LiveIsCurrent'
      BY <2>1, <2>2, <2>3 DEF OneInv, LiveIsCurrent
    <3> QED
      BY <2>2, <3>2, <3>3 DEF OneInv, OnePlan, PlanAlone, LogoutQuiet, Idle
  <2>4. CASE c.id # attempt
    BY <2>1, <2>2, <2>4, QuietStep DEF OneInv, LiveIsCurrent, Loads, Holds
  <2> QED
    BY <2>3, <2>4
<1>5. CASE ConnectRejected
  <2>1. PICK c \in loading :
          /\ loading' = loading \ {c}
          /\ c.id = attempt
          /\ watchdog' = 0
          /\ \/ UNCHANGED <<state, retry>>
             \/ ScheduleRetry /\ UNCHANGED probing
          /\ UNCHANGED <<attempt, live, closing>>
    BY <1>5 DEF ConnectRejected
  <2>2. Loads /\ ~Holds /\ ~Holds' /\ ~Loads'
    BY <2>1, BearerGone DEF Loads, Holds
  <2>3. Idle /\ state # "logged-out" /\ live' = {}
    BY <2>1, <2>2 DEF OneInv, PlanAlone, LogoutQuiet, LiveIsCurrent, Holds
  <2> QED
    BY <2>1, <2>2, <2>3, EndsAlone
<1>6. CASE ConnectFails
  <2>1. /\ loading' \subseteq loading
        /\ UNCHANGED <<state, attempt, sock, live, closing, watchdog, sleeping, probing>>
    BY <1>6 DEF ConnectFails
  <2> QED
    BY <2>1, QuietStep DEF OneInv, LiveIsCurrent, Loads, Holds
<1>7. CASE Opens
  <2>1. PICK s \in live :
          /\ live' = (live \ {s}) \cup {[s EXCEPT !.opened = TRUE]}
          /\ IF s.id = attempt THEN watchdog' = 0 /\ SetState("open")
                               ELSE UNCHANGED <<watchdog, state>>
    BY <1>7 DEF Opens
  <2>2. UNCHANGED <<attempt, loading, sock, closing, sleeping, probing>>
    BY <1>7 DEF Opens
  <2>3. [s EXCEPT !.opened = TRUE].id = s.id
    BY DEF TypeOK, Sockets
  <2>4. s.id = attempt /\ sock = attempt /\ Holds
    BY DEF OneInv, LiveIsCurrent, Holds
  <2>5. \A t \in live' : t.id = attempt /\ sock' = attempt
    BY <2>1, <2>2, <2>3, <2>4 DEF OneInv, LiveIsCurrent
  <2>6. state' = "open" /\ watchdog' = 0
    BY <2>1, <2>4, PlanPieces
  <2> QED
    BY <2>2, <2>4, <2>5, <2>6, QuietStep DEF Loads
<1>8. CASE ClosedAbandoned
  BY <1>8, QuietStep DEF ClosedAbandoned, Closed, OneInv, LiveIsCurrent, Loads, Holds
<1>9. ASSUME NEW s \in live \cup closing, s.id = attempt, Closed(s)
      PROVE  /\ live' = {} /\ closing' \subseteq closing /\ Idle /\ state # "logged-out"
             /\ UNCHANGED <<attempt, loading>> => ~Loads' /\ ~Holds'
  <2>1. Holds
    BY <1>9 DEF Holds
  <2>2. Idle /\ state # "logged-out"
    BY <2>1 DEF OneInv, PlanAlone, LogoutQuiet
  <2>3. live' = {}
    BY <1>9, BearerGone DEF Closed, OneInv, LiveIsCurrent
  <2>4. UNCHANGED <<attempt, loading>> => ~Loads' /\ ~Holds'
    BY <1>9, BearerGone DEF Closed, Loads, Holds
  <2> QED
    BY <1>9, <2>2, <2>3, <2>4 DEF Closed
<1>10. CASE ClosedIntentionally \/ LoggedOut
  BY <1>9, <1>10, EndsAlone DEF ClosedIntentionally, LoggedOut
<1>11. CASE ClosedForRestart \/ RestartRequired
  BY <1>9, <1>11, StartIsAlone DEF ClosedForRestart, RestartRequired, Idle
<1>12. CASE VersionRejected \/ Dropped
  BY <1>9, <1>12, EndsAlone DEF VersionRejected, Dropped
<1>13. CASE WatchdogFires
  <2>1. /\ attempt' = attempt + 1 /\ watchdog' = 0 /\ EndSocket(sock) /\ ScheduleRetry
        /\ UNCHANGED <<loading, probing>> /\ watchdog # 0
    BY <1>13 DEF WatchdogFires
  <2>2. Idle /\ state # "logged-out"
    BY <2>1 DEF OneInv, PlanAlone, LogoutQuiet
  <2>3. live' = {} /\ closing' \subseteq live \cup closing
    BY <2>1 DEF OneInv, LiveIsCurrent, EndSocket
  <2>4. ~Loads' /\ ~Holds'
    BY <2>1, <2>3, BearerGone DEF Loads, Holds
  <2> QED
    BY <2>1, <2>2, <2>3, <2>4, EndsAlone
<1>14. CASE BackoffEnds \/ ProbeReturns
  <2>1. /\ sleeping > 0 \/ probing > 0
        /\ UNCHANGED <<live, closing>>
    BY <1>14 DEF BackoffEnds, ProbeReturns
  <2>2. ~Idle /\ sleeping + probing = 1
    BY <2>1 DEF Idle, OneInv, OnePlan, TypeOK
  <2>3. ~Loads /\ ~Holds /\ watchdog = 0 /\ live = {} /\ state # "logged-out"
    BY <2>2 DEF OneInv, PlanAlone, LogoutQuiet, LiveIsCurrent, Holds
  <2>4. CASE StartSocket(TRUE)
    <3>1. sleeping' = 0 /\ probing' = 0
      BY <1>14, <2>2, <2>4 DEF BackoffEnds, ProbeReturns, TypeOK, StartSocket, SetState,
         ScheduleRetry, States
    <3> QED
      BY <2>1, <2>3, <2>4, <3>1, StartIsAlone
  <2>5. CASE UNCHANGED <<attempt, loading, watchdog>>
    <3>1. state' \in {state, "closed"} /\ sleeping' + probing' <= 1
      BY <1>14, <2>2, <2>5, PlanPieces DEF BackoffEnds, ProbeReturns, TypeOK, StartSocket
    <3> QED
      BY <2>1, <2>3, <2>5, <3>1 DEF OneInv, OnePlan, PlanAlone, LiveIsCurrent, LogoutQuiet,
         Loads, Holds
  <2>6. StartSocket(TRUE) \/ UNCHANGED <<attempt, loading, watchdog>>
    BY <1>14 DEF BackoffEnds, ProbeReturns
  <2> QED
    BY <2>4, <2>5, <2>6
<1>15. CASE GraceEnds \/ Refuse \/ Publish \/ UNCHANGED vars
  BY <1>15, QuietStep DEF GraceEnds, Refuse, Publish, vars, OneInv, LiveIsCurrent, Loads, Holds
<1> QED
  BY <1>1, <1>2, <1>3, <1>4, <1>5, <1>6, <1>7, <1>8, <1>10, <1>11, <1>12, <1>13, <1>14, <1>15
     DEF Next, SocketEvents, LocalCloses

\* lateFailure is history: it never goes back.
LEMMA LateIsKept == [Next]_vars /\ ~lateFailure' => ~lateFailure
  BY DEF Next, SocketEvents, LocalCloses, vars, world, Connect, ForceReconnect, Shutdown,
     SocketBuilt, ConnectRejected, ConnectFails, Opens, ClosedAbandoned, ClosedIntentionally,
     ClosedForRestart, LoggedOut, RestartRequired, VersionRejected, Dropped, WatchdogFires,
     BackoffEnds, ProbeReturns, GraceEnds, Refuse, Publish

\* A set whose members are all the same has one at most.
LEMMA OneMember ==
  ASSUME NEW S, \A x, y \in S : x = y
  PROVE  Cardinality(S) \in {0, 1}
<1>1. CASE S = {}
  BY <1>1, FS_EmptySet
<1>2. CASE S # {}
  <2>1. PICK x \in S : S = {x}
    BY <1>2
  <2> QED
    BY <2>1, FS_Singleton
<1> QED
  BY <1>1, <1>2

LEMMA OneOfEachFollows ==
  ASSUME TypeOK, IdsInv, ~lateFailure => OneInv
  PROVE  OneOfEach
<1> SUFFICES ASSUME OneInv
             PROVE  /\ Cardinality(live) <= 1
                    /\ sleeping + probing + Cardinality({c \in loading : c.id = attempt}) <= 1
  BY DEF OneOfEach, OneSocket, OneRetry
<1>1. Cardinality(live) \in {0, 1}
  <2>1. \A s, t \in live : s = t
    BY DEF IdsInv, IdsOnce, OneInv, LiveIsCurrent
  <2> QED
    BY <2>1, OneMember
<1>2. Cardinality({c \in loading : c.id = attempt}) \in {0, 1}
  <2>1. \A c, e \in {x \in loading : x.id = attempt} : c = e
    BY DEF IdsInv, IdsOnce
  <2> QED
    BY <2>1, OneMember
<1>3. CASE Loads
  BY <1>1, <1>2, <1>3 DEF OneInv, PlanAlone, Idle
<1>4. CASE ~Loads
  <2>1. {c \in loading : c.id = attempt} = {}
    BY <1>4 DEF Loads
  <2>2. Cardinality({c \in loading : c.id = attempt}) = 0
    BY <2>1, FS_EmptySet
  <2> QED
    BY <1>1, <2>2 DEF OneInv, OnePlan, TypeOK
<1> QED
  BY <1>3, <1>4

\* The numbers and the plans, in every state of every behaviour.
LEMMA OneHolds == Spec => [](IInv /\ IdsInv /\ (~lateFailure => OneInv))
<1>1. Init => IdsInv /\ OneInv
  BY DEF Init, IdsInv, IdsBound, IdsOnce, OneInv, OnePlan, PlanAlone, LiveIsCurrent, LogoutQuiet,
     Idle, Loads, Holds
<1>2. IInv /\ IdsInv /\ [Next]_vars => IdsInv'
  BY NextIds DEF IInv
<1>3. IInv /\ IdsInv /\ (~lateFailure => OneInv) /\ [Next]_vars => (~lateFailure => OneInv)'
  BY NextOne, LateIsKept DEF IInv, SafeInv
<1> QED
  BY <1>1, <1>2, <1>3, IInvHolds, PTL DEF Spec

\* The process owns one socket and one reconnect at a time, however connects,
\* timeouts, backoffs, probes and closes interleave, unless an abandoned
\* connect rejects late (baileys.ts startSocket, scheduleRetry).
THEOREM OneOfEachHolds == Spec => []OneOfEach
<1>1. IInv /\ IdsInv /\ (~lateFailure => OneInv) => OneOfEach
  BY OneOfEachFollows DEF IInv
<1> QED
  BY <1>1, OneHolds, PTL

\* Nothing that is under way reconnects a pairing WhatsApp revoked
\* (baileys.ts, the logged-out branch of the close handler).
THEOREM LogoutIsFinalHolds == Spec => LogoutIsFinal
<1> DEFINE Final == state = "logged-out" /\ ~lateFailure' => state' \in {"logged-out", "closed"}
<1>1. IInv /\ IdsInv /\ (~lateFailure => OneInv) /\ [Next]_vars => Final
  <2> SUFFICES ASSUME TypeOK, SafeInv, OneInv, [Next]_vars, state = "logged-out", ~lateFailure'
               PROVE  state' \in {"logged-out", "closed"}
    BY LateIsKept DEF IInv
  <2>1. Idle /\ watchdog = 0 /\ ~Loads /\ ~Holds
    BY DEF OneInv, LogoutQuiet
  <2>2. attempt # 0
    BY DEF SafeInv, FirstConnect
  <2>3. ~Connect /\ ~WatchdogFires /\ ~BackoffEnds /\ ~ProbeReturns
    <3>1. ~Connect
      BY <2>2 DEF Connect
    <3>2. ~WatchdogFires
      BY <2>1 DEF WatchdogFires
    <3>3. sleeping = 0 /\ probing = 0
      BY <2>1 DEF Idle
    <3>4. ~BackoffEnds /\ ~ProbeReturns
      BY <3>3 DEF BackoffEnds, ProbeReturns
    <3> QED
      BY <3>1, <3>2, <3>4
  <2>4. /\ ~ClosedIntentionally /\ ~ClosedForRestart /\ ~LoggedOut
        /\ ~RestartRequired /\ ~VersionRejected /\ ~Dropped
    BY <2>1 DEF ClosedIntentionally, ClosedForRestart, LoggedOut, RestartRequired,
       VersionRejected, Dropped, Holds
  <2>5. ~ConnectRejected
    BY <2>1 DEF ConnectRejected, Loads
  <2>6. Opens => state' = state
    BY <2>1 DEF Opens, Holds
  <2>7. state' = state \/ Shutdown \/ Opens
    BY <2>3, <2>4, <2>5 DEF Next, SocketEvents, LocalCloses, vars, ForceReconnect, SocketBuilt,
       ConnectFails, ClosedAbandoned, GraceEnds, Refuse, Publish
  <2> QED
    BY <2>6, <2>7 DEF Shutdown
<1> QED
  BY <1>1, OneHolds, PTL DEF Spec, LogoutIsFinal
=============================================================================
