------------------------------- MODULE Socket -------------------------------
(***************************************************************************)
(* The WhatsApp socket and the alerts about it: the reconnecting adapter   *)
(* (src/transport/baileys.ts), the client version it announces             *)
(* (src/transport/wa-version.ts) and the health monitor that listens to    *)
(* its state (src/ops/health.ts).                                          *)
(*                                                                         *)
(* Everything happens in one process, in callbacks: socket events, timers, *)
(* backoff sleeps, version probes and pending connects complete in any     *)
(* order.  All of the state is lost with the process, so a crash is a new  *)
(* behaviour and is not modelled.                                          *)
(***************************************************************************)
EXTENDS Naturals, FiniteSets

CONSTANTS
  Versions,     \* WhatsApp Web protocol versions
  Pinned,       \* the version configured
  MaxAttempts,  \* policy.maxAttempts
  MaxEvents     \* bound on opens, restart requests, forced reconnects and
                \* changes of the accepted and the published version

ASSUME SocketConstants ==
  /\ Pinned \in Versions
  /\ MaxAttempts \in Nat /\ MaxEvents \in Nat

VARIABLES
  state,        \* TransportState, what the listeners were told last
  attempt,      \* connectAttempt, the latest connect attempt's number
  loading,      \* connects still awaiting the auth state or the socket
  sock,         \* the attempt whose socket send() would use, 0 for null
  live,         \* sockets WhatsApp has not closed and nobody ended
  closing,      \* sockets ended by the adapter whose close event is to come
  watchdog,     \* the attempt the armed watchdog guards, 0 when disarmed
  sleeping,     \* backoff sleeps in progress
  probing,      \* fall-forward probes in progress
  retries,      \* retryAttempts
  intentional,  \* intentionalClose
  forced,       \* forceRestart
  version,      \* the version the next socket announces
  upstream,     \* the version published upstream
  refused,      \* versions WhatsApp refuses
  grace,        \* the health monitor's grace timer runs
  alerted,      \* downAlertSent
  stopped,      \* the monitor was stopped
  main,         \* main's start: "starting", "up" or "exited"
  lateFailure,  \* history: an abandoned connect has rejected
  events

retry  == <<sleeping, probing, retries>>
wire   == <<loading, sock, live, closing>>
flags  == <<intentional, forced>>
world  == <<upstream, refused, lateFailure, events>>
health == <<grace, alerted, stopped>>
heard  == <<health, main>>
vars   == <<state, attempt, wire, watchdog, retry, flags, version, world, heard>>

States == {"connecting", "open", "closed", "logged-out"}

\* The socket of attempt n, announcing v; opened once WhatsApp accepted it.
Sockets  == [id : Nat \ {0}, version : Versions, opened : BOOLEAN]
Connects == [id : Nat \ {0}, background : BOOLEAN]

TypeOK ==
  /\ state \in States
  /\ attempt \in Nat
  /\ loading \subseteq Connects
  /\ sock \in Nat
  /\ live \subseteq Sockets
  /\ closing \subseteq Sockets
  /\ watchdog \in {0, attempt}
  /\ sleeping \in Nat /\ probing \in Nat /\ retries \in Nat
  /\ intentional \in BOOLEAN /\ forced \in BOOLEAN
  /\ version \in Versions /\ upstream \in Versions
  /\ refused \subseteq Versions
  /\ grace \in BOOLEAN /\ alerted \in BOOLEAN /\ stopped \in BOOLEAN
  /\ main \in {"starting", "up", "exited"}
  /\ lateFailure \in BOOLEAN
  /\ events \in Nat

Init ==
  /\ state = "closed" /\ attempt = 0
  /\ loading = {} /\ sock = 0 /\ live = {} /\ closing = {}
  /\ watchdog = 0
  /\ sleeping = 0 /\ probing = 0 /\ retries = 0
  /\ intentional = FALSE /\ forced = FALSE
  /\ version = Pinned /\ upstream = Pinned /\ refused = {}
  /\ grace = FALSE /\ alerted = FALSE /\ stopped = FALSE
  /\ main = "starting"
  /\ lateFailure = FALSE /\ events = 0

Running == main # "exited"

Event == Running /\ events < MaxEvents /\ events' = events + 1

-----------------------------------------------------------------------------
(* Pieces of the handlers.                                                 *)

\* The health monitor is told the state is s.
Health(s) ==
  /\ grace'   = (s \in {"closed", "connecting"} /\ (grace \/ ~alerted))
  /\ alerted' = (s # "open" /\ (alerted \/ s = "logged-out"))
  /\ UNCHANGED stopped

\* waitForOpen, which main awaits: it settles at the first state other than
\* 'connecting', and a rejection ends the process.
WaitForOpen(s) ==
  main' = IF main # "starting" \/ s = "connecting" THEN main
          ELSE IF s = "open" THEN "up" ELSE "exited"

\* setState: the listeners hear of a change, not of a repetition.
SetState(s) ==
  /\ state' = s
  /\ IF s = state THEN UNCHANGED heard
     ELSE /\ IF stopped THEN UNCHANGED health ELSE Health(s)
          /\ WaitForOpen(s)

\* startSocket, up to its first await.
StartSocket(background) ==
  /\ attempt' = attempt + 1
  /\ SetState("connecting")
  /\ watchdog' = attempt + 1
  /\ loading' = loading \cup {[id |-> attempt + 1, background |-> background]}

\* scheduleRetry: spend the budget, or give up.
ScheduleRetry ==
  /\ retries' = retries + 1
  /\ IF retries' > MaxAttempts
     THEN SetState("closed") /\ UNCHANGED sleeping
     ELSE sleeping' = sleeping + 1 /\ UNCHANGED <<state, heard>>

\* end() on the socket of attempt n, if it is still there.
EndSocket(n) ==
  /\ live' = {s \in live : s.id # n}
  /\ closing' = closing \cup {s \in live : s.id = n}

-----------------------------------------------------------------------------
(* The callers of the transport.                                           *)

\* main connects once.
Connect ==
  /\ Running
  /\ attempt = 0 /\ ~intentional
  /\ StartSocket(FALSE)
  /\ UNCHANGED <<sock, live, closing, retry, flags, version, world>>

\* connect() has resolved: a state settled waitForOpen, and the socket of the
\* awaited startSocket itself is no longer to come.
Started == main = "up" /\ ~\E c \in loading : ~c.background

\* Offered to whoever is connected; the runner's reconnect command uses it.
ForceReconnect ==
  /\ Started /\ ~stopped
  /\ Event
  /\ forced' = TRUE
  /\ EndSocket(sock)
  /\ UNCHANGED <<state, attempt, loading, sock, watchdog, retry, intentional, version,
                 upstream, refused, lateFailure, heard>>

\* The shutdown handler: health.stop(), then disconnect().
Shutdown ==
  /\ Running
  /\ Started /\ ~stopped
  /\ stopped' = TRUE /\ grace' = FALSE
  /\ intentional' = TRUE
  /\ watchdog' = 0
  /\ EndSocket(sock)
  /\ state' = "closed"
  /\ UNCHANGED <<attempt, loading, sock, retry, forced, version, world, alerted, main>>

-----------------------------------------------------------------------------
(* A connect completes: the auth state is loaded and the socket built.     *)

\* Mutant: an abandoned connect is adopted like any other.
SocketBuiltMutant ==
  Running /\ \E c \in loading :
    /\ loading' = loading \ {c}
    /\ sock' = c.id
    /\ live' = live \cup {[id |-> c.id, version |-> version, opened |-> FALSE]}
    /\ UNCHANGED <<state, attempt, closing, watchdog, retry, flags, version, world, heard>>

\* A superseded connect's socket is ended before anybody listens to it.
SocketBuilt ==
  Running /\ \E c \in loading :
    /\ loading' = loading \ {c}
    /\ IF c.id = attempt
       THEN /\ sock' = c.id
            /\ live' = live \cup {[id |-> c.id, version |-> version, opened |-> FALSE]}
       ELSE UNCHANGED <<sock, live>>
    /\ UNCHANGED <<state, attempt, closing, watchdog, retry, flags, version, world, heard>>

\* Mutant: a rejected connect is caught and forgotten.
ConnectRejectedMutant ==
  Running /\ \E c \in loading :
    /\ c.background
    /\ loading' = loading \ {c}
    /\ lateFailure' = (lateFailure \/ c.id # attempt)
    /\ watchdog' = 0
    /\ UNCHANGED <<state, retry, heard, attempt, sock, live, closing, flags, version,
                   upstream, refused, events>>

\* A background connect rejects, whichever attempt it was.
ConnectRejected ==
  Running /\ \E c \in loading :
    /\ c.background
    /\ loading' = loading \ {c}
    /\ lateFailure' = (lateFailure \/ c.id # attempt)
    /\ watchdog' = 0
    /\ IF intentional THEN UNCHANGED <<state, retry, heard>>
       ELSE ScheduleRetry /\ UNCHANGED probing
    /\ UNCHANGED <<attempt, sock, live, closing, flags, version, upstream, refused, events>>

\* main awaits its own connect: a rejection ends the process.
ConnectFails ==
  Running /\ \E c \in loading :
    /\ ~c.background
    /\ loading' = loading \ {c}
    /\ main' = "exited"
    /\ UNCHANGED <<state, attempt, sock, live, closing, watchdog, retry, flags, version,
                   world, health>>

-----------------------------------------------------------------------------
(* Events of a socket.  The adapter ignores those of another attempt.      *)

Opens ==
  /\ Event
  /\ \E s \in live :
       /\ ~s.opened /\ s.version \notin refused
       /\ live' = (live \ {s}) \cup {[s EXCEPT !.opened = TRUE]}
       /\ IF s.id = attempt
          THEN watchdog' = 0 /\ retries' = 0 /\ SetState("open")
          ELSE UNCHANGED <<watchdog, retries, state, heard>>
  /\ UNCHANGED <<attempt, loading, sock, closing, sleeping, probing, flags, version,
                 upstream, refused, lateFailure>>

\* The close event of s reaches the listener: WhatsApp or the network closed
\* it, or the adapter has ended it.
Closed(s) ==
  /\ s \in live \cup closing
  /\ live' = live \ {s}
  /\ closing' = closing \ {s}

ClosedAbandoned ==
  Running /\ \E s \in live \cup closing :
    /\ s.id # attempt
    /\ Closed(s)
    /\ UNCHANGED <<state, attempt, loading, sock, watchdog, retry, flags, version, world, heard>>

ClosedIntentionally ==
  Running /\ \E s \in live \cup closing :
    /\ s.id = attempt /\ intentional
    /\ Closed(s)
    /\ watchdog' = 0
    /\ SetState("closed")
    /\ UNCHANGED <<attempt, loading, sock, retry, flags, version, world>>

ClosedForRestart ==
  Running /\ \E s \in live \cup closing :
    /\ s.id = attempt /\ ~intentional /\ forced
    /\ Closed(s)
    /\ forced' = FALSE
    /\ StartSocket(TRUE)
    /\ UNCHANGED <<sock, retry, intentional, version, world>>

\* Mutant: a logout is retried like any other drop.
LoggedOutMutant ==
  Running /\ \E s \in live :
    /\ s.id = attempt /\ ~intentional /\ ~forced
    /\ Closed(s)
    /\ watchdog' = 0
    /\ SetState("logged-out")
    /\ sleeping' = sleeping + 1
    /\ UNCHANGED <<attempt, loading, sock, probing, retries, flags, version, world>>

LoggedOut ==
  Running /\ \E s \in live :
    /\ s.id = attempt /\ ~intentional /\ ~forced
    /\ Closed(s)
    /\ watchdog' = 0
    /\ SetState("logged-out")
    /\ UNCHANGED <<attempt, loading, sock, retry, flags, version, world>>

RestartRequired ==
  /\ Event
  /\ \E s \in live :
       /\ s.id = attempt /\ ~intentional /\ ~forced
       /\ Closed(s)
       /\ StartSocket(TRUE)
  /\ UNCHANGED <<sock, retry, flags, version, upstream, refused, lateFailure>>

VersionRejected ==
  Running /\ \E s \in live :
    /\ s.id = attempt /\ ~intentional /\ ~forced
    /\ s.version \in refused
    /\ Closed(s)
    /\ watchdog' = 0
    /\ probing' = probing + 1
    /\ UNCHANGED <<state, attempt, loading, sock, sleeping, retries, flags, version,
                   world, heard>>

\* Any other code, also none: the close of a socket the adapter ended.
Dropped ==
  Running /\ \E s \in live \cup closing :
    /\ s.id = attempt /\ ~intentional /\ ~forced
    /\ Closed(s)
    /\ watchdog' = 0
    /\ ScheduleRetry
    /\ UNCHANGED <<attempt, loading, sock, probing, flags, version, world>>

-----------------------------------------------------------------------------
(* Timers, sleeps and probes.                                              *)

WatchdogFires ==
  /\ Running
  /\ watchdog # 0 /\ watchdog = attempt
  /\ watchdog' = 0
  /\ attempt' = attempt + 1
  /\ sock' = 0
  /\ EndSocket(sock)
  /\ ScheduleRetry
  /\ UNCHANGED <<loading, probing, flags, version, world>>

BackoffEnds ==
  /\ Running
  /\ sleeping > 0
  /\ sleeping' = sleeping - 1
  /\ IF intentional THEN UNCHANGED <<state, attempt, loading, watchdog, heard>>
     ELSE StartSocket(TRUE)
  /\ UNCHANGED <<sock, live, closing, probing, retries, flags, version, world>>

\* Mutant: whatever the probe says, nobody waits for it.
ProbeReturnsMutant ==
  /\ Running
  /\ probing > 0
  /\ probing' = probing - 1
  /\ UNCHANGED <<state, attempt, loading, watchdog, sleeping, retries, heard, version>>
  /\ UNCHANGED <<sock, live, closing, flags, world>>

\* fallForward: adopt what upstream publishes if it is another version, with
\* a fresh budget; if it is the same or cannot be reached, retry on budget.
ProbeReturns ==
  /\ Running
  /\ probing > 0
  /\ probing' = probing - 1
  /\ \/ /\ upstream # version
        /\ version' = upstream
        /\ IF intentional
           THEN UNCHANGED <<state, attempt, loading, watchdog, sleeping, retries, heard>>
           ELSE retries' = 0 /\ StartSocket(TRUE) /\ UNCHANGED sleeping
     \/ /\ UNCHANGED version
        /\ IF intentional THEN UNCHANGED <<state, sleeping, retries, heard>> ELSE ScheduleRetry
        /\ UNCHANGED <<attempt, loading, watchdog>>
  /\ UNCHANGED <<sock, live, closing, flags, world>>

GraceEnds ==
  /\ Running
  /\ grace
  /\ grace' = FALSE /\ alerted' = TRUE
  /\ UNCHANGED <<state, attempt, wire, watchdog, retry, flags, version, world, stopped, main>>

-----------------------------------------------------------------------------
(* WhatsApp retires a version, upstream publishes one.                     *)

Refuse ==
  /\ Event
  /\ \E v \in Versions \ refused : refused' = refused \cup {v}
  /\ UNCHANGED <<state, attempt, wire, watchdog, retry, flags, version, upstream,
                 lateFailure, heard>>

Publish ==
  /\ Event
  /\ \E v \in Versions \ {upstream} : upstream' = v
  /\ UNCHANGED <<state, attempt, wire, watchdog, retry, flags, version, refused,
                 lateFailure, heard>>

SocketEvents ==
  \/ Opens \/ ClosedAbandoned \/ LoggedOut \/ RestartRequired \/ VersionRejected

LocalCloses == ClosedIntentionally \/ ClosedForRestart \/ Dropped

Next ==
  \/ Connect \/ ForceReconnect \/ Shutdown
  \/ SocketBuilt \/ ConnectRejected \/ ConnectFails
  \/ SocketEvents \/ LocalCloses
  \/ WatchdogFires \/ BackoffEnds \/ ProbeReturns \/ GraceEnds
  \/ Refuse \/ Publish

\* Timers fire, sleeps and probes end, main connects, and a socket the
\* adapter has ended reports its close.  WhatsApp owes nothing: a socket may
\* neither open nor close, and a connect may hang for ever.
Fairness ==
  /\ WF_vars(Connect)
  /\ WF_vars(WatchdogFires)
  /\ WF_vars(BackoffEnds)
  /\ WF_vars(ProbeReturns)
  /\ WF_vars(GraceEnds)
  /\ WF_vars(closing # {} /\ (LocalCloses \/ ClosedAbandoned))

Spec == Init /\ [][Next]_vars /\ Fairness

-----------------------------------------------------------------------------
(* Properties.                                                             *)

Connected == \E s \in live : s.id = attempt /\ s.opened

\* The edge that was missing for 17 hours (SOCKET-DEAD-001): as long as the
\* adapter calls itself open or connecting, a socket is up, or something is
\* scheduled that will make it act.
Scheduled == watchdog # 0 \/ sleeping > 0 \/ probing > 0
NeverDeaf ==
  /\ state = "connecting" => Scheduled
  /\ state = "open" => Connected \/ Scheduled \/ \E s \in closing : s.id = attempt

\* The health monitor follows the adapter: a running grace timer or a sent
\* alert exactly while the socket is not open, so an outage is never missed
\* and recovery never leaves a stale alert behind (health.ts, onStateChange).
HealthInSync ==
  attempt > 0 /\ ~stopped => (state = "open" <=> ~(grace \/ alerted))

\* No path arms or keeps a watchdog across an intentional close (the comment
\* in onConnectTimeout that justifies its single guard).
ShutdownDisarms == intentional => watchdog = 0

\* The process owns one WhatsApp socket at a time, however connects, timeouts
\* and closes interleave - unless an abandoned connect rejects late.
OneSocket == ~lateFailure => Cardinality(live) <= 1

\* One retry is under way at a time: reconnects never multiply (the same
\* exception).
OneRetry ==
  ~lateFailure =>
    sleeping + probing + Cardinality({c \in loading : c.id = attempt}) <= 1

OneOfEach == OneSocket /\ OneRetry

\* A revoked pairing is never reconnected to on its own (classifyDisconnect).
LogoutIsFinal ==
  [][state = "logged-out" /\ ~lateFailure' => state' \in {"logged-out", "closed"}]_vars

\* An attempt that neither opens nor closes is not the end: connecting is
\* always left, for open or for giving up.
ConnectingEnds == state = "connecting" ~> state # "connecting" \/ main = "exited"
\* Whoever is not connected is reconnected, or a human hears of it.
OutageIsHeard == ~Connected ~> Connected \/ alerted \/ stopped \/ main = "exited"
OutagesEnd == ConnectingEnds /\ OutageIsHeard
=============================================================================
