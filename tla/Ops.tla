-------------------------------- MODULE Ops ---------------------------------
(***************************************************************************)
(* What the operator gets to see of the running process: the client        *)
(* version it announces and the watch that tells of it on Telegram         *)
(* (src/transport/wa-version.ts, src/ops/wa-version-watch.ts), the spans   *)
(* its turns emit and the sink that batches them to Langfuse               *)
(* (src/ops/tracing.ts, langfuse-sink.ts), the dead-man pings (deadman.ts) *)
(* and the order in which main.ts starts and stops them.                   *)
(*                                                                         *)
(* Probes of the published version take their time: the socket may have    *)
(* adopted another version, in another probe, before one comes back.       *)
(***************************************************************************)
EXTENDS Naturals, FiniteSets, Sequences, SequencesExt

CONSTANTS
  Probes,      \* probes that may be under way together
  Newest,      \* bound: versions are 1 .. Newest, in the order of publication
  Blind,       \* failed probes in a row before the watch calls itself blind
  MaxLog,      \* bound on the watch's events
  Traces,      \* turns that emit spans
  MaxSpans,    \* bound on the spans emitted
  FlushAt,     \* length of the buffer that triggers a flush
  Scenarios    \* bound: which of the two, watch and sink, act in a behaviour

ASSUME OpsConstants ==
  /\ Newest \in Nat \ {0} /\ Blind \in Nat \ {0} /\ MaxLog \in Nat
  /\ MaxSpans \in Nat /\ FlushAt \in Nat \ {0}
  /\ Scenarios \subseteq SUBSET {"watch", "sink"}

VARIABLES
  acts,       \* what acts in this behaviour (never changes)
  phase,      \* of main: starting, up, stopping, flushing, flushed, exited
  pinging,    \* the dead-man timer is armed
  polling,    \* the watch's daily timer is armed
  active,     \* the version the next socket announces
  upstream,   \* the version published
  probe,      \* per probe: what for, what it has seen, what it missed
  failures,   \* failed probes in a row
  notified,   \* what the watch has told already, per condition
  log,        \* history: the events the watch was given
  told,       \* history: those it raised an alert for
  buffer,     \* trace events waiting to be sent
  announced,  \* traces whose create event was buffered
  wire,       \* batches on their way to Langfuse
  awaited,    \* the batch the shutdown waits for
  spans,      \* history: spans emitted, as <<trace, number>>
  late,       \* history: spans emitted behind the shutdown's flush
  arrived,    \* history: trace events in the order Langfuse took them
  lost        \* history: trace events of batches that failed

watch == <<active, upstream, probe, failures, notified, log, told>>
sink  == <<buffer, announced, wire, awaited, spans, late, arrived, lost>>
opsVars == <<acts, phase, pinging, polling, watch, sink>>

Idle   == [for |-> "none", seen |-> 0, missed |-> FALSE]
Unread == Newest + 1
Failed == 0
Never  == 0

OpsInit ==
  /\ acts \in Scenarios
  /\ phase = "starting" /\ pinging = FALSE /\ polling = FALSE
  /\ active = 1 /\ upstream \in 1 .. Newest
  /\ probe = [p \in Probes |-> Idle]
  /\ failures = 0 /\ notified = [blind |-> FALSE, stale |-> Never, noUpgrade |-> Never]
  /\ log = <<>> /\ told = {}
  /\ buffer = <<>> /\ announced = {} /\ wire = {} /\ awaited = <<>>
  /\ spans = {} /\ late = {} /\ arrived = <<>> /\ lost = {}

-----------------------------------------------------------------------------
(* The version source.                                                     *)

Begin(p, what) ==
  /\ probe[p] = Idle
  /\ Len(log) < MaxLog
  /\ probe' = [probe EXCEPT ![p] = [for |-> what, seen |-> Unread, missed |-> FALSE]]

\* The daily check, and the one startPolling runs at once.
Check(p) ==
  /\ "watch" \in acts /\ polling
  /\ Begin(p, "check")
  /\ UNCHANGED <<acts, phase, pinging, polling, active, upstream, failures, notified, log, told, sink>>

\* WhatsApp refuses the announced version: the transport falls forward.
Refused(p) ==
  /\ "watch" \in acts /\ phase \in {"starting", "up"}
  /\ Begin(p, "forward")
  /\ UNCHANGED <<acts, phase, pinging, polling, active, upstream, failures, notified, log, told, sink>>

\* fetchUpstream: the version published now, or null for any failure.
Fetch(p) ==
  /\ probe[p].seen = Unread /\ phase # "exited"
  /\ \E v \in {upstream, Failed} : probe' = [probe EXCEPT ![p].seen = v]
  /\ UNCHANGED <<acts, phase, pinging, polling, active, upstream, failures, notified, log, told, sink>>

Publish ==
  /\ "watch" \in acts /\ upstream < Newest
  /\ upstream' = upstream + 1
  /\ UNCHANGED <<acts, phase, pinging, polling, active, probe, failures, notified, log, told, sink>>

\* Mutant: the answer is compared with the pin, which was refused long since.
EventMutant(q) ==
  [kind |-> IF q.seen = Failed THEN "probe-failed"
            ELSE IF q.for = "check" THEN IF q.seen = active THEN "current" ELSE "stale"
            ELSE IF q.seen = 1 THEN "no-upgrade" ELSE "adopted",
   v |-> q.seen, from |-> active, missed |-> q.missed]

\* checkUpstream and fallForward: what an answer means, against the version
\* that is active when it comes.
Event(q) ==
  [kind |-> IF q.seen = Failed THEN "probe-failed"
            ELSE IF q.for = "check" THEN IF q.seen = active THEN "current" ELSE "stale"
            ELSE IF q.seen = active THEN "no-upgrade" ELSE "adopted",
   v |-> q.seen, from |-> active, missed |-> q.missed]

-----------------------------------------------------------------------------
(* The watch: onEvent.                                                     *)

\* The latches behind an event.  Any probe that succeeds ends a blind streak;
\* a current pin clears the stale one; the no-upgrade latch is never cleared.
After(e) ==
  [blind |-> e.kind = "probe-failed" /\ (notified.blind \/ failures + 1 >= Blind),
   stale |-> IF e.kind = "stale" THEN e.v ELSE IF e.kind = "current" THEN Never ELSE notified.stale,
   noUpgrade |-> IF e.kind = "no-upgrade" THEN e.v ELSE notified.noUpgrade]

\* Mutant: a succeeding fall-forward does not end the blind streak.
StreakMutant(e) == IF e.kind \in {"adopted", "no-upgrade"} THEN failures ELSE
                   IF e.kind = "probe-failed" THEN failures + 1 ELSE 0

Streak(e) == IF e.kind = "probe-failed" THEN failures + 1 ELSE 0

Alerts(e) ==
  \/ e.kind = "probe-failed" /\ failures + 1 >= Blind /\ ~notified.blind
  \/ e.kind = "stale" /\ e.v # notified.stale
  \/ e.kind = "no-upgrade" /\ e.v # notified.noUpgrade
  \/ e.kind = "adopted"

\* A probe comes back: the source adopts or not, and the watch hears of it.
Report(p) ==
  /\ probe[p].for # "none" /\ probe[p].seen # Unread /\ phase # "exited"
  /\ LET e == Event(probe[p]) IN
       /\ active' = IF e.kind = "adopted" THEN e.v ELSE active
       /\ probe' = [q \in Probes |->
                      IF q = p THEN Idle
                      ELSE [probe[q] EXCEPT !.missed =
                              @ \/ (e.kind = "adopted" /\ probe[q].for # "none")]]
       /\ failures' = Streak(e)
       /\ notified' = After(e)
       /\ log' = Append(log, e)
       /\ told' = IF Alerts(e) THEN told \cup {Len(log')} ELSE told
  /\ UNCHANGED <<acts, phase, pinging, polling, upstream, sink>>

-----------------------------------------------------------------------------
(* The trace sink.                                                         *)

Create(t) == <<t, 0>>

\* A trace's first span announces it.
Enqueued(s) ==
  buffer \o (IF s[1] \in announced THEN <<>> ELSE <<Create(s[1])>>) \o <<s>>

\* A step of a turn ends: emit, and flush when the buffer is long enough.
\* Nobody waits for that flush, and the turn goes on whatever comes of it.
Emit(t) ==
  /\ "sink" \in acts /\ phase # "exited"
  /\ Cardinality(spans) < MaxSpans
  /\ LET s == <<t, Cardinality(spans) + 1>> IN
       /\ spans' = spans \cup {s}
       /\ late' = IF phase \in {"flushing", "flushed"} THEN late \cup {s} ELSE late
       /\ IF Len(Enqueued(s)) >= FlushAt
          THEN buffer' = <<>> /\ wire' = wire \cup {Enqueued(s)}
          ELSE buffer' = Enqueued(s) /\ UNCHANGED wire
  /\ announced' = announced \cup {t}
  /\ UNCHANGED <<acts, phase, pinging, polling, watch, awaited, arrived, lost>>

\* Langfuse takes the batch.
BatchLands(b) ==
  /\ wire' = wire \ {b}
  /\ arrived' = arrived \o b
  /\ UNCHANGED <<acts, phase, pinging, polling, watch, buffer, announced, awaited, spans, late, lost>>

\* Mutant: a failed batch goes back to the buffer.
BatchFailsMutant(b) ==
  /\ wire' = wire \ {b}
  /\ \E taken \in {<<>>, <<Head(b)>>, b} : arrived' = arrived \o taken
  /\ buffer' = b \o buffer
  /\ lost' = lost \cup ToSet(b)
  /\ UNCHANGED <<acts, phase, pinging, polling, watch, announced, awaited, spans, late>>

\* An HTTP error, a timeout, or items rejected in the answer: the sink does
\* not know what was taken, and sends none of it again.
BatchFails(b) ==
  /\ wire' = wire \ {b}
  /\ \E taken \in {<<>>, <<Head(b)>>, b} : arrived' = arrived \o taken
  /\ lost' = lost \cup ToSet(b)
  /\ UNCHANGED <<acts, phase, pinging, polling, watch, buffer, announced, awaited, spans, late>>

-----------------------------------------------------------------------------
(* main.ts: start behind the socket, stop in front of it.                  *)

Up ==
  /\ phase = "starting"
  /\ phase' = "up" /\ pinging' = TRUE /\ polling' = TRUE
  /\ UNCHANGED <<acts, watch, sink>>

\* SIGTERM, once: the timers are cleared before anything is awaited.
Stop ==
  /\ phase = "up"
  /\ phase' = "stopping" /\ pinging' = FALSE /\ polling' = FALSE
  /\ UNCHANGED <<acts, watch, sink>>

\* The socket and the reply client are closed: sink.flush() sends the rest.
Flush ==
  /\ phase = "stopping"
  /\ phase' = "flushing"
  /\ awaited' = buffer
  /\ buffer' = <<>>
  /\ wire' = IF buffer = <<>> THEN wire ELSE wire \cup {buffer}
  /\ UNCHANGED <<acts, pinging, polling, watch, announced, spans, late, arrived, lost>>

\* Its outcome is in, whatever it is: a grace period, then the end.
Flushed ==
  /\ phase = "flushing" /\ awaited \notin wire
  /\ phase' = "flushed"
  /\ UNCHANGED <<acts, pinging, polling, watch, sink>>

Exit ==
  /\ phase = "flushed"
  /\ phase' = "exited"
  /\ UNCHANGED <<acts, pinging, polling, watch, sink>>

-----------------------------------------------------------------------------
OpsNext ==
  \/ \E p \in Probes : Check(p) \/ Refused(p) \/ Fetch(p) \/ Report(p)
  \/ Publish
  \/ \E t \in Traces : Emit(t)
  \/ \E b \in wire : BatchLands(b) \/ BatchFails(b)
  \/ Up \/ Stop \/ Flush \/ Flushed \/ Exit

-----------------------------------------------------------------------------
(* Properties.                                                             *)

Latest(i, kinds) ==
  LET before == {j \in 1 .. i - 1 : log[j].kind \in kinds} IN
  IF before = {} THEN [kind |-> "none", v |-> Never]
  ELSE log[CHOOSE j \in before : \A k \in before : k <= j]

\* The events a standing condition is told at: the Blind-th failure of an
\* unbroken streak; a stale version that is not the one of the last answer a
\* check had; a refusal that differs from the last one; every adoption.
Edge(i) ==
  LET e == log[i] IN
  CASE e.kind = "probe-failed" ->
         /\ i >= Blind
         /\ \A j \in i - Blind + 1 .. i : log[j].kind = "probe-failed"
         /\ i = Blind \/ log[i - Blind].kind # "probe-failed"
    [] e.kind = "stale" ->
         LET d == Latest(i, {"stale", "current"}) IN ~(d.kind = "stale" /\ d.v = e.v)
    [] e.kind = "no-upgrade" -> Latest(i, {"no-upgrade"}).v # e.v
    [] OTHER -> e.kind = "adopted"

\* The watch is edge-triggered: whatever order daily checks and fall-forwards
\* report in, it tells each condition when it begins and not again while it
\* stands (wa-version-watch.ts keeps four latches; this is what they are for).
TellsEdges == told = {i \in DOMAIN log : Edge(i)}

\* The announced version only goes forward, and what the operator is told is
\* newer is newer, unless a probe was under way while another one adopted: its
\* answer may be the older one, and then it is adopted, or told, all the same.
VersionsAdvance ==
  \A i \in DOMAIN log :
    log[i].kind \in {"adopted", "stale"} => log[i].v > log[i].from \/ log[i].missed

\* Every span is in the buffer, on its way, taken or lost with its batch, and
\* Langfuse gets it at most once; a trace is announced with or before its first
\* span, so a span comes alone only if the announcement was lost or is behind
\* it on the wire.  A stop leaves in the buffer only what came after the flush.
TracesWhole ==
  LET Sent == UNION {ToSet(b) : b \in wire}
  IN /\ IsInjective(arrived) /\ IsInjective(buffer)
     /\ ToSet(buffer) \cap (Sent \cup ToSet(arrived) \cup lost) = {}
     /\ spans \subseteq ToSet(buffer) \cup Sent \cup ToSet(arrived) \cup lost
     /\ \A s \in ToSet(arrived) : Create(s[1]) \in Sent \cup ToSet(arrived) \cup lost
     /\ phase \in {"flushing", "flushed", "exited"} => ToSet(buffer) \cap spans \subseteq late
=============================================================================
