------------------------------- MODULE Intake -------------------------------
(***************************************************************************)
(* How work reaches a conversation's inbox: messages that WhatsApp         *)
(* delivers, the bot's own messages that come back as echoes, and due      *)
(* reminders the minutely sweep finds (src/transport/baileys.ts            *)
(* handleUpsert and send, protocol.ts RecentIds, src/orchestration/        *)
(* ingest.ts, scheduled.ts, src/tools/reminders.ts).  Everything enters    *)
(* through one enqueue workflow whose id is made of the message or of the  *)
(* firing; what happens behind the inbox is module Lane.                   *)
(***************************************************************************)
EXTENDS Naturals, FiniteSets, Sequences, SequencesExt

CONSTANTS
  Household,     \* messages of the household's conversations
  Stranger,      \* messages of the account's other chats, or malformed ones
  Own,           \* messages the bot sends, which may come back
  Capacity,      \* how many sent ids RecentIds holds
  RemOrder,      \* the reminders, in the order of their due times
  Sweeps,        \* sweep workflows that may be under way together
  AckKinds,      \* TRUE: the transport forgets a message when it is acked;
                 \* FALSE: when it hands it over (Baileys)
  Scenarios,     \* bound: the sets of keys that occur together in a behaviour
  Faults,        \* which calls may throw
  MaxFails,      \* bound on throws
  MaxCrashes     \* bound on crashes

Rem      == ToSet(RemOrder)
Incoming == Household \cup Stranger \cup Own
Keys     == Incoming \cup Rem

ASSUME IntakeConstants ==
  /\ Household \cap Stranger = {} /\ Own \cap (Household \cup Stranger) = {} /\ Rem \cap Incoming = {}
  /\ Capacity \in Nat \ {0}
  /\ AckKinds \subseteq BOOLEAN /\ Scenarios \subseteq SUBSET Keys
  /\ Faults \subseteq {"start", "insert", "send"}
  /\ MaxFails \in Nat /\ MaxCrashes \in Nat

VARIABLES
  deferred,   \* the transport's kind (never changes)
  occurs,     \* the keys that occur (never changes)
  up,         \* the process is running, its socket open
  written,    \* messages that were ever sent to the account
  held,       \* messages the transport still has to deliver or redeliver
  offered,    \* messages handed over on this connection
  handler,    \* per message: its ingest call is idle, starting or waiting
  wf,         \* per key: status of its enqueue workflow
  wfLive,     \* enqueue workflows executing in this process
  inbox,      \* keys with an inbox row
  flight,     \* per own message: none, sending, sent, or given up on
  wired,      \* own messages that really left
  sentIds,    \* RecentIds, oldest first; in memory only
  receipts,   \* history: own messages whose receipt was recorded, in order
  row,        \* per reminder: its status
  ripe,       \* reminders whose due time has passed
  sweep,      \* per sweep: idle, read, next, wait, or error
  list,       \* per sweep: due reminders of its read it is not done with
  sweepLive,  \* sweeps executing in this process
  kept,       \* history: reminders cancelled before any sweep had read them
  fails, crashes

intake    == <<written, held, offered, handler>>
enqueue   == <<wf, wfLive, inbox>>
echoes    == <<flight, wired, sentIds, receipts>>
reminders == <<row, ripe, sweep, list, sweepLive, kept>>
budget    == <<deferred, occurs, fails, crashes>>
vars      == <<up, intake, enqueue, echoes, reminders, budget>>

Init ==
  /\ deferred \in AckKinds /\ occurs \in Scenarios
  /\ up = TRUE
  /\ written = {} /\ held = {} /\ offered = {}
  /\ handler = [m \in Incoming |-> "idle"]
  /\ wf = [k \in Keys |-> "none"] /\ wfLive = {} /\ inbox = {}
  /\ flight = [o \in Own |-> "none"] /\ wired = {} /\ sentIds = <<>> /\ receipts = <<>>
  /\ row = [r \in Rem |-> "none"] /\ ripe = {}
  /\ sweep = [s \in Sweeps |-> "idle"] /\ list = [s \in Sweeps |-> {}] /\ sweepLive = {}
  /\ kept = {}
  /\ fails = 0 /\ crashes = 0

MayThrow(f) == f \in Faults /\ fails < MaxFails /\ fails' = fails + 1

-----------------------------------------------------------------------------
(* Inbound messages.                                                       *)

\* Somebody writes; WhatsApp has the message, whether the socket is up or not.
Write(m) ==
  /\ m \in ((Household \cup Stranger) \cap occurs) \ written
  /\ written' = written \cup {m}
  /\ held' = held \cup {m}
  /\ UNCHANGED <<up, offered, handler, enqueue, echoes, reminders, budget>>

IsEcho(m) == m \in ToSet(sentIds)

\* handleUpsert drops echoes; createIngestion acks what is malformed or of
\* another chat; everything else goes on to the durable enqueue.
Deliver(m) ==
  /\ up
  /\ m \in held \ offered
  /\ offered' = offered \cup {m}
  /\ IF m \in Stranger \/ IsEcho(m)
     THEN held' = held \ {m} /\ UNCHANGED handler
     ELSE /\ held' = IF deferred THEN held ELSE held \ {m}
          /\ handler' = [handler EXCEPT ![m] = "starting"]
  /\ UNCHANGED <<up, written, enqueue, echoes, reminders, budget>>

\* DBOS.startWorkflow under ingest-<id>: an id that exists is found.
Started(k) ==
  IF wf[k] = "none"
  THEN wf' = [wf EXCEPT ![k] = "pending"] /\ wfLive' = wfLive \cup {k}
  ELSE UNCHANGED <<wf, wfLive>>

StartEnqueue(m) ==
  /\ handler[m] = "starting"
  /\ Started(m)
  /\ handler' = [handler EXCEPT ![m] = "waiting"]
  /\ UNCHANGED <<up, written, held, offered, inbox, echoes, reminders, budget>>

\* enqueue-failed: no record, no ack.
StartThrows(m) ==
  /\ handler[m] = "starting"
  /\ MayThrow("start")
  /\ handler' = [handler EXCEPT ![m] = "idle"]
  /\ UNCHANGED <<up, written, held, offered, enqueue, echoes, reminders, deferred, occurs, crashes>>

\* Mutant: acked when the workflow is started, not when it is done.
EnqueuedMutant(m) ==
  /\ handler[m] = "waiting"
  /\ handler' = [handler EXCEPT ![m] = "idle"]
  /\ held' = held \ {m}
  /\ UNCHANGED <<up, written, offered, enqueue, echoes, reminders, budget>>

\* The workflow's result: success is acked, an error is not.
Enqueued(m) ==
  /\ handler[m] = "waiting"
  /\ wf[m] \in {"success", "error"}
  /\ handler' = [handler EXCEPT ![m] = "idle"]
  /\ held' = IF wf[m] = "success" THEN held \ {m} ELSE held
  /\ UNCHANGED <<up, written, offered, enqueue, echoes, reminders, budget>>

-----------------------------------------------------------------------------
(* enqueueConversationItem (Lane opens it up).                             *)

RunEnqueue(k) ==
  /\ k \in wfLive
  /\ inbox' = inbox \cup {k}
  /\ wf' = [wf EXCEPT ![k] = "success"]
  /\ wfLive' = wfLive \ {k}
  /\ UNCHANGED <<up, intake, echoes, reminders, budget>>

\* The insert's transaction throws: the workflow's error is recorded for good.
EnqueueErrors(k) ==
  /\ k \in wfLive
  /\ MayThrow("insert")
  /\ wf' = [wf EXCEPT ![k] = "error"]
  /\ wfLive' = wfLive \ {k}
  /\ UNCHANGED <<up, intake, inbox, echoes, reminders, deferred, occurs, crashes>>

-----------------------------------------------------------------------------
(* The bot's own messages and their echoes.                                *)

\* Mutant: an id that is the capacity's last is evicted with the next.
RememberMutant(s, o) ==
  LET t == Append(s, o) IN IF Len(t) >= Capacity THEN Tail(t) ELSE t

\* RecentIds.add: beyond the capacity the oldest id is forgotten.
Remember(s, o) ==
  LET t == Append(s, o) IN IF Len(t) > Capacity THEN Tail(t) ELSE t

BeginSend(o) ==
  /\ up /\ o \in occurs
  /\ flight[o] = "none"
  /\ flight' = [flight EXCEPT ![o] = "sending"]
  /\ UNCHANGED <<up, intake, enqueue, wired, sentIds, receipts, reminders, budget>>

\* The message leaves, while it is awaited or after it was given up on.
Leave(o) ==
  /\ up
  /\ flight[o] \in {"sending", "gaveUp"}
  /\ wired' = wired \cup {o}
  /\ UNCHANGED <<up, intake, enqueue, flight, sentIds, receipts, reminders, budget>>

Receipt(o) ==
  /\ up
  /\ flight[o] = "sending"
  /\ o \in wired
  /\ flight' = [flight EXCEPT ![o] = "sent"]
  /\ sentIds' = Remember(sentIds, o)
  /\ receipts' = Append(receipts, o)
  /\ UNCHANGED <<up, intake, enqueue, wired, reminders, budget>>

\* The send's timer wins the race: send() throws and learns no id.
SendTimesOut(o) ==
  /\ up
  /\ flight[o] = "sending"
  /\ MayThrow("send")
  /\ flight' = [flight EXCEPT ![o] = "gaveUp"]
  /\ UNCHANGED <<up, intake, enqueue, wired, sentIds, receipts, reminders, deferred, occurs, crashes>>

\* What left comes back to the account it was sent from.
Echo(o) ==
  /\ o \in wired \ written
  /\ flight[o] # "sending"
  /\ written' = written \cup {o}
  /\ held' = held \cup {o}
  /\ UNCHANGED <<up, offered, handler, enqueue, echoes, reminders, budget>>

-----------------------------------------------------------------------------
(* Reminders and their sweep.                                              *)

Create(r) ==
  /\ up /\ r \in occurs /\ row[r] = "none"
  /\ row' = [row EXCEPT ![r] = "scheduled"]
  /\ UNCHANGED <<up, intake, enqueue, echoes, ripe, sweep, list, sweepLive, kept, budget>>

Rank(r) == CHOOSE i \in DOMAIN RemOrder : RemOrder[i] = r

\* Due times pass in the order of the reminders.
FallDue(r) ==
  /\ row[r] # "none" /\ r \notin ripe
  /\ \A q \in Rem \ ripe : row[q] # "none" => Rank(r) <= Rank(q)
  /\ ripe' = ripe \cup {r}
  /\ UNCHANGED <<up, intake, enqueue, echoes, row, sweep, list, sweepLive, kept, budget>>

\* cancel_reminder: the guarded flip; what has fired stays fired.
Cancel(r) ==
  /\ up /\ row[r] = "scheduled"
  /\ row' = [row EXCEPT ![r] = "cancelled"]
  /\ kept' = IF wf[r] = "none" /\ \A s \in Sweeps : r \notin list[s]
             THEN kept \cup {r} ELSE kept
  /\ UNCHANGED <<up, intake, enqueue, echoes, ripe, sweep, list, sweepLive, budget>>

\* The minute's tick; the last one may still be under way.
Tick(s) ==
  /\ up /\ Rem \cap occurs # {} /\ sweep[s] \in {"idle", "error"}
  /\ sweep' = [sweep EXCEPT ![s] = "read"]
  /\ sweepLive' = sweepLive \cup {s}
  /\ UNCHANGED <<up, intake, enqueue, echoes, row, ripe, list, kept, budget>>

\* getDueReminders: still scheduled and past the sweep's time.
Due(r) == r \in ripe /\ row[r] = "scheduled"

SweepRead(s) ==
  /\ s \in sweepLive /\ sweep[s] = "read"
  /\ list' = [list EXCEPT ![s] = {r \in Rem : Due(r)}]
  /\ sweep' = [sweep EXCEPT ![s] = "next"]
  /\ UNCHANGED <<up, intake, enqueue, echoes, row, ripe, sweepLive, kept, budget>>

\* The read is ordered by the due times.
First(S) == {r \in S : \A q \in S : Rank(r) <= Rank(q)}

\* The firing's workflow, remind-<id>-<due>: a racing sweep finds it.
SweepStart(s) ==
  /\ s \in sweepLive /\ sweep[s] = "next"
  /\ \E r \in First(list[s]) : Started(r)
  /\ sweep' = [sweep EXCEPT ![s] = "wait"]
  /\ UNCHANGED <<up, intake, inbox, echoes, row, ripe, list, sweepLive, kept, budget>>

\* Mutant: marked fired as soon as the workflow is started.
SweepMarkMutant(s) ==
  /\ s \in sweepLive /\ sweep[s] = "wait"
  /\ \E r \in First(list[s]) :
       /\ row' = [row EXCEPT ![r] = IF @ = "scheduled" THEN "fired" ELSE @]
       /\ list' = [list EXCEPT ![s] = @ \ {r}]
  /\ sweep' = [sweep EXCEPT ![s] = "next"]
  /\ UNCHANGED <<up, intake, enqueue, echoes, ripe, sweepLive, kept, budget>>

\* Its result is there: mark the row, if it is still scheduled.
SweepMark(s) ==
  /\ s \in sweepLive /\ sweep[s] = "wait"
  /\ \E r \in First(list[s]) :
       /\ wf[r] = "success"
       /\ row' = [row EXCEPT ![r] = IF @ = "scheduled" THEN "fired" ELSE @]
       /\ list' = [list EXCEPT ![s] = @ \ {r}]
  /\ sweep' = [sweep EXCEPT ![s] = "next"]
  /\ UNCHANGED <<up, intake, enqueue, echoes, ripe, sweepLive, kept, budget>>

\* getResult rethrows the recorded error: the sweep ends there.
SweepThrows(s) ==
  /\ s \in sweepLive /\ sweep[s] = "wait"
  /\ \E r \in First(list[s]) : wf[r] = "error"
  /\ list' = [list EXCEPT ![s] = {}]
  /\ sweep' = [sweep EXCEPT ![s] = "error"]
  /\ sweepLive' = sweepLive \ {s}
  /\ UNCHANGED <<up, intake, enqueue, echoes, row, ripe, kept, budget>>

SweepDone(s) ==
  /\ s \in sweepLive /\ sweep[s] = "next" /\ list[s] = {}
  /\ sweep' = [sweep EXCEPT ![s] = "idle"]
  /\ sweepLive' = sweepLive \ {s}
  /\ UNCHANGED <<up, intake, enqueue, echoes, row, ripe, list, kept, budget>>

-----------------------------------------------------------------------------
(* Crash, relaunch, reconnect.                                             *)

\* A send that a crash cuts off has left or not, and nobody learns its id.
Crash ==
  /\ up
  /\ crashes < MaxCrashes
  /\ crashes' = crashes + 1
  /\ up' = FALSE
  /\ offered' = {}
  /\ handler' = [m \in Incoming |-> "idle"]
  /\ wfLive' = {} /\ sweepLive' = {} /\ sentIds' = <<>>
  /\ flight' = [o \in Own |-> IF flight[o] = "sending" THEN "cut" ELSE flight[o]]
  /\ UNCHANGED <<written, held, wf, inbox, wired, receipts, row, ripe, sweep, list, kept, deferred, occurs, fails>>

\* Mutant: the launch pass does not resume enqueue workflows.
RelaunchMutant ==
  /\ ~up
  /\ up' = TRUE
  /\ wfLive' = {}
  /\ sweepLive' = {s \in Sweeps : sweep[s] \in {"read", "next", "wait"}}
  /\ UNCHANGED <<intake, wf, inbox, echoes, row, ripe, sweep, list, kept, budget>>

\* The launch pass resumes what the journal says is pending.
Relaunch ==
  /\ ~up
  /\ up' = TRUE
  /\ wfLive' = {k \in Keys : wf[k] = "pending"}
  /\ sweepLive' = {s \in Sweeps : sweep[s] \in {"read", "next", "wait"}}
  /\ UNCHANGED <<intake, wf, inbox, echoes, row, ripe, sweep, list, kept, budget>>

\* The socket drops and comes back: what was never acked is delivered again.
Reconnect ==
  /\ up
  /\ \E m \in held \cap offered : handler[m] = "idle"
  /\ offered' = {m \in offered : handler[m] # "idle"}
  /\ UNCHANGED <<up, written, held, handler, enqueue, echoes, reminders, budget>>

-----------------------------------------------------------------------------
Ingest(m) == Deliver(m) \/ StartEnqueue(m) \/ Enqueued(m)

Sweep(s) == SweepRead(s) \/ SweepStart(s) \/ SweepMark(s) \/ SweepThrows(s) \/ SweepDone(s)

Next ==
  \/ \E m \in Incoming : Write(m) \/ Ingest(m) \/ StartThrows(m)
  \/ \E k \in Keys : RunEnqueue(k) \/ EnqueueErrors(k)
  \/ \E o \in Own : BeginSend(o) \/ Leave(o) \/ Receipt(o) \/ SendTimesOut(o) \/ Echo(o)
  \/ \E r \in Rem : Create(r) \/ FallDue(r) \/ Cancel(r)
  \/ \E s \in Sweeps : Tick(s) \/ Sweep(s)
  \/ Crash \/ Relaunch \/ Reconnect

\* DBOS runs what is recorded, the handlers go on, the scheduler ticks every
\* minute, and the host restarts a crashed process.
Spec ==
  /\ Init /\ [][Next]_vars
  /\ WF_vars(Relaunch)
  /\ \A m \in Incoming : WF_vars(Ingest(m))
  /\ \A k \in Keys : WF_vars(RunEnqueue(k))
  /\ \A s \in Sweeps : WF_vars(Tick(s)) /\ WF_vars(Sweep(s))

-----------------------------------------------------------------------------
(* Properties.                                                             *)

TypeOK ==
  /\ deferred \in BOOLEAN /\ up \in BOOLEAN
  /\ held \subseteq written /\ written \subseteq Incoming
  /\ handler \in [Incoming -> {"idle", "starting", "waiting"}]
  /\ wf \in [Keys -> {"none", "pending", "success", "error"}]
  /\ wfLive \subseteq {k \in Keys : up /\ wf[k] = "pending"}
  /\ inbox = {k \in Keys : wf[k] = "success"}
  /\ flight \in [Own -> {"none", "sending", "sent", "gaveUp", "cut"}]
  /\ sentIds \in Seq(Own) /\ receipts \in Seq(Own)
  /\ row \in [Rem -> {"none", "scheduled", "fired", "cancelled"}]
  /\ sweep \in [Sweeps -> {"idle", "read", "next", "wait", "error"}]
  /\ list \in [Sweeps -> SUBSET Rem]
  /\ kept \subseteq Rem
  /\ ~up => sweepLive = {} /\ \A m \in Incoming : handler[m] = "idle"
  /\ fails \in Nat /\ crashes \in Nat

\* A household message the transport has let go of is in the inbox.  With
\* Baileys, which lets go when it delivers, it may also be on its way there,
\* or lost to a crash or a throw on that way (the window ingest.ts names).
AckedIsDurable ==
  \A m \in (Household \cap written) \ held :
    \/ m \in inbox
    \/ ~deferred /\ (handler[m] # "idle" \/ wf[m] = "pending" \/ crashes + fails > 0)

\* The bot takes its own message for a member's only if it never learnt the
\* message's id (the send timed out or was cut off by a crash, which also
\* forgets the ids learnt before) or has learnt Capacity newer ones since.
SelfTalkNeedsLostId ==
  \A o \in Own :
    wf[o] # "none" =>
      \/ flight[o] \in {"gaveUp", "cut"} \/ crashes > 0
      \/ \E i \in DOMAIN receipts : receipts[i] = o /\ Len(receipts) - i >= Capacity

\* A reminder is marked fired only when its firing is in the inbox, whatever
\* sweeps overlap, crash and resume: marked and forgotten cannot happen.
FiredIsInInbox == \A r \in Rem : row[r] = "fired" => r \in inbox

\* A cancel that no sweep has overtaken holds: nothing is ever delivered.  (One
\* that comes between a sweep's read and its mark is confirmed and delivered.)
CancelHolds == \A r \in kept : wf[r] = "none"
FiringsKept == FiredIsInInbox /\ CancelHolds

\* A due reminder fires or is cancelled, unless some firing's workflow errs.
DueFires ==
  \A r \in Rem :
    (Due(r) /\ \A q \in Rem : wf[q] # "error") ~> (row[r] # "scheduled" \/ \E q \in Rem : wf[q] = "error")
=============================================================================
