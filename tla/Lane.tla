-------------------------------- MODULE Lane --------------------------------
(***************************************************************************)
(* One conversation's lane: the durable enqueue of an inbound message, the *)
(* partitioned concurrency-1 drain, the turn each debounced batch runs and *)
(* the send class of the reply (src/orchestration/queue.ts, debounce.ts,   *)
(* recovery.ts, src/main.ts processTurnBatch, src/transport/send-class.ts).*)
(*                                                                         *)
(* A workflow is a program whose completed steps are journaled: after a    *)
(* crash it resumes at the first step without a checkpoint.  What a drain  *)
(* has read, and how far it is, is therefore durable; only the points      *)
(* INSIDE the sendReply step are lost, and the step starts over.           *)
(* Conversations are independent partitions, so one of them is modelled.   *)
(***************************************************************************)
EXTENDS Naturals, FiniteSets

CONSTANTS
  Human,          \* messages of household members
  Reminder,       \* proactive items sent by 'system' (reminder firings)
  Notice,         \* proactive items sent by 'system:hitl' (expiry notices)
  SenderOf,       \* who wrote each human message
  NoText,         \* the last assistant message is absent or empty
  Faults,         \* which dependencies may throw
  MaxFails,       \* bound on the throws of one behaviour
  MaxCrashes,     \* bound on process crashes
  Routes,         \* the kinds of conversation: TRUE reachable, FALSE unroutable
  CommitInOrder,  \* insert transactions do not overlap
  DrainIsRoot     \* whether DBOS records a drain without a parent: TRUE, FALSE or both

Msgs == Human \cup Reminder \cup Notice

ASSUME LaneConstants ==
  /\ Human \cap Reminder = {} /\ Human \cap Notice = {} /\ Reminder \cap Notice = {}
  /\ NoText \notin Msgs
  /\ Faults \subseteq {"model", "compaction", "send", "db"}
  /\ MaxFails \in Nat /\ MaxCrashes \in Nat
  /\ Routes \subseteq BOOLEAN /\ CommitInOrder \in BOOLEAN /\ DrainIsRoot \subseteq BOOLEAN

VARIABLES
  routable,   \* the conversation's jid can be reached (never changes)
  rooted,     \* the launch pass lists a drain, as a root workflow (never changes)
  up,         \* the process is running
  enq,        \* per message: how far its enqueue workflow is
  enqLive,    \* enqueue workflows executing in this process generation
  seq,        \* inbox serial of the message, 0 before the insert
  processed,  \* inbox rows with processed_at set
  status,     \* per message: DBOS status of the drain its insert enqueued
  live,       \* drains executing in this process generation
  pc,         \* per drain: the step it is at
  todo,       \* per drain: rows of its last read that no batch has taken yet
  lead,       \* per drain: first message of the batch in hand
  batch,      \* per drain: the batch in hand
  text,       \* per drain: whose answer the sendReply step has read
  turn,       \* per lead message: the workflow turn-<messageId>
  input,      \* per lead message: the batch that turn was started with
  last,       \* the turn that wrote the transcript's last assistant message
  sentLog,    \* reply keys with a sent_log row
  sends,      \* per reply key: how often a message left on the wire
  texts,      \* per reply key: whose answers were sent under it
  dead,       \* reply keys that were dead-lettered
  crashes,
  fails

inbox   == <<enq, enqLive, seq>>
drain   == <<status, live, pc, todo, lead, batch, text>>
turns   == <<turn, input, last>>
outbox  == <<sentLog, sends, texts, dead>>
budget  == <<routable, rooted, crashes, fails>>
vars    == <<up, inbox, processed, drain, turns, outbox, budget>>

EnqStates    == {"none", "started", "inserting", "inserted", "done"}
DrainStates  == {"none", "enqueued", "pending", "success", "error"}
TurnStates   == {"none", "running", "completed", "mute", "parked", "error"}
InSendReply  == {"claimed", "sending", "wired", "finish"}
Points       == {"read", "quiet", "batches", "await", "reply", "prompt", "mark"}
                  \cup InSendReply

TypeOK ==
  /\ routable \in BOOLEAN /\ rooted \in BOOLEAN
  /\ up \in BOOLEAN
  /\ enq \in [Msgs -> EnqStates]
  /\ enqLive \subseteq {m \in Msgs : up /\ enq[m] \in {"started", "inserting", "inserted"}}
  /\ seq \in [Msgs -> Nat]
  /\ processed \subseteq Msgs
  /\ status \in [Msgs -> DrainStates]
  /\ \A m \in Msgs : enq[m] # "done" => status[m] = "none"
  /\ live \subseteq {d \in Msgs : up /\ status[d] = "pending"}
  /\ pc \in [Msgs -> Points]
  /\ todo \in [Msgs -> SUBSET Msgs]
  /\ lead \in [Msgs -> Msgs]
  /\ batch \in [Msgs -> SUBSET Msgs]
  /\ text \in [Msgs -> Msgs \cup {NoText}]
  /\ turn \in [Msgs -> TurnStates]
  /\ input \in [Msgs -> SUBSET Msgs]
  /\ last \in Msgs \cup {NoText}
  /\ sentLog \subseteq Msgs
  /\ sends \in [Msgs -> Nat]
  /\ texts \in [Msgs -> SUBSET (Msgs \cup {NoText})]
  /\ dead \subseteq Msgs
  /\ crashes \in Nat
  /\ fails \in Nat

Init ==
  /\ routable \in Routes /\ rooted \in DrainIsRoot
  /\ up = TRUE
  /\ enq = [m \in Msgs |-> "none"]
  /\ enqLive = {}
  /\ seq = [m \in Msgs |-> 0]
  /\ processed = {}
  /\ status = [m \in Msgs |-> "none"]
  /\ live = {}
  /\ pc = [m \in Msgs |-> "read"]
  /\ todo = [m \in Msgs |-> {}]
  /\ lead = [m \in Msgs |-> m]
  /\ batch = [m \in Msgs |-> {}]
  /\ text = [m \in Msgs |-> NoText]
  /\ turn = [m \in Msgs |-> "none"]
  /\ input = [m \in Msgs |-> {}]
  /\ last = NoText
  /\ sentLog = {}
  /\ sends = [m \in Msgs |-> 0]
  /\ texts = [m \in Msgs |-> {}]
  /\ dead = {}
  /\ crashes = 0
  /\ fails = 0

-----------------------------------------------------------------------------
(* The inbox: what a drain reads, and how it is cut into batches.          *)

Visible == {m \in Msgs : enq[m] \in {"inserted", "done"}}
Pending == Visible \ processed

\* Mutant: a reminder is sent like any other reply.
AtLeastOnceMutant(m) == m \in {}

AtLeastOnce(m) == m \in Reminder

Merges(a, b) == a \in Human /\ b \in Human /\ SenderOf[a] = SenderOf[b]

\* The batch that starts with l: the run of same-sender bubbles behind it.
BatchOf(l, S) ==
  {m \in S : /\ seq[l] <= seq[m]
             /\ \A k \in S : seq[l] < seq[k] /\ seq[k] <= seq[m] => Merges(l, k)}

\* Mutant: the read is not sorted, any row may come first.
HeadsMutant(S) == S

Heads(S) == {l \in S : \A k \in S : seq[l] <= seq[k]}

-----------------------------------------------------------------------------
(* enqueueConversationItem: insert the row, then enqueue the row's drain.  *)

Arrive(m) ==
  /\ up
  /\ enq[m] = "none"
  /\ enq' = [enq EXCEPT ![m] = "started"]
  /\ enqLive' = enqLive \cup {m}
  /\ UNCHANGED <<up, seq, processed, drain, turns, outbox, budget>>

\* A serial nobody has: above every one taken.  (A rolled back insert leaves a
\* gap in the database; only the order of the serials is modelled.)
Fresh(n) ==
  /\ \A k \in Msgs : seq[k] < n
  /\ n = 1 \/ \E k \in Msgs : seq[k] = n - 1

\* insertInboxItem: the row takes its serial when the INSERT executes and is
\* visible when its transaction commits, perhaps behind a later one.
TakeSeq(m) ==
  /\ m \in enqLive
  /\ enq[m] = "started"
  /\ \E n \in 1 .. Cardinality(Msgs) : Fresh(n) /\ seq' = [seq EXCEPT ![m] = n]
  /\ enq' = [enq EXCEPT ![m] = IF CommitInOrder THEN "inserted" ELSE "inserting"]
  /\ UNCHANGED <<up, enqLive, processed, drain, turns, outbox, budget>>

CommitInsert(m) ==
  /\ m \in enqLive
  /\ enq[m] = "inserting"
  /\ enq' = [enq EXCEPT ![m] = "inserted"]
  /\ UNCHANGED <<up, enqLive, seq, processed, drain, turns, outbox, budget>>

EnqueueDrain(m) ==
  /\ m \in enqLive
  /\ enq[m] = "inserted"
  /\ enq' = [enq EXCEPT ![m] = "done"]
  /\ enqLive' = enqLive \ {m}
  /\ status' = [status EXCEPT ![m] = "enqueued"]
  /\ UNCHANGED <<up, seq, processed, live, pc, todo, lead, batch, text,
                 turns, outbox, budget>>

-----------------------------------------------------------------------------
(* drainConversation, its child processTurnBatch and the turn they wait for *)

At(d, p) == d \in live /\ pc[d] = p

Goto(d, p) == pc' = [pc EXCEPT ![d] = p]

\* Mutant: the queue is not partitioned with concurrency 1.
StartDrainMutant(d) ==
  /\ up
  /\ status[d] = "enqueued"
  /\ status' = [status EXCEPT ![d] = "pending"]
  /\ live' = live \cup {d}
  /\ UNCHANGED <<up, inbox, processed, pc, todo, lead, batch, text, turns, outbox, budget>>

\* The partition dispatches one drain at a time.
StartDrain(d) ==
  /\ up
  /\ status[d] = "enqueued"
  /\ \A e \in Msgs : status[e] # "pending"
  /\ status' = [status EXCEPT ![d] = "pending"]
  /\ live' = live \cup {d}
  /\ UNCHANGED <<up, inbox, processed, pc, todo, lead, batch, text, turns, outbox, budget>>

ReadPending(d) ==
  /\ At(d, "read")
  /\ Pending # {}
  /\ todo' = [todo EXCEPT ![d] = Pending]
  /\ Goto(d, "quiet")
  /\ UNCHANGED <<up, inbox, processed, status, live, lead, batch, text, turns, outbox, budget>>

FinishDrain(d) ==
  /\ At(d, "read")
  /\ Pending = {}
  /\ status' = [status EXCEPT ![d] = "success"]
  /\ live' = live \ {d}
  /\ UNCHANGED <<up, inbox, processed, pc, todo, lead, batch, text, turns, outbox, budget>>

\* One round of the silence window.  Still arriving: wait again, unless the
\* cap on quiet-waiting is reached (the clock is abstracted by the choice).
QuietWait(d) ==
  /\ At(d, "quiet")
  /\ todo' = [todo EXCEPT ![d] = Pending]
  /\ \/ Goto(d, "batches")
     \/ /\ Cardinality(Pending) > Cardinality(todo[d])
        /\ Goto(d, "quiet")
  /\ UNCHANGED <<up, inbox, processed, status, live, lead, batch, text, turns, outbox, budget>>

\* The next batch starts its turn; turn-<lead> already started is found, not
\* started again, whatever batch is passed to it.
CallTurn(d) ==
  /\ At(d, "batches")
  /\ \E l \in Heads(todo[d]) :
       /\ lead' = [lead EXCEPT ![d] = l]
       /\ batch' = [batch EXCEPT ![d] = BatchOf(l, todo[d])]
       /\ todo' = [todo EXCEPT ![d] = @ \ BatchOf(l, todo[d])]
       /\ IF turn[l] = "none"
          THEN /\ turn' = [turn EXCEPT ![l] = "running"]
               /\ input' = [input EXCEPT ![l] = BatchOf(l, todo[d])]
          ELSE UNCHANGED <<turn, input>>
  /\ Goto(d, "await")
  /\ UNCHANGED <<up, inbox, processed, status, live, text, last, outbox, budget>>

\* handleTurn ends: a reply, an empty reply, or a closing approval prompt.
TurnReturns(d, outcome) ==
  /\ At(d, "await")
  /\ turn[lead[d]] = "running"
  /\ turn' = [turn EXCEPT ![lead[d]] = outcome]
  /\ last' = IF outcome = "mute" THEN NoText ELSE lead[d]
  /\ UNCHANGED <<up, inbox, processed, drain, input, outbox, budget>>

MayThrow(f) == f \in Faults /\ fails < MaxFails /\ fails' = fails + 1

\* handleTurn throws: before the transcript is persisted, or behind it in the
\* compaction phase.
TurnThrows(d) ==
  /\ At(d, "await")
  /\ turn[lead[d]] = "running"
  /\ turn' = [turn EXCEPT ![lead[d]] = "error"]
  /\ \/ MayThrow("model") /\ UNCHANGED last
     \/ MayThrow("compaction") /\ last' = lead[d]
  /\ UNCHANGED <<up, inbox, processed, drain, input, outbox, routable, rooted, crashes>>

GetResult(d) ==
  /\ At(d, "await")
  /\ \/ turn[lead[d]] \in {"completed", "mute"} /\ Goto(d, "reply")
     \/ turn[lead[d]] = "parked" /\ Goto(d, "prompt")
  /\ UNCHANGED <<up, inbox, processed, status, live, todo, lead, batch, text,
                 turns, outbox, budget>>

\* An exception leaves processTurnBatch and the drain: DBOS records ERROR,
\* a terminal status nothing resumes.
Throw(d) ==
  /\ status' = [status EXCEPT ![d] = "error"]
  /\ live' = live \ {d}
  /\ UNCHANGED <<pc, todo, lead, batch, text>>

RethrowTurn(d) ==
  /\ At(d, "await")
  /\ turn[lead[d]] = "error"
  /\ Throw(d)
  /\ UNCHANGED <<up, inbox, processed, turns, outbox, budget>>

\* sendApprovalPrompts, as one step (the approval module opens it up).
SendPrompts(d) ==
  /\ At(d, "prompt")
  /\ Goto(d, "mark")
  /\ UNCHANGED <<up, inbox, processed, status, live, todo, lead, batch, text,
                 turns, outbox, budget>>

\* Mutant: only the batch's first row is marked.
MarkProcessedMutant(d) ==
  /\ At(d, "mark")
  /\ processed' = processed \cup {lead[d]}
  /\ Goto(d, IF todo[d] = {} THEN "read" ELSE "batches")
  /\ lead' = [lead EXCEPT ![d] = d]
  /\ batch' = [batch EXCEPT ![d] = {}]
  /\ text' = [text EXCEPT ![d] = NoText]
  /\ UNCHANGED <<up, inbox, status, live, todo, turns, outbox, budget>>

MarkProcessed(d) ==
  /\ At(d, "mark")
  /\ processed' = processed \cup batch[d]
  /\ Goto(d, IF todo[d] = {} THEN "read" ELSE "batches")
  /\ lead' = [lead EXCEPT ![d] = d]
  /\ batch' = [batch EXCEPT ![d] = {}]
  /\ text' = [text EXCEPT ![d] = NoText]
  /\ UNCHANGED <<up, inbox, status, live, todo, turns, outbox, budget>>

\* A database call of the drain fails (a read, the mark, the sent_log write).
DbThrows(d) ==
  /\ d \in live
  /\ pc[d] \in {"read", "quiet", "reply", "prompt", "wired", "mark"}
  /\ MayThrow("db")
  /\ Throw(d)
  /\ UNCHANGED <<up, inbox, processed, turns, outbox, routable, rooted, crashes>>

-----------------------------------------------------------------------------
(* The sendReply step: deliverReply under the lead item's send class.      *)

\* Nothing to say, or the key is already in sent_log.
SkipReply(d) ==
  /\ At(d, "reply")
  /\ last = NoText \/ lead[d] \in sentLog
  /\ Goto(d, "mark")
  /\ UNCHANGED <<up, inbox, processed, status, live, todo, lead, batch, text,
                 turns, outbox, budget>>

\* Mutant: at-most-once sends without claiming the row.
ClaimReplyMutant(d) ==
  /\ At(d, "reply")
  /\ last # NoText /\ lead[d] \notin sentLog
  /\ ~AtLeastOnce(lead[d])
  /\ text' = [text EXCEPT ![d] = last]
  /\ Goto(d, "claimed")
  /\ UNCHANGED <<up, inbox, processed, status, live, todo, lead, batch,
                 turns, outbox, budget>>

\* at-most-once: the sent_log row is claimed before the send.
ClaimReply(d) ==
  /\ At(d, "reply")
  /\ last # NoText /\ lead[d] \notin sentLog
  /\ ~AtLeastOnce(lead[d])
  /\ sentLog' = sentLog \cup {lead[d]}
  /\ text' = [text EXCEPT ![d] = last]
  /\ Goto(d, "claimed")
  /\ UNCHANGED <<up, inbox, processed, status, live, todo, lead, batch,
                 turns, sends, texts, dead, budget>>

\* at-least-once: no row is written before the send.
CheckReply(d) ==
  /\ At(d, "reply")
  /\ last # NoText /\ lead[d] \notin sentLog
  /\ AtLeastOnce(lead[d])
  /\ text' = [text EXCEPT ![d] = last]
  /\ Goto(d, "sending")
  /\ UNCHANGED <<up, inbox, processed, status, live, todo, lead, batch,
                 turns, outbox, budget>>

OnWire(d) ==
  /\ sends' = [sends EXCEPT ![lead[d]] = @ + 1]
  /\ texts' = [texts EXCEPT ![lead[d]] = @ \cup {text[d]}]

SendReply(d) ==
  /\ routable
  /\ \/ At(d, "claimed") /\ Goto(d, "finish")
     \/ At(d, "sending") /\ Goto(d, "wired")
  /\ OnWire(d)
  /\ UNCHANGED <<up, inbox, processed, status, live, todo, lead, batch, text,
                 turns, sentLog, dead, budget>>

LogReply(d) ==
  /\ At(d, "wired")
  /\ sentLog' = sentLog \cup {lead[d]}
  /\ Goto(d, "finish")
  /\ UNCHANGED <<up, inbox, processed, status, live, todo, lead, batch, text,
                 turns, sends, texts, dead, budget>>

\* A permanent failure: at-least-once is dead-lettered, at-most-once throws.
DeadLetter(d) ==
  /\ ~routable
  /\ At(d, "sending")
  /\ dead' = dead \cup {lead[d]}
  /\ Goto(d, "finish")
  /\ UNCHANGED <<up, inbox, processed, status, live, todo, lead, batch, text,
                 turns, sentLog, sends, texts, budget>>

RejectReply(d) ==
  /\ ~routable
  /\ At(d, "claimed")
  /\ Throw(d)
  /\ UNCHANGED <<up, inbox, processed, turns, outbox, budget>>

\* Any other failure, after the retry budget, throws; the message may or may
\* not have left.
SendThrows(d) ==
  /\ routable
  /\ At(d, "claimed") \/ At(d, "sending") \/ At(d, "prompt")
  /\ MayThrow("send")
  /\ \/ UNCHANGED <<sends, texts>>
     \/ pc[d] # "prompt" /\ OnWire(d)
  /\ Throw(d)
  /\ UNCHANGED <<up, inbox, processed, turns, sentLog, dead, routable, rooted, crashes>>

\* The step returns and its checkpoint commits.
FinishReply(d) ==
  /\ At(d, "finish")
  /\ Goto(d, "mark")
  /\ UNCHANGED <<up, inbox, processed, status, live, todo, lead, batch, text,
                 turns, outbox, budget>>

-----------------------------------------------------------------------------
(* Crash, relaunch, and the recovery pass over stranded workflows.         *)

Crash ==
  /\ up
  /\ crashes < MaxCrashes
  /\ crashes' = crashes + 1
  /\ up' = FALSE
  /\ enqLive' = {}
  /\ live' = {}
  /\ enq' = [m \in Msgs |-> IF enq[m] = "inserting" THEN "started" ELSE enq[m]]
  /\ seq' = [m \in Msgs |-> IF enq[m] = "inserting" THEN 0 ELSE seq[m]]
  /\ pc' = [d \in Msgs |-> IF status[d] = "pending" /\ pc[d] \in InSendReply
                           THEN "reply" ELSE pc[d]]
  /\ UNCHANGED <<processed, status, todo, lead, batch, text, turns, outbox, routable, rooted, fails>>

Launch ==
  /\ ~up
  /\ up' = TRUE
  /\ UNCHANGED <<inbox, processed, drain, turns, outbox, budget>>

ResumeEnqueue(m) ==
  /\ up
  /\ enq[m] \in {"started", "inserted"}
  /\ m \notin enqLive
  /\ enqLive' = enqLive \cup {m}
  /\ UNCHANGED <<up, enq, seq, processed, drain, turns, outbox, budget>>

\* Mutant: the recovery pass resumes nothing inside a batch.
ResumeDrainMutant(d) ==
  /\ up
  /\ status[d] = "pending"
  /\ d \notin live
  /\ rooted
  /\ pc[d] = "read"
  /\ live' = live \cup {d}
  /\ UNCHANGED <<up, inbox, processed, status, pc, todo, lead, batch, text,
                 turns, outbox, budget>>

\* resumeStrandedWorkflows lists what has no parent.  A drain is started inside
\* the enqueue workflow, which has ended: listed or lost.
ResumeDrain(d) ==
  /\ up
  /\ status[d] = "pending"
  /\ d \notin live
  /\ rooted
  /\ live' = live \cup {d}
  /\ UNCHANGED <<up, inbox, processed, status, pc, todo, lead, batch, text,
                 turns, outbox, budget>>

-----------------------------------------------------------------------------
Enqueue(m) == TakeSeq(m) \/ CommitInsert(m) \/ EnqueueDrain(m) \/ ResumeEnqueue(m)

Advance(d) ==
  \/ StartDrain(d) \/ ReadPending(d) \/ FinishDrain(d) \/ QuietWait(d)
  \/ CallTurn(d) \/ \E o \in {"completed", "mute", "parked"} : TurnReturns(d, o)
  \/ GetResult(d) \/ RethrowTurn(d) \/ SendPrompts(d) \/ MarkProcessed(d)
  \/ SkipReply(d) \/ ClaimReply(d) \/ CheckReply(d) \/ SendReply(d)
  \/ LogReply(d) \/ DeadLetter(d) \/ RejectReply(d) \/ FinishReply(d)
  \/ ResumeDrain(d)

Fault(d) == TurnThrows(d) \/ SendThrows(d) \/ DbThrows(d)

Next ==
  \/ \E m \in Msgs : Arrive(m) \/ Enqueue(m)
  \/ \E d \in Msgs : Advance(d) \/ Fault(d)
  \/ Crash
  \/ Launch

\* Messages need not arrive and nothing need fail; whatever has started goes
\* on: the host restarts the process, and DBOS runs what is enqueued, resumed
\* or in flight.
Fairness ==
  /\ WF_vars(Launch)
  /\ \A m \in Msgs : WF_vars(Enqueue(m))
  /\ \A d \in Msgs : WF_vars(Advance(d))

Spec == Init /\ [][Next]_vars /\ Fairness

-----------------------------------------------------------------------------
(* Properties.                                                             *)

\* Human replies and expiry notices are sent at most once, whatever crashes,
\* throws, retries and redeliveries happen (selectSendClass, deliverReply).
SentAtMostOnce == \A m \in Msgs : ~AtLeastOnce(m) => sends[m] <= 1

\* A row marked processed was part of the batch some turn was started with: no
\* message is dropped between the inbox and the model,
ProcessedWasPresented == \A m \in processed : \E l \in Msgs : m \in input[l]

\* no message is shown to two turns, however often drains read it again,
PresentedOnce == \A k, l \in Msgs : k # l => input[k] \cap input[l] = {}

\* and an answer of the at-most-once class is dropped only where a crash or a
\* throw hit it.  A send that throws, once or for ever, takes the first away (see
\* lane_swallowed), and the second as well where an older row appears behind it:
\* the batch is cut again under the older one, and its turn is another turn.
NoMessageLost ==
  LET calm == routable /\ fails = 0
  IN /\ calm => ProcessedWasPresented
     /\ calm \/ CommitInOrder => PresentedOnce
     /\ \A m \in processed \ Reminder :
          turn[m] = "completed" /\ calm /\ crashes = 0 => sends[m] = 1

\* What is sent under send-<lead> is the answer of that lead's own turn,
\* although the step only reads "the last assistant message".
AnswersOwnTurn == \A m \in Msgs : texts[m] \subseteq {m}

\* A reminder whose turn wrote an answer is not marked processed before the
\* answer left or was dead-lettered: at-least-once never drops.
ReminderDelivered ==
  \A m \in Reminder \cap processed :
    turn[m] = "completed" => sends[m] > 0 \/ m \in dead

\* Turns start in the order of the inbox: nothing older is still unprocessed.
TurnsInSeqOrder ==
  [][\A l \in Msgs : turn[l] = "none" /\ turn'[l] = "running" =>
       \A k \in Visible : seq[k] < seq[l] => k \in processed]_vars

\* A drain that a crash interrupted and the launch pass does not list is taken up
\* by nobody, and holds the conversation's only place in the queue.
Stranded == ~rooted /\ \E d \in Msgs : status[d] = "pending" /\ d \notin live

\* Once nothing throws any more, a drain that is enqueued gets every inserted
\* row processed, also the ones earlier drains failed on; but where DBOS gives a
\* drain a parent, a crash in the middle of one is the end of the chat.
EnqueueDrainsInbox ==
  \A m, k \in Msgs :
    (/\ m \in Visible /\ status[k] = "enqueued"
     /\ routable /\ fails = MaxFails /\ \A l \in Msgs : turn[l] # "error")
      ~> (m \in processed \/ Stranded)

\* Why at-most-once holds, in the form that is inductive: a claim is written
\* before its send, is held by one drain, and only its holder can spend it.
NotStarted     == \A d \in Msgs : status[d] \in {"none", "enqueued"} => pc[d] = "read"
CrashedOutside == \A d \in Msgs : status[d] = "pending" /\ d \notin live => pc[d] \notin InSendReply
ClaimHeld      == \A d \in Msgs : pc[d] = "claimed" => lead[d] \in sentLog /\ ~AtLeastOnce(lead[d])
ClaimUnspent   == \A d \in live : pc[d] = "claimed" => sends[lead[d]] = 0
ClaimUnique    == \A d, e \in Msgs : pc[d] = "claimed" /\ pc[e] = "claimed" /\ lead[d] = lead[e] => d = e
ClassKept      == \A d \in live : pc[d] \in {"sending", "wired"} => AtLeastOnce(lead[d])
SentIsLogged   == \A m \in Msgs : ~AtLeastOnce(m) /\ sends[m] > 0 => m \in sentLog

ClaimInv ==
  /\ NotStarted /\ CrashedOutside
  /\ ClaimHeld /\ ClaimUnspent /\ ClaimUnique /\ ClassKept
  /\ SentIsLogged /\ SentAtMostOnce

\* Every step of the lane is a step of the abstract delivery, or none of its
\* business: a reply leaves only while its message is accepted and unmarked
\* (whatever reads, replays and crashes come between the inbox and the mark).
Outbox == INSTANCE Delivery WITH
  Keys <- Msgs, Repeats <- {m \in Msgs : AtLeastOnce(m)},
  accepted <- Visible, handled <- processed, claimed <- sentLog

ImplementsDelivery == Outbox!Spec

\* What a comment of the code promises and a run refutes: a turn that errored
\* does not cost the messages that come after it (handle-turn.ts: "the next
\* over-threshold turn simply retries").
ChatSurvivesTurnError ==
  \A m \in Msgs :
    (status[m] = "enqueued" /\ fails = MaxFails /\ \E l \in Msgs : turn[l] = "error")
      ~> m \in processed
=============================================================================
