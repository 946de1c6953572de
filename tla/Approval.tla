------------------------------ MODULE Approval ------------------------------
(***************************************************************************)
(* Human approval of proposed actions in one conversation (src/hitl/, the  *)
(* resolution phase of src/agent/handle-turn.ts, src/tools/calendar.ts).   *)
(*                                                                         *)
(* A confirm-before tool call is parked as a pending_actions row; the      *)
(* prompt that closes the turn is sent and its receipt stamped on the row; *)
(* a later message approves, denies or refines it, bound by a quote or by  *)
(* the relatedness classifier.  Beside the lane, a sweep expires overdue   *)
(* rows and puts a notice into the lane.  The lane is serial and a turn    *)
(* that errored blocks it (module Lane); the sweep interleaves with it,    *)
(* and an approval runs an external create inside its transaction.  A turn *)
(* takes one message here.                                                 *)
(***************************************************************************)
EXTENDS Naturals, Sequences

CONSTANTS
  Actions,      \* proposals the model may park, each with its own action id
  Args,         \* arguments a proposal may carry
  OwnerOf,      \* the calendar each argument names
  NoAction,
  MaxMessages,  \* bound on messages and reminders
  MaxFails,     \* bound on failing sends, calendar, model and database calls
  MaxCrashes    \* bound on process crashes

ASSUME ApprovalConstants ==
  /\ NoAction \notin Actions
  /\ Args # {}
  /\ MaxMessages \in Nat /\ MaxFails \in Nat /\ MaxCrashes \in Nat

VARIABLES
  routable,   \* the conversation's jid can be reached (never changes)
  up,         \* the process is running
  status,     \* pending_actions.status, "none" before the park
  args,       \* the stored tool call's arguments (no meaning before the park)
  stamp,      \* prompt_message_id: an index of shown, 0 for NULL
  overdue,    \* actions past their TTL, in the order it ran out
  calendar,   \* events on the members' calendars, per <<action, arguments>>
  shown,      \* approval prompts on the wire, in order: <<action, arguments>>
  inbox,      \* messages and items no turn has finished with, oldest first
  written,    \* how many of them the household and its reminders wrote
  pc,         \* where the turn of the inbox's head is
  digest,     \* pending actions the turn has read
  target,     \* the action the turn is deciding on
  by,         \* the prompt the deciding message quotes, 0 if it is classified
  unsent,     \* proposals the prompt step has read and not yet sent
  sweeping,   \* overdue actions the running sweep has still to expire
  noticed,    \* actions whose expiry notice is in the inbox
  refused,    \* actions whose expire-<id> workflow has ended in error
  dropped,    \* noticed actions whose last sweep threw before their mark
  executions, \* per action: committed executions
  boundTo,    \* per action: the quoted prompt of its execution, 0 if none
  crashes,
  fails

row    == <<status, args, stamp>>
lane   == <<inbox, written, pc, digest, target, by, unsent>>
sweep  == <<sweeping, noticed, refused, dropped>>
ghost  == <<executions, boundTo>>
budget == <<routable, crashes, fails>>
vars   == <<up, row, overdue, calendar, shown, lane, sweep, ghost, budget>>

Settled  == {"denied", "stale", "expired", "executed"}
Statuses == {"none", "pending"} \cup Settled
InSettle == {"creating", "created"}
InPrompt == {"sending", "stamping"}
InTurn   == {"quoted", "settle", "digest", "classify", "model", "parked"} \cup InSettle
Points   == {"idle", "prompts", "failed", "bricked", "done"} \cup InTurn \cup InPrompt
Messages == [quotes : Nat, says : {"yes", "no", "unclear", "item"}]

\* A proactive item: a reminder or an expiry notice, nobody's utterance.
Item == [quotes |-> 0, says |-> "item"]

TypeOK ==
  /\ routable \in BOOLEAN
  /\ up \in BOOLEAN
  /\ status \in [Actions -> Statuses]
  /\ args \in [Actions -> Args]
  /\ stamp \in [Actions -> 0 .. Len(shown)]
  /\ overdue \in Seq(Actions)
  /\ calendar \in [Actions \X Args -> Nat]
  /\ shown \in Seq(Actions \X Args)
  /\ inbox \in Seq(Messages)
  /\ written \in 0 .. MaxMessages
  /\ pc \in Points
  /\ digest \subseteq Actions
  /\ target \in Actions \cup {NoAction}
  /\ by \in 0 .. Len(shown)
  /\ unsent \subseteq Actions \X Args
  /\ sweeping \subseteq Actions
  /\ noticed \subseteq Actions /\ refused \subseteq Actions /\ dropped \subseteq Actions
  /\ executions \in [Actions -> Nat]
  /\ boundTo \in [Actions -> 0 .. Len(shown)]
  /\ crashes \in 0 .. MaxCrashes
  /\ fails \in 0 .. MaxFails

Init ==
  /\ routable \in BOOLEAN
  /\ up = TRUE
  /\ status = [a \in Actions |-> "none"]
  /\ args = [a \in Actions |-> CHOOSE x \in Args : TRUE]
  /\ stamp = [a \in Actions |-> 0]
  /\ overdue = <<>> /\ shown = <<>>
  /\ calendar = [e \in Actions \X Args |-> 0]
  /\ inbox = <<>> /\ written = 0
  /\ pc = "idle" /\ digest = {} /\ target = NoAction /\ by = 0 /\ unsent = {}
  /\ sweeping = {} /\ noticed = {} /\ refused = {} /\ dropped = {}
  /\ executions = [a \in Actions |-> 0]
  /\ boundTo = [a \in Actions |-> 0]
  /\ crashes = 0 /\ fails = 0

-----------------------------------------------------------------------------
(* The household and the clock.                                            *)

\* A message, quoting a prompt that has reached the chat or none, or a
\* reminder.  Nobody writes from a conversation that cannot be reached.
Write ==
  /\ written < MaxMessages
  /\ written' = written + 1
  /\ \E m \in [quotes : 0 .. Len(shown), says : {"yes", "no", "unclear"}] \cup {Item} :
       /\ m.says \in {"yes", "no"} => m.quotes # 0
       /\ routable \/ m = Item
       /\ inbox' = Append(inbox, m)
  /\ UNCHANGED <<up, row, overdue, calendar, shown, pc, digest, target, by, unsent,
                 sweep, ghost, budget>>

Overdue == {overdue[i] : i \in 1 .. Len(overdue)}

TtlPasses(a) ==
  /\ status[a] = "pending"
  /\ a \notin Overdue
  /\ overdue' = Append(overdue, a)
  /\ UNCHANGED <<up, row, calendar, shown, lane, sweep, ghost, budget>>

-----------------------------------------------------------------------------
(* The rows: every transition is an UPDATE guarded on the status it leaves. *)

PendingNow == {a \in Actions : status[a] = "pending"}

\* The transaction that is settling an action holds its row's lock.
Locked(a) == pc \in InSettle /\ target = a

SetStatus(a, s) == status' = [status EXCEPT ![a] = s]

-----------------------------------------------------------------------------
(* The turn of the inbox's head.                                           *)

Step(from, to) == up /\ pc = from /\ pc' = to

Message == Head(inbox)

StartTurn ==
  /\ Step("idle", "quoted")
  /\ inbox # <<>>
  /\ UNCHANGED <<up, row, overdue, calendar, shown, inbox, written, digest, target, by,
                 unsent, sweep, ghost, budget>>

BoundAction == {a \in Actions : Message.quotes # 0 /\ stamp[a] = Message.quotes}

\* resolveApprovalReply: no quote, an unknown one, or no clean yes or no.
QuoteDecidesNothing ==
  /\ Step("quoted", "digest")
  /\ Message.says \in {"unclear", "item"} \/ BoundAction = {}
  /\ target' \in IF BoundAction = {} THEN {NoAction} ELSE BoundAction
  /\ by' = 0
  /\ UNCHANGED <<up, row, overdue, calendar, shown, inbox, written, digest, unsent,
                 sweep, ghost, budget>>

QuoteDenies ==
  /\ Step("quoted", "model")
  /\ Message.says = "no"
  /\ \E a \in BoundAction :
       IF status[a] = "pending" THEN SetStatus(a, "denied") ELSE UNCHANGED status
  /\ UNCHANGED <<up, args, stamp, overdue, calendar, shown, inbox, written, digest,
                 target, by, unsent, sweep, ghost, budget>>

QuoteApproves ==
  /\ Step("quoted", "settle")
  /\ Message.says = "yes"
  /\ target' \in BoundAction
  /\ by' = Message.quotes
  /\ UNCHANGED <<up, row, overdue, calendar, shown, inbox, written, digest, unsent,
                 sweep, ghost, budget>>

\* Mutant: the flip to approved does not look at the status.
SettleStartMutant ==
  /\ Step("settle", "creating")
  /\ UNCHANGED <<up, row, overdue, calendar, shown, inbox, written, digest, target, by,
                 unsent, sweep, ghost, budget>>

\* settleDecision, approve: the guarded flip opens the transaction.
SettleStart ==
  /\ Step("settle", "creating")
  /\ status[target] = "pending"
  /\ UNCHANGED <<up, row, overdue, calendar, shown, inbox, written, digest, target, by,
                 unsent, sweep, ghost, budget>>

AlreadyResolved ==
  /\ Step("settle", "model")
  /\ status[target] # "pending"
  /\ target' = NoAction /\ by' = 0
  /\ UNCHANGED <<up, row, overdue, calendar, shown, inbox, written, digest, unsent,
                 sweep, ghost, budget>>

\* Revalidation says no, or the stored call no longer parses.
SettleStale ==
  /\ Step("creating", "model")
  /\ SetStatus(target, "stale")
  /\ target' = NoAction /\ by' = 0
  /\ UNCHANGED <<up, args, stamp, overdue, calendar, shown, inbox, written, digest,
                 unsent, sweep, ghost, budget>>

OnCalendar(a, x) == calendar[<<a, x>>] > 0

\* Mutant: the event gets a fresh id with every request.
CreateEventMutant ==
  /\ Step("creating", "created")
  /\ calendar' = [calendar EXCEPT ![<<target, args[target]>>] = @ + 1]
  /\ UNCHANGED <<up, row, overdue, shown, inbox, written, digest, target, by, unsent,
                 sweep, ghost, budget>>

\* createEvent reaches the calendar, which refuses a second event with this
\* action's id; either answer reads as success.
CreateEvent ==
  /\ Step("creating", "created")
  /\ IF \E x \in Args : OwnerOf[x] = OwnerOf[args[target]] /\ OnCalendar(target, x)
     THEN UNCHANGED calendar
     ELSE calendar' = [calendar EXCEPT ![<<target, args[target]>>] = @ + 1]
  /\ UNCHANGED <<up, row, overdue, shown, inbox, written, digest, target, by, unsent,
                 sweep, ghost, budget>>

\* The claim, the tool's result and the step's checkpoint commit together.
SettleCommit ==
  /\ Step("created", "model")
  /\ SetStatus(target, "executed")
  /\ executions' = [executions EXCEPT ![target] = @ + 1]
  /\ boundTo' = [boundTo EXCEPT ![target] = by]
  /\ target' = NoAction /\ by' = 0
  /\ UNCHANGED <<up, args, stamp, overdue, calendar, shown, inbox, written, digest,
                 unsent, sweep, budget>>

\* Revalidation or the create throws, the request perhaps done: the row goes
\* back to pending in the same transaction and the turn goes on.
SettleFails ==
  /\ Step("creating", "model") \/ Step("created", "model")
  /\ fails < MaxFails
  /\ fails' = fails + 1
  /\ target' = NoAction /\ by' = 0
  /\ UNCHANGED <<up, row, overdue, calendar, shown, inbox, written, digest, unsent,
                 sweep, ghost, routable, crashes>>

ReadDigest ==
  /\ Step("digest", "classify")
  /\ digest' = PendingNow
  /\ UNCHANGED <<up, row, overdue, calendar, shown, inbox, written, target, by, unsent,
                 sweep, ghost, budget>>

\* Whom the classifier is asked about: the action an unclear quote is bound
\* to, or the only pending one; and only a person's utterance is classified.
Candidates ==
  IF target # NoAction THEN digest \cap {target}
  ELSE {a \in digest : Message # Item /\ digest = {a}}

\* No candidate, or the verdict is unrelated (or an invalid refinement).
ClassifyUnrelated ==
  /\ Step("classify", "model")
  /\ target' = NoAction
  /\ UNCHANGED <<up, row, overdue, calendar, shown, inbox, written, digest, by, unsent,
                 sweep, ghost, budget>>

ClassifyApprove ==
  /\ Step("classify", "settle")
  /\ target' \in Candidates
  /\ UNCHANGED <<up, row, overdue, calendar, shown, inbox, written, digest, by, unsent,
                 sweep, ghost, budget>>

ClassifyDeny ==
  /\ Step("classify", "model")
  /\ \E a \in Candidates :
       IF status[a] = "pending" THEN SetStatus(a, "denied") ELSE UNCHANGED status
  /\ target' = NoAction
  /\ UNCHANGED <<up, args, stamp, overdue, calendar, shown, inbox, written, digest, by,
                 unsent, sweep, ghost, budget>>

\* Mutant: the stamp of the superseded prompt stays.
ClassifyRefineMutant ==
  /\ up /\ pc = "classify"
  /\ \E a \in Candidates, x \in Args :
       IF status[a] = "pending"
       THEN args' = [args EXCEPT ![a] = x] /\ pc' = "prompts"
       ELSE UNCHANGED args /\ pc' = "model"
  /\ target' = NoAction
  /\ UNCHANGED <<up, status, stamp, overdue, calendar, shown, inbox, written, digest, by,
                 unsent, sweep, ghost, budget>>

\* refineAction: new arguments, and the row needs its prompt again.
ClassifyRefine ==
  /\ up /\ pc = "classify"
  /\ \E a \in Candidates, x \in Args :
       IF status[a] = "pending"
       THEN /\ args' = [args EXCEPT ![a] = x]
            /\ stamp' = [stamp EXCEPT ![a] = 0]
            /\ pc' = "prompts"
       ELSE /\ UNCHANGED <<args, stamp>>
            /\ pc' = "model"
  /\ target' = NoAction
  /\ UNCHANGED <<up, status, overdue, calendar, shown, inbox, written, digest, by, unsent,
                 sweep, ghost, budget>>

\* The model's rounds: an answer, or proposals, whose prompts close the turn.
Answer ==
  /\ Step("model", "done")
  /\ UNCHANGED <<up, row, overdue, calendar, shown, inbox, written, digest, target, by,
                 unsent, sweep, ghost, budget>>

Park(a) ==
  /\ Step("model", "parked") \/ Step("parked", "parked")
  /\ status[a] = "none"
  /\ SetStatus(a, "pending")
  /\ \E x \in Args : args' = [args EXCEPT ![a] = x]
  /\ UNCHANGED <<up, stamp, overdue, calendar, shown, inbox, written, digest, target, by,
                 unsent, sweep, ghost, budget>>

CloseParked ==
  /\ Step("parked", "prompts")
  /\ UNCHANGED <<up, row, overdue, calendar, shown, inbox, written, digest, target, by,
                 unsent, sweep, ghost, budget>>

\* A model or database call throws: an open transaction rolls back, the turn
\* is in error, and every later drain of the lane rethrows it.
TurnThrows ==
  /\ up /\ pc \in InTurn
  /\ fails < MaxFails
  /\ fails' = fails + 1
  /\ pc' = "bricked"
  /\ digest' = {} /\ target' = NoAction /\ by' = 0
  /\ UNCHANGED <<up, row, overdue, calendar, shown, inbox, written, unsent, sweep, ghost,
                 routable, crashes>>

-----------------------------------------------------------------------------
(* sendApprovalPrompts, one step of the lane, and the end of the message.  *)

ReadUnstamped ==
  /\ Step("prompts", "sending")
  /\ unsent' = {<<a, args[a]>> : a \in {b \in PendingNow : stamp[b] = 0}}
  /\ UNCHANGED <<up, row, overdue, calendar, shown, inbox, written, digest, target, by,
                 sweep, ghost, budget>>

SendPrompt ==
  /\ routable
  /\ Step("sending", "stamping")
  /\ \E p \in unsent :
       /\ shown' = Append(shown, p)
       /\ unsent' = unsent \ {p}
  /\ UNCHANGED <<up, row, overdue, calendar, inbox, written, digest, target, by,
                 sweep, ghost, budget>>

\* recordApprovalSend: the stamp, whatever has become of the row.
StampPrompt ==
  /\ Step("stamping", "sending")
  /\ stamp' = [stamp EXCEPT ![shown[Len(shown)][1]] = Len(shown)]
  /\ UNCHANGED <<up, status, args, overdue, calendar, shown, inbox, written, digest,
                 target, by, unsent, sweep, ghost, budget>>

\* A permanent failure: the prompt is dead-lettered and its row left unstamped.
DeadLetterPrompt ==
  /\ ~routable
  /\ Step("sending", "sending")
  /\ \E p \in unsent : unsent' = unsent \ {p}
  /\ UNCHANGED <<up, row, overdue, calendar, shown, inbox, written, digest, target, by,
                 sweep, ghost, budget>>

\* The read, the send or the stamp throws: the drain errors, and the next
\* message's drain repeats the step before anything else.
PromptThrows ==
  /\ Step("prompts", "failed") \/ Step("sending", "failed") \/ Step("stamping", "failed")
  /\ fails < MaxFails
  /\ fails' = fails + 1
  /\ unsent' = {}
  /\ UNCHANGED <<up, row, overdue, calendar, shown, inbox, written, digest, target, by,
                 sweep, ghost, routable, crashes>>

NextDrain ==
  /\ Step("failed", "prompts")
  /\ Len(inbox) > 1
  /\ UNCHANGED <<up, row, overdue, calendar, shown, inbox, written, digest, target, by,
                 unsent, sweep, ghost, budget>>

PromptsDone ==
  /\ Step("sending", "done")
  /\ unsent = {}
  /\ UNCHANGED <<up, row, overdue, calendar, shown, inbox, written, digest, target, by,
                 unsent, sweep, ghost, budget>>

MarkProcessed ==
  /\ Step("done", "idle")
  /\ inbox' = Tail(inbox)
  /\ digest' = {}
  /\ UNCHANGED <<up, row, overdue, calendar, shown, written, target, by, unsent, sweep,
                 ghost, budget>>

-----------------------------------------------------------------------------
(* expirySweep: a journaled read, then per overdue action, oldest first,   *)
(* the notice and the mark.                                                *)

\* Mutant: only prompted actions are expired.
SweepReadMutant ==
  /\ up
  /\ sweeping = {}
  /\ sweeping' = {a \in PendingNow \cap Overdue : stamp[a] # 0}
  /\ sweeping' # {}
  /\ dropped' = dropped \ sweeping'
  /\ UNCHANGED <<up, row, overdue, calendar, shown, lane, noticed, refused, ghost, budget>>

SweepRead ==
  /\ up
  /\ sweeping = {}
  /\ sweeping' = PendingNow \cap Overdue
  /\ sweeping' # {}
  /\ dropped' = dropped \ sweeping'
  /\ UNCHANGED <<up, row, overdue, calendar, shown, lane, noticed, refused, ghost, budget>>

Before(a, b) ==
  \E i, j \in 1 .. Len(overdue) : i < j /\ overdue[i] = a /\ overdue[j] = b

\* The action the sweep is at.
At(a) == up /\ a \in sweeping /\ \A b \in sweeping : ~Before(b, a)

\* The firing id is the action's: a second enqueue finds the first.
EnqueueNotice(a) ==
  /\ At(a)
  /\ a \notin noticed \cup refused
  /\ noticed' = noticed \cup {a}
  /\ inbox' = Append(inbox, Item)
  /\ UNCHANGED <<up, row, overdue, calendar, shown, written, pc, digest, target, by,
                 unsent, sweeping, refused, dropped, ghost, budget>>

\* The sweep's workflow is in error and keeps nothing of what it had read.
Abandon == sweeping' = {} /\ dropped' = dropped \cup (sweeping \cap noticed')

\* The enqueue throws, its row inserted or not: expire-<id> is in error for good.
NoticeThrows(a) ==
  /\ At(a)
  /\ a \notin noticed \cup refused
  /\ fails < MaxFails
  /\ fails' = fails + 1
  /\ refused' = refused \cup {a}
  /\ \/ noticed' = noticed /\ inbox' = inbox
     \/ noticed' = noticed \cup {a} /\ inbox' = Append(inbox, Item)
  /\ Abandon
  /\ UNCHANGED <<up, row, overdue, calendar, shown, written, pc, digest, target, by,
                 unsent, ghost, routable, crashes>>

\* A later sweep gets that recorded error as its enqueue's result.
SweepRethrows ==
  /\ \E a \in refused : At(a)
  /\ UNCHANGED <<up, row, overdue, calendar, shown, lane, noticed, refused, ghost, budget>>
  /\ Abandon

\* Mutant: the update is not guarded on pending.
MarkExpiredMutant(a) ==
  /\ At(a)
  /\ a \in noticed \ refused
  /\ ~Locked(a)
  /\ SetStatus(a, "expired")
  /\ sweeping' = sweeping \ {a}
  /\ UNCHANGED <<up, args, stamp, overdue, calendar, shown, lane, noticed, refused, dropped,
                 ghost, budget>>

MarkExpired(a) ==
  /\ At(a)
  /\ a \in noticed \ refused
  /\ ~Locked(a)
  /\ IF status[a] = "pending" THEN SetStatus(a, "expired") ELSE UNCHANGED status
  /\ sweeping' = sweeping \ {a}
  /\ UNCHANGED <<up, args, stamp, overdue, calendar, shown, lane, noticed, refused, dropped,
                 ghost, budget>>

\* The mark throws: only this sweep is in error.
MarkThrows ==
  /\ \E a \in noticed \ refused : At(a)
  /\ fails < MaxFails
  /\ fails' = fails + 1
  /\ UNCHANGED noticed
  /\ Abandon
  /\ UNCHANGED <<up, row, overdue, calendar, shown, lane, refused, ghost, routable, crashes>>

-----------------------------------------------------------------------------
\* Mutant: an interrupted prompt step is taken for a completed one.
CrashMutant ==
  /\ up
  /\ crashes < MaxCrashes
  /\ crashes' = crashes + 1
  /\ up' = FALSE
  /\ pc' = IF pc \in InSettle THEN "settle" ELSE IF pc \in InPrompt THEN "done" ELSE pc
  /\ unsent' = {}
  /\ UNCHANGED <<row, overdue, calendar, shown, inbox, written, digest, target, by, sweep,
                 ghost, routable, fails>>

\* An open transaction rolls back; what reached the calendar or the chat stays.
Crash ==
  /\ up
  /\ crashes < MaxCrashes
  /\ crashes' = crashes + 1
  /\ up' = FALSE
  /\ pc' = IF pc \in InSettle THEN "settle" ELSE IF pc \in InPrompt THEN "prompts" ELSE pc
  /\ unsent' = {}
  /\ UNCHANGED <<row, overdue, calendar, shown, inbox, written, digest, target, by, sweep,
                 ghost, routable, fails>>

\* Mutant: the sweep that was running is not resumed.
LaunchMutant ==
  /\ ~up
  /\ up' = TRUE
  /\ sweeping' = {}
  /\ UNCHANGED <<row, overdue, calendar, shown, lane, noticed, refused, dropped, ghost, budget>>

Launch ==
  /\ ~up
  /\ up' = TRUE
  /\ UNCHANGED <<row, overdue, calendar, shown, lane, sweep, ghost, budget>>

Turn ==
  \/ StartTurn \/ QuoteDecidesNothing \/ QuoteDenies \/ QuoteApproves
  \/ SettleStart \/ AlreadyResolved \/ SettleStale \/ CreateEvent \/ SettleCommit
  \/ ReadDigest \/ ClassifyUnrelated \/ ClassifyApprove \/ ClassifyDeny \/ ClassifyRefine
  \/ Answer \/ (\E a \in Actions : Park(a)) \/ CloseParked
  \/ ReadUnstamped \/ SendPrompt \/ StampPrompt \/ DeadLetterPrompt \/ PromptsDone
  \/ NextDrain \/ MarkProcessed

Sweep ==
  \/ SweepRead
  \/ \E a \in Actions : EnqueueNotice(a) \/ MarkExpired(a)
  \/ SweepRethrows

Next ==
  \/ Write
  \/ \E a \in Actions : TtlPasses(a)
  \/ Turn
  \/ SettleFails \/ TurnThrows \/ PromptThrows
  \/ Sweep
  \/ (\E a \in Actions : NoticeThrows(a)) \/ MarkThrows
  \/ Crash \/ Launch

\* The household may fall silent and nothing need fail.  Time passes, the
\* cron starts sweeps, the host restarts the process, the lane goes on.
Fairness ==
  /\ WF_vars(Launch)
  /\ WF_vars(Turn)
  /\ WF_vars(Sweep)
  /\ \A a \in Actions : WF_vars(TtlPasses(a))

Spec == Init /\ [][Next]_vars /\ Fairness

-----------------------------------------------------------------------------
(* Properties.                                                             *)

\* One approval executes: no double approval, replay or crash commits a
\* second execution of an action.
ExecutedOnce == \A a \in Actions : executions[a] <= 1

\* A settled action stays what it is: expiry, denial and execution exclude
\* each other whatever order the sweep and the lane reach the row in.
SettledIsFinal ==
  [][\A a \in Actions : status[a] \in Settled => status'[a] = status[a]]_vars

\* The claim commits with the effect: an executed action's event is on a
\* calendar.
ExecutedHasEvent ==
  \A a \in Actions : status[a] = "executed" => \E x \in Args : OnCalendar(a, x)

\* A create that is replayed after a crash or approved again after a lost
\* answer puts no second event on the same calendar, refined or not.
EventCreatedOnce ==
  \A a \in Actions, x, y \in Args :
    /\ calendar[<<a, x>>] <= 1
    /\ OwnerOf[x] = OwnerOf[y] /\ OnCalendar(a, x) /\ OnCalendar(a, y) => x = y
EffectOnce == ExecutedHasEvent /\ EventCreatedOnce

\* Nobody approves the unseen: what an approval executes was sent to the chat
\* as a prompt of that action, the refined arguments included.
ExecutedWasShown ==
  \A a \in Actions : status[a] = "executed" =>
    \E i \in 1 .. Len(shown) : shown[i] = <<a, args[a]>>

\* An approval bound by a quote executes what the quoted prompt says.
QuotedIsExecuted ==
  \A a \in Actions : status[a] = "executed" /\ boundTo[a] # 0 =>
    shown[boundTo[a]] = <<a, args[a]>>
ExecutedAsAgreed == ExecutedWasShown /\ QuotedIsExecuted

\* What the household may have been told has expired does not stay open unless
\* a call threw: while its row is pending a sweep that will mark it holds it,
\* over a crash between the notice and the mark (expiry.ts: "a crash between
\* the two replays into the same deduped enqueue, then marks"), or the last
\* sweep that held it was ended by an error.
AnnouncedIsHeld ==
  \A a \in noticed : status[a] = "pending" => a \in sweeping \cup dropped

\* Every proposal is answered, or time answers it, also when its prompt was
\* never sent and when the lane is blocked.  The condition: every sweep ends at
\* a row whose notice is in error, so that row and those that ran out after it
\* wait for the household to settle it.
PendingEnds ==
  \A a \in Actions : status[a] = "pending" ~>
    \/ status[a] \in Settled
    \/ \E b \in refused : status[b] = "pending" /\ ~Before(a, b)

\* A parked or refined proposal is not forgotten: once the lane is past the
\* turn that made it, every pending row is stamped with a prompt in the chat,
\* whatever crashed or threw in between (sendApprovalPrompts: "an unstamped
\* pending row is the durable to-send marker").
Calm == {"idle", "quoted", "settle", "digest", "classify", "model", "done"} \cup InSettle
PromptedWhenCalm ==
  routable /\ pc \in Calm => \A a \in PendingNow : stamp[a] # 0

\* Why approvals are sound, in the form that is inductive: a settlement holds
\* a pending row, executions are counted by the status, a stamp always points
\* at the prompt of the row's present arguments, and the prompt step holds or
\* has stamped every row that needs it.
InboxHeld == pc # "idle" => inbox # <<>>
LockHeld ==
  /\ pc \in {"settle"} \cup InSettle => target \in Actions
  /\ by # 0 => pc \in {"settle"} \cup InSettle /\ stamp[target] = by
  /\ pc \in InSettle => status[target] = "pending"
ExecutionCounted == \A a \in Actions : executions[a] = IF status[a] = "executed" THEN 1 ELSE 0
StampShows ==
  \A a \in Actions :
    /\ stamp[a] # 0 => shown[stamp[a]] = <<a, args[a]>>
    /\ status[a] = "none" => stamp[a] = 0
    /\ status[a] = "executed" => stamp[a] # 0
    /\ boundTo[a] # 0 => status[a] = "executed" /\ boundTo[a] = stamp[a]
Stampable(p) == \E a \in Actions : p = <<a, args[a]>> /\ status[a] # "none" /\ stamp[a] = 0
PromptsHeld ==
  /\ unsent # {} => pc \in InPrompt
  /\ \A p \in unsent : Stampable(p)
  /\ pc = "stamping" => Len(shown) > 0 /\ Stampable(shown[Len(shown)]) /\ shown[Len(shown)] \notin unsent
  /\ routable /\ pc \in InPrompt => \A a \in PendingNow :
       \/ stamp[a] # 0
       \/ <<a, args[a]>> \in unsent
       \/ pc = "stamping" /\ shown[Len(shown)] = <<a, args[a]>>
UnroutableIsSilent ==
  ~routable => /\ shown = <<>> /\ target = NoAction
               /\ \A i \in 1 .. Len(inbox) : inbox[i] = Item
ApprovalInv ==
  /\ InboxHeld /\ LockHeld /\ ExecutionCounted
  /\ StampShows /\ PromptsHeld /\ PromptedWhenCalm
  /\ UnroutableIsSilent
=============================================================================
