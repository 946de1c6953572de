# ezra in TLA+

ezra is a household assistant that lives in a WhatsApp account. One Node
process holds the WhatsApp socket, runs durable workflows (DBOS on Postgres),
calls a language model, keeps the household's facts and lists, and writes to its
calendars once a human has approved. A read-only console, a deploy script, a
firewall and a backup sidecar surround it. This directory models the parts where
order, crashes, time and retries decide what happens: whether a message is
answered once, an approval executes once, a dead socket is noticed, a transcript
stays whole, a firing is not lost, a deploy tells the truth.

Paths below are relative to the repository; `main.ts` without a directory is
`src/main.ts`, and `transport/`, `hitl/` and so on are under `src/`.

## The system

| Component | State it keeps | Operations | Module |
|---|---|---|---|
| Ingestion (`orchestration/ingest.ts`, `transport/inbound-log.ts`) | an `ingest-<id>` workflow per message | allowlist, drop echoes, start the enqueue workflow, let go of the message | Intake |
| Reminder sweep (`orchestration/scheduled.ts`, `tools/reminders.ts`) | reminders | find due ones, enqueue each under its firing id, mark | Intake |
| Lane (`orchestration/queue.ts`, `debounce.ts`) | `conversation_inbox`, a partition of the DBOS queue per conversation | insert and enqueue a drain; drain: read, wait for quiet, cut into batches, process, mark | Lane |
| Reply (`transport/send-class.ts`) | `sent_log` | at most once: claim, then send; at least once: send, then log; dead-letter | Lane |
| Recovery (`orchestration/recovery.ts`, `start.ts`) | DBOS workflows | after launch, resume the roots an older generation left pending | Lane |
| Turn (`agent/handle-turn.ts`, `compaction.ts`, `route-turn.ts`) | transcript, journal, semantic memory, logs of compaction and routing | load, settle, classify, route, rounds of model and tools, park, persist, compact | Turn |
| Approvals (`hitl/`) | `pending_actions` | park, prompt, bind a quote, classify, refine, settle, expire | Approval |
| Calendar (`tools/calendar-client.ts`) | events, a cached token | create with a deterministic id, where a 409 is success; list | Approval, Household |
| Tools (`tools/`, `memory/store.ts`) | facts, lists | set, get, list, add, mark, recall | Household |
| Wall clock (`orchestration/tz.ts`) | none | from a wall time to an instant and back | WallTime |
| WhatsApp adapter (`transport/baileys.ts`) | state, attempt, watchdog, retry budget, version | connect, reconnect, give up, fall forward, disconnect; send and receive | Socket, Intake |
| Health (`ops/health.ts`) | grace timer, alert sent | listen to the adapter, alert once per outage | Socket |
| Version watch (`transport/wa-version.ts`, `ops/wa-version-watch.ts`) | announced version, four latches | probe, adopt, tell | Ops |
| Tracing (`ops/tracing.ts`, `langfuse-sink.ts`) | buffer | emit, flush, shut down | Ops |
| Back office (`backoffice/`, `../backoffice/src`) | token, lockout, caches, cookie, tabs | serve, throttle, sign in and out, load cards | Backoffice |
| Router health and costs (`backoffice/router-health.ts`, `cost.ts`) | none | which anomalies to show, what tokens come to | RouterHealth, Costs |
| Releases and deploys (`infra/deploy`, `memory/migrate.ts`) | images, containers, `.env`, applied migrations | release, deploy, migrate, swap, watch, roll back | Deploy |
| Configuration (`ops/config.ts`) | none | what each loader asks of the environment, refuses and returns | Config, Routing |
| Firewall (`infra/egress/nftables.sh`, `ops/egress-allowlist.ts`) | two sets of addresses with timeouts | apply, refresh; which names may be resolved | Egress, Allowlist |
| Backups (`infra/backup`) | replication slot, spool, S3 | receive, ship, base backup, restore | Backup |

How they meet. A WhatsApp message reaches ingestion through a callback of the
adapter and becomes an inbox row and a queued drain in one workflow. The queue
runs one drain per conversation at a time; a drain starts a child workflow per
batch, which starts the turn, and then sends the prompts of what the turn has
parked and its answer. A proposal is answered by a later message of the same
lane, or by the expiry sweep, which runs beside the lane and puts its notice
*into* the lane; a due reminder enters the same way. Tools of two conversations
share the store and the calendar's token. Everything goes out through the
adapter, whose state the health monitor listens to and whose first connect
`main` awaits. Deploys end the process at any point; the firewall, the backups
and the console run beside it.

What is hard about it:

- **Crash and replay.** A workflow resumes after its last journaled step, so
  whatever happens inside a step (a claim, a send, a calendar create) may have
  happened and be done again; what a replay computes must be what it computed.
- **Identity by id.** A turn, a firing, a reply and an event are deduplicated by
  a deterministic id; the second start gets the *first* one's result, a recorded
  error included.
- **Interleaving.** Bubbles arrive while a drain runs; the sweep and a turn reach
  the same row; two sweeps overlap; timers, probes and pending connects complete in
  any order; a launch still migrates under the next deploy's gate.
- **Partial failure.** The calendar create inside the transaction that settles
  the row; the compaction after the transcript is persisted; a batch of traces of
  which some were taken.
- **Staleness.** A token near its end, a cached read, an address about to time
  out, an answer to a probe that began before another one adopted.
- **Silence.** A socket that neither opens nor closes; a proposal nobody was
  shown; a drain nobody resumes.

`PROJECT.json` lists the hazards at their lines, with the properties that would
catch each going wrong.

## Modules

Each component has a module with its state, its actions and its properties at
the end. Definitions named `...Mutant` are plausible bugs of the definition
behind them; no specification uses them, and each property is known to catch one.
`MC...` modules declare the model values and the bounds TLC needs.

### Lane, and Delivery

`Lane` is one conversation (conversations are independent partitions): the
enqueue workflow (`Arrive`, `TakeSeq`, `CommitInsert`, `EnqueueDrain`), the drain
(`StartDrain` .. `MarkProcessed`), `processTurnBatch` with its turn (`CallTurn`,
`TurnReturns`, `TurnThrows`, `GetResult`, `RethrowTurn`, `SendPrompts`) and the
send step (`ClaimReply`/`SendReply` for at most once,
`CheckReply`/`SendReply`/`LogReply` for at least once, `DeadLetter`,
`RejectReply`, `SendThrows`, `FinishReply`), then `Crash`, `Launch` and the
launch pass (`ResumeEnqueue`, `ResumeDrain`).

| Variable | Code |
|---|---|
| `enq`, `enqLive`, `seq` | the enqueue workflow of a message; the row's serial |
| `processed` | `processed_at` |
| `status`, `live`, `pc` | DBOS status of a drain, whether this process executes it, the step it is at |
| `todo`, `lead`, `batch`, `text` | what its journaled steps have returned |
| `turn`, `input`, `last` | workflow `turn-<id>`, the batch it was started with, the transcript's last answer |
| `sentLog`, `sends`, `texts`, `dead` | `sent_log`; what left on the wire; dead letters |

A journaled result is kept in a variable that a crash does not touch; the points
inside the send step are lost (`Crash` puts the drain back to `reply`). An
insert takes its serial before it commits, so `CommitInOrder = FALSE` lets rows
become visible out of order. Routability of the chat, and whether DBOS lists an
interrupted drain as a root (`rooted`, one of `DrainIsRoot`), are chosen at the
start and fixed. A turn is one step that returns or throws, before or after it has
persisted; `Turn` opens it up.

`Delivery` is what a conversation promises, without queues, drains or crashes:
what is accepted is handled once, its reply leaves only while it is open, a reply
of the one kind is claimed before it leaves and is spent once, one of the other
repeats until it is logged or is buried unsent. `Lane!ImplementsDelivery` maps
accepted to visible rows, handled to processed ones, claimed to `sent_log`.

### Turn

One turn after the other, as the lane runs them. `journal` is the list of step
outputs, `pos` how many the program has passed; a step is fresh at the journal's
end and a read of the journal before it. `Crash` loses the program's variables
(`msgs`, `due`, `tier`, ...) and may bring the next process up under another
configuration (`config`: the routing mode and the tiers that are rolled out),
`Relaunch` starts the program at the top, and a replay that meets another step than
the journal has is stuck. That happens where routing was switched off or on under
a turn that had passed the router's place: `makeTurnRouting` wires a step that the
journal lacks, or none where it has one (`Astray`).
Tools, settlements and parking happen inside journaled transactions. A message is
its role, what it is about, and its tool calls. The router's thresholds are bands
(`yes`, `no`, `unsettled`), and `Decisions` holds every answer of Jev and every
failure. A settlement is one of its outcomes, those included that settle nothing
and are told (a create that failed, an action settled before) or that leave the
action to the classifier (an unclear reply to a quote). Abstractions: at most one
quoted settlement and one classification per batch, the texts, the prompt assembly;
`Approval` has the settlement in detail.

### Approval

The life of parked proposals in one conversation: the household writes (`Write`),
the lane runs the head of the inbox through the turn's approval part (quote:
`QuoteDecidesNothing`, `QuoteDenies`, `QuoteApproves`, `SettleStart`,
`AlreadyResolved`, `SettleStale`, `CreateEvent`, `SettleCommit`, `SettleFails`;
classifier: `ReadDigest`, `Classify*`; model: `Answer`, `Park`, `CloseParked`),
then the prompt step (`ReadUnstamped`, `SendPrompt`, `DeadLetterPrompt`,
`StampPrompt`, `PromptThrows`), while the sweep runs beside it (`SweepRead`,
`EnqueueNotice`, `NoticeThrows`, `SweepRethrows`, `MarkExpired`, `MarkThrows`). It
takes its rows in the order in which they ran out (`overdue`) and ends at the first
error: a notice whose enqueue threw is a workflow in error for good (`refused`),
which each later sweep gets as its result and rethrows (`SweepRethrows`), before
the rows behind. A crash keeps a sweep's journal, so it goes on where it was. One
sweep runs at a time. `dropped` is history: what a sweep had announced and not
marked when an error ended it. The row of `pending_actions` is `status`, `args`
and `stamp`; `shown` is the sequence of prompts in the chat and a stamp is a
position in it. Between `SettleStart` and `SettleCommit` the row is locked, and a
crash rolls it back but leaves the event on the calendar.

### Socket

The adapter's state machine with the client version it announces and the two
listeners to its state: the health monitor and `waitForOpen`, which decides
whether `main` goes on or exits. Each callback is an action: `Connect`,
`SocketBuilt`, `ConnectRejected`, `ConnectFails`, `Opens`, the ways a close event
is handled, `WatchdogFires`, `BackoffEnds`, `ProbeReturns`, `GraceEnds`,
`ForceReconnect`, `Shutdown`. `loading` holds connects before their second await;
one that the watchdog has given up stays in it and completes or rejects at any
later time. All state is in memory, so a crash is a fresh behaviour and no action.

### Intake

How work reaches the inbox: messages WhatsApp delivers, the assistant's own
messages that come back, due reminders. `deferred` says when the transport lets
go of a message: when it is handed over (Baileys) or when the handler returns
(the stub). `sentIds` is the echo filter `RecentIds` with its capacity, filled by
`Receipt`, too late where a send times out or a crash cuts it off. Sweeps read the
due reminders (`SweepRead`), and take them in the order of their times
(`SweepStart`, `SweepWait`, `SweepMark`).

### Household, WallTime

Two conversations call tools at the same time, each call a transaction at READ
COMMITTED, one statement per action (`LookUp`, `FindSimilar`, `UpsertFact`, ...).
A key is its words and whether it is spelled the canonical way; `Within` says
which words are part of others, as ILIKE finds them. A crash undoes what is open
and the call is made again. The calendar client's token has a life, and requests
take time up to their timeout. `WallTime` is the two-pass conversion of `tz.ts`
over one year with its two clock changes.

### Backoffice, RouterHealth, Costs

`Backoffice` is the console from the cookie jar to the card. A request is a record
in `net` that is handled and answered in any order; the server throttles wrong
tokens per address, sets or clears the one cookie, and serves cached reads that
may be shared, fail, or be under way. `RouterHealth` and `Costs` are the pure
functions that decide which routing anomalies are amber and how tokens and money
are divided over days, kinds and months.

### Host: Ops, Deploy, Egress, Backup

`Host` puts four parts side by side. They touch one another at a few points
(a deploy stops the sidecar, applies the firewall, ends the process), and each
part takes those as something that may happen at any time, so one part moves in a
behaviour while the others rest.

- `Ops`: probes that overlap, what an answer means against the version that is
  active when it comes (`Event`), the watch's latches (`After`, `Streak`,
  `Alerts`), the trace buffer with its batches on the wire, and the order in which
  `main` starts and stops them.
- `Deploy`: release, build, `on-host-deploy.sh` from the environment to the
  rollback, with the containers a deploy leaves behind, which still start, migrate
  or connect under the next one, and the operator's reconciliation of the host
  behind a deploy that was refused sudo. Deploys are taken one after the other. A
  container comes up with the environment that was on disk when it was made,
  overridden by what `docker-compose.prod.yml` sets (`Wiring`), and `Config` says
  whether its loader accepts that; where it does not, the container loops and the
  gate fails. A rollback keeps the new environment, so a release that is rolled
  back because of its environment leaves a prior one that does not come up either.
  The socket is what the log of the container says of it last, as the gate reads it:
  a restarted process logs that it is connecting when it gets there, and until then
  the log says what it said.
- `Egress`: apply and refresh as units that overlap, elements that time out.
  `Allowlist` has the names it may resolve. `proven` is history: what has been put
  within the hour; `wiped` is what of it an apply or a boot has deleted and none has
  put since.
- `Backup`: the slot, the receiver, the shipper and its spool, base backups, and
  what `restore.sh` makes of what is in S3. A slot that the sidecar makes
  (`StartSidecar`) reserves nothing (`Unreserved`) until the receiver comes to it
  (`Attach`); a base backup waits for neither. `since` is history: the position at
  which the receiver came.

### Config, Allowlist, Routing

Pure functions, without state of their own. `Config` is `ops/config.ts`: an
environment is a function on the variables that are set, a value the set of its
items (so that an empty string, a blank item and something a format refuses are
told apart), and each loader returns what it throws and what it reads.
`Allowlist` is the list of hosts, whose names are sequences of labels, the
artifact the firewall is given and the names `nftables.sh` adds to it. The header
of `render-allowlist.ts` speaks of a loop in `nftables.sh` that resolves on a
miss; there is none there, and the model has none. `Routing` is what `main.ts`
makes of the routing part of the configuration: whether there is a router, the
model and effort of a tier, and what the router shows Jev of a transcript.

### Proof modules

`LaneProofs`, `ApprovalProofs`, `SocketProofs`, `IntakeProofs`, `HouseholdProofs`,
`BackofficeProofs`, `HostProofs`, `TurnProofs`.

## Runs

| Run | Instance | Shows |
|---|---|---|
| `lane_faults` | 2 bubbles of one sender and a reminder, 1 throw of anything, 1 crash, both kinds of chat | the lane implements `Delivery`; nothing is dropped without a fault to blame; answers belong to their turn; reminders are delivered; turns start in inbox order |
| `lane_live` | a bubble and a reminder, 1 throw, 1 crash, overlapping inserts, drains that are roots or not | an enqueued drain drains the inbox, or a crash stranded one that is no root |
| `approval` | 2 proposals, 2 argument values, 3 messages | nothing executes twice, unseen or as something else; settled is settled |
| `approval_live` | 1 proposal, arguments with two calendar owners, 3 messages, 1 throw, 1 crash | row and event agree, prompts are not forgotten, what is announced as expired is in a sweep's hands, a proposal ends unless a notice is in error |
| `socket` | 2 versions, a budget of 1 retry, 4 events | never deaf, one socket and one retry, a revoked pairing stays down, outages end or are heard of |
| `turn` | 2 turns of 3 kinds of batches and 3 of responses, 2 rounds, 1 throw, 1 crash with any configuration behind it | the transcript and what was cut off it tell everything once; the reply is the turn's own; one tier per turn; it stays bounded; every turn ends or has lost its way to a switch of the mode |
| `intake` | a member's message, a stranger's, two own ones, two reminders, two sweeps, 1 throw, 1 crash, a filter of 1 | what was let go of is durable but for the window the code names; self-talk needs a lost id; firings are kept; due reminders fire |
| `household` | 2 conversations with 2 calls each, out of 9 kinds of calls, 1 crash; caps of 1 to 3 | near-duplicate keys need a race or a word; capped answers say so; tokens are accepted |
| `backoffice` | 2 tabs and a script, 3 tokens, 1 loss, time up to 4 | only guesses lock an address; sessions end for a reason; caches keep what they promise; the operator gets to the data |
| `host` | 2 probes and 3 versions; 2 traces of 4 spans; 2 deploys of 2 releases with 3 environments; 3 addresses; 3 segments, 2 bases, 2 stops | alerts tell edges; versions advance; traces are whole; deploys are honest and migrate once; a refresh loses nothing the firewall saw; no gap in the WAL behind a base the receiver was there for |

Bounds. Two bubbles of one sender are the smallest batch that two drains can cut
differently; an item of another class next to them makes the class matter. One
crash and one throw lose what is inside a step and take a workflow up again; the
properties are about the pair (first execution, replay). Three messages allow
propose, refine or quote, and quote again; a second proposal is needed for the
classifier to choose wrongly. A budget of one retry reaches a retry, its
exhaustion and the reset by an open; four events allow a version to be refused,
another published, the socket to open and to restart. Two turns with a threshold
of four messages make the second one compact what the first has left. Capacity 1
of the echo filter is where a second own message pushes the first one out. Two
calls of two conversations are the race for a key and a read behind it; a key
that contains another and one of other words are what similarity tells apart.
Two releases and two deploys are one release under the containers of another; a
third adds no new pair. Two stops of the sidecar are one behind a half-shipped
segment and one behind its repetition. Three versions let one probe adopt while
an older and a newer answer are on their way. Of the three environments two differ and
are both fine, and one stops the process (routing without the router's key) and
the console (a token too short); a release that is broken meets a fine
environment only, so that one thing is wrong at a time.

`approval_live` has one proposal: with two, the liveness of the sweep does not come
to an end in reasonable time. The rows that starve behind a notice in error are the
condition of `PendingEnds`; a sweep over two firings, one of them in error, is in
`intake`.

`Scenarios` (Intake, Ops, Backoffice), `Scenes` (Host) and `Plans` (Household)
choose at the start which part of the inputs occurs in a behaviour, so that what
does not interact is not multiplied; each is a bound, and each scenario is a
behaviour the code has.

Three MC modules state assumptions TLC evaluates before the run, over every input
of a size. `MCBackoffice`: with at most twenty rows the 95th percentile is the
slowest (`SlowIsTheSlowest`); a router that is down shows at its first turn
whatever rules routed (`DeadRouterShows`); each correction is charged once, to
the nearest earlier turn of its conversation (`CorrectionsAreCharged`); shares
come to the whole (`SharesAreWhole`) and the chart to its days (`ChartIsTheDays`).
`MCHousehold`: wall times are exact (`WallTimesHold`; proved for all of them).
`MCHost`: which container comes up with which environment (`WhoComesUp`), and that
Jev is shown what people and the assistant said and nothing else (`JevSeesPeople`).

`CHECK_DEADLOCK FALSE` is in every configuration because the system may rest:
nobody writes, the inbox is empty, the adapter has given up, the process has
exited, the bound on what people do is reached.

Runs that find the code doing other than it says:

| Run | What happens |
|---|---|
| `lane_swallowed` | a bubble joins the batch of a turn that has already run, and is marked processed unseen (`main.ts` 384) |
| `lane_bricked` | one failing compaction leaves `turn-<id>` in error and every later drain rethrows it (`main.ts` 387) |

### What the passing properties leave out

These are in the models as the code has them, and the properties are stated so
that they do not claim otherwise:

- A drain interrupted by a crash is resumed only if DBOS lists it as a root
  (`recovery.ts` 12-21, `hasParent: false`). It is started inside the enqueue
  workflow (`queue.ts` 127), which has ended by then. What DBOS records as its parent
  is not in this repository. If it is that workflow, the drain stays pending and holds
  the only place of its partition, so nothing of that chat is handled until an
  operator resumes or cancels it; `docs/recovery-runbook.md` 28-50 and
  `docs/launch-checklist.md` 89 have the turn complete, and the test of the launch
  pass covers a root. `EnqueueDrainsInbox` is checked with both answers and excuses
  the one as `Stranded`.
- With overlapping inserts *and* a throw, order and answers are not claimed; the run
  that checks them has inserts in order.
- A throw of the enqueue of an expiry notice leaves `expire-<id>` in error
  (`hitl/expiry.ts` 87-91). Every later sweep ends there: the row, and those that ran
  out after it, stay pending until the household settles them. `PendingEnds` excuses
  them. Between the notice and the mark a turn may still approve the action, so what
  was announced as expired may be executed.
- A create whose answer was lost leaves its row pending, and the row may expire or
  be denied with its event on the calendar (`resolve-approval.ts` 195). A refinement
  approved next meets the 409 of an event with the old arguments: `ExecutedAsAgreed`
  speaks of the arguments executed.
- A turn whose process was configured with routing and that is replayed by one
  without, or the other way, meets another step than its journal has
  (`handle-turn.ts` 331) and is stuck; `TurnEnds` excuses it as `Astray`. A change of
  rollout alone does no harm.
- In the backoff the adapter's state may still be `open` and `send` accepts a
  message for a socket that is gone (`baileys.ts` 373, 464). `OneOfEach` claims
  nothing more once an abandoned connect has rejected late, which drives a second
  retry.
- A restart that was forced on a socket already gone swallows the next close, a
  logout included (`baileys.ts` 507). `LogoutIsFinal` speaks of what follows a logout
  that was reported.
- `AckedIsDurable` claims nothing on the side of Baileys behind a crash or a throw:
  that is the window. In the model an own message comes back behind the receipt
  or the timeout of its send, never before.
- A sweep stops at a reminder whose firing is in error, and later reminders
  starve (`scheduled.ts` 63).
- Two facts that are stored at once may be near duplicates: `KeysStayApart` excuses
  calls that were under way at the same time.
- `AnswersAreFresh` bounds the probes that go out (`ProbeTimeout`); those of Postgres
  (`probes.ts` 130-196) have no timeout of their own, and the model takes them to be
  done within the same bound.
- `VersionsAdvance` takes it that the published version only goes up and that the
  pinned one is not ahead of it; the code compares for equality. The latch of
  no-upgrade never opens again, against the header of `wa-version-watch.ts` (7-9).
- A sign-out whose call is lost leaves the session alive (`client.ts` 81).
- An apply, which a deploy or an operator runs, wipes the addresses of names that
  rotate and loads those of one lookup (the incident at the head of
  `hh-egress-refresh.service`). `SeenIsHeld` says that refreshes lose nothing, and
  excuses what an apply or a boot has wiped until it is put again. A load that fails
  behind the delete leaves no table.
- A base backup taken before the receiver came to the slot has a gap up to the
  receiver's first segment, slot or no slot (`backup.sh` 32-33, 83); `restore.sh`
  134-140 warns of it. `NoWalGap` speaks of the others (`Followed`).
- A newest base backup with a part missing, or one segment cut short by its
  encryption, makes `restore.sh` fail although older bases are whole.
- Deploys are taken one after the other. What `DeployIsHonest` says of a deploy that
  was rolled back is what the script itself looks at (`Suspect`), the last socket line
  of a log that a restart does not clear included.

`docs/known-issues.md` has the history of some of these: SOCKET-DEAD-001 (line 8)
is what `NeverDeaf` and `OutagesEnd` are about, WA-VERSION-001 (105) the falling
forward in `Socket` and the watch in `Ops`, HEALTH-GRACE-001 (216) the grace
timer, PROX-SEND-001 (351) the send classes.

## Fairness

Weak fairness is assumed of what the code schedules itself, and of nothing else:

- the host restarts the process (`Launch`, `Relaunch`; the container's restart
  policy), and DBOS executes what is enqueued or in flight (`Enqueue`, `Advance`,
  `Turn`, `Step`, `RunEnqueue`);
- the cron starts sweeps and a sweep goes on (`Sweep`, `Tick`), and deadlines pass
  (`TtlPasses`);
- timers fire, sleeps and probes end, each of which has a timeout (`Connect`,
  `WatchdogFires`, `BackoffEnds`, `ProbeReturns`, `GraceEnds`, `Upstream`), and a
  socket the adapter has ended reports its close;
- requests are served (`Serve`), and for `ConsoleComes` an operator who wants in
  reloads or signs in with the current token.

Nothing is assumed of people otherwise (nobody need write), of WhatsApp (a socket
may neither open nor close, a connect may hang for ever, a version may be refused)
or of failures (nothing need fail, and what may fail is bounded). `OutagesEnd`
therefore holds because of the watchdog and the grace timer alone.
`EnqueueDrainsInbox` claims nothing for a chat that is unroutable, whose turn is
in error (which is what `lane_bricked` is about), or in which a crash stranded a
drain. `PendingEnds` holds even when the lane is blocked, because the sweep does not
need it; it claims nothing of rows behind a notice in error. The other modules
state no fairness, because nothing they claim needs it.

## Proofs

TLAPS checks these for every value of the constants: any number of messages,
senders, proposals, arguments, versions, crashes, throws, retries, deploys,
addresses, segments, and any timeouts the assumptions allow. The assumptions are
the named `ASSUME`s of the modules, which TLC evaluates in every run.

- **Lane.** `TypeCorrect`; `ClaimsSound`, from which `AtMostOnceHolds` follows.
  That nothing is sent twice is not inductive: it needs that a claim is written
  before its send, has one holder, is unspent while it is held, and that a crash
  never leaves a drain inside the send step. `NothingLost` (`NoMessageLost`) adds
  who has shown what to which turn.
- **The lane's order.** `TurnsOrdered`, `AnswersKept` and `RemindersKept` hold
  where inserts do not overlap (`CommitInOrder`): rows are processed from the front
  (`RowsInv`, `InOrderInv`), so at most one turn is unsettled, so the transcript's
  last answer is the one of the turn whose drain replies (`LastIsOwn`). Where they
  do overlap, `CalmAnswersKept` proves the same as long as no turn threw and the
  chat can be reached; with an overlap *and* a throw both properties fail, as TLC
  shows on `lane_faults` with `CommitInOrder = FALSE`.
- **Lane implements Delivery.** `LaneImplementsDelivery`. Each step of the lane
  maps to one step of `Delivery` or to none. That needs `RefInv`: one drain is
  under way; what a drain has in hand is unmarked, its batch and its rest apart; a
  reply that may repeat is logged behind its send; an unreachable chat is sent
  nothing and another buries nothing.
- **Approval.** `TypeCorrect`, `ApprovalsSound`, and from them `ExecutedOnceHolds`,
  `ExecutedAsAgreedHolds`, `PromptedWhenCalmHolds`, `AnnouncedIsHeldHolds`, the
  action property `SettledIsFinalHolds`, and, with invariants of their own about
  the calendar, `EffectOnceHolds`. `AnnouncedIsHeldHolds` rests on this: a sweep is
  ended by an error or has marked all it held. `ApprovalInv` relates lane and rows:
  whoever settles holds a pending row, executions are counted by the status, a
  stamp points at the prompt of the present arguments, and in the prompt step every
  pending row is stamped or still to be sent.
- **Socket.** `TypeCorrect`, `NeverDeafHolds`, `HealthInSyncHolds`,
  `ShutdownDisarmsHolds`. `NeverDeaf` needs to know what a sleep or a probe that
  ends after the shutdown leaves behind, and that nothing is under way before the
  first connect. `OneOfEachHolds` and `LogoutIsFinalHolds` count, for each attempt,
  the one thing that may still go on with it: a build, a socket, a close that is
  due, a sleep or a probe (`IdsInv`, `OneInv`).
- **Intake.** `TypeCorrect`; `AckedIsDurableHolds`, for which a workflow's recorded
  error must have a throw behind it and who waits must have started;
  `FiringsKeptHolds`, for which a reminder cancelled in time is in no sweep's
  hands; `SelfTalkNeedsLostIdHolds`, whose invariant says that what the filter
  remembers is exactly the end of what was learnt, as far as there is room.
- **Household.** `TokensAcceptedHolds`: whoever waits has waited no longer than the
  timeout, what the client caches may be a timeout too long, and a request shows a
  token that outlives it; this is where `2 * Timeout <= Slack` is used.
  `KeysStayApartHolds` and `AnswersCompleteHolds` rest on `FactsInv`, which says
  what a call that is under way has read, and that whatever it did not see is
  younger than it (`PlansAreRequests`: a plan is a sequence of calls, and a key is
  a text). `WallTimesExact`: every wall time, whatever the two instants and the
  zone.
- **Back office.** `OnlyGuessesLock`: a lock's count is that of the wrong tokens
  behind the last right one, and each is within the window of the first
  (`ThrottleInv`). `FreshAnswers`: no cached or shared read is older than its life
  at the moment it is handed on. `SessionsEndForAReason`: who holds the cookie, and
  what the answers that are under way will do to it. The window is taken to be
  positive; `cli.ts` passes fifteen minutes.
- **Turn.** `OneTierHolds`, whatever configuration each process has: the journal of
  a turn has one decision of the router; a run that is past the router has that
  entry behind it, because it wrote it or was handed it back; the log names it; and
  the model is asked only behind the log. The transcript needs more
  (`ToldOnceHolds`, `ReplyIsOwnHolds`, `TranscriptBoundedHolds`): a crash throws
  the program away, so no invariant over its variables survives one by itself. What
  the program holds is a function of the journal's entries it has passed (`After`),
  so the journal spells out a path from `Start`, and a run of the turn, the first
  or a relaunched one, is a point of it (`OnPath`). `Fine` says what the program is
  at each point: the model accepts what it would be shown, its own messages have
  one place each, no run of messages without a member's is longer than one turn can
  say. `Held` says how the store fits the path's end, where alone a step acts on
  it: a result that is told and an effect that is done go together, and a head is
  both in the transcript and in the log only between the log's step and the
  truncation. Between turns `Held` is that of the next turn's start. The compaction
  cuts where a member's message is, so no call is parted from its result
  (`CutsApart`), and the last such place is near enough to the end (`BehindCut`).
  `MaxCalls` needs the assumption that the model's answers have a longest one,
  which `call-model.ts` sees to with its `MAX_OUTPUT_TOKENS`.
- **Host.** `SeenIsHeldHolds` (a refresh that has listed a set either sees an
  element or puts it with time to spare; what a delete takes away is in `wiped`
  until it is put again); `NoWalGapHolds` (what the receiver has had since it came
  is shipped, in the spool or with the primary, and what was shipped went in order,
  because the shipper takes the oldest segment; a base that ends where the receiver
  had come or later needs no other); `VersionsAdvanceHolds` (what a probe has seen
  was published when it looked, so only an adoption since can be ahead of it);
  `MigratedOnceHolds` (who has the lock has it alone and nothing of its work is
  done); `TellsEdgesHolds` (the four latches say of the log everything an edge is
  told by; that a newest entry exists is carried in `WatchInv`, because it would
  take an induction to prove); `TracesWholeHolds` (each span is in one place: the
  buffer, a batch, what arrived or what is known to be lost, and its trace's
  announcement is no further behind); the action property `DeployIsHonestHolds`
  (how far a deploy is says what it has done to the host, `OnItsWay`: the
  containers are the recorded ones until it swaps and its own behind the swap; the
  steps that happen beside it, a restart, a launch that migrates, a socket that
  drops, replace no container).
- **Configuration, firewall names, routing.** For every environment, every list and
  every transcript: `ToolsReadTheSame`, `ConsoleFailsClosed`, `RoutingCanRun`,
  `RouterIsWired`, `AllowedByLabels`, `ResolvedIsAllowed`. They say that loaders
  which read different parts of one environment agree on it, that what a loader
  lets through the wiring can use, and that the firewall's names are the list's.

Only model-checked: everything about liveness (fairness and ENABLED are out of the
prover's reach); what `SelectSeq` leaves of a transcript (`JevSeesPeople`).
What a recursive definition computes for every input could not be proved (induction
over data), so no module that is proved about has one: batches are a set
comprehension instead of the loop in `debounce.ts`.

## Not modelled

- Prompts, rendering, language detection, which word is a yes, which field of a
  WhatsApp envelope holds the text: data. What depends on them is an input.
- What a summary says and which memories are nearest.
- The transport of alerts, logs, the ping of the dead man's switch beyond when it is
  armed: no state another part reads. The wording of a loader's refusal.
- The nightly extraction, which is scheduled and does nothing yet.
- Session files, pairing, runners, scripted days, evaluations, lint rules,
  provisioning, spikes: tools of development, no part of what runs.
- Two deploys at once (`deploy.yml` has no concurrency group), a revoked calendar
  token, packets in the firewall, restore drills.
- DBOS, Postgres, WhatsApp, the model, Google Calendar, Langfuse, S3 and Docker are
  modelled by how the code uses them.
