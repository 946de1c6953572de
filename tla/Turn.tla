-------------------------------- MODULE Turn --------------------------------
(***************************************************************************)
(* One turn of the agent: the workflow handleTurn, its loop of model and   *)
(* tool calls, what it leaves in the transcript, and the compaction of the *)
(* transcript behind it (src/agent/handle-turn.ts, call-model.ts,          *)
(* compaction.ts, route-turn.ts, src/tools/registry.ts).                   *)
(*                                                                         *)
(* The workflow is deterministic between its steps, and a step's output is *)
(* journaled.  A crash loses everything the program holds; the relaunch    *)
(* runs it again from the top, and each step that is in the journal hands  *)
(* back its output instead of happening.  The lane runs the turns of a     *)
(* conversation one after the other (module Lane), so the journal and the  *)
(* program are those of the one turn at hand.                              *)
(***************************************************************************)
EXTENDS Naturals, FiniteSets, Sequences, SequencesExt

CONSTANTS
  NTurns,       \* how many turns the conversation has
  Batches,      \* the batches a turn may be started with: sequences of items
  Responses,    \* what the model may answer: sequences of kinds of tool calls
  MaxRounds,    \* rounds of tool calls before the forced final answer
  Threshold,    \* compact a transcript longer than this
  Keep,         \* messages the compaction leaves alone
  Configs,      \* what a process may be configured with on turn routing
  Faults,       \* which dependencies may throw
  MaxFails,     \* bound on throws
  MaxCrashes    \* bound on crashes

Items == {"text", "quote", "notice"}
Kinds == {"auto", "confirm", "bad"}
Tiers == {"fast", "standard", "deep"}
Turns == 1 .. NTurns

ASSUME TurnConstants ==
  /\ NTurns \in Nat /\ MaxRounds \in Nat \ {0}
  /\ Batches \subseteq Seq(Items) \ {<<>>} /\ Responses \subseteq Seq(Kinds) /\ <<>> \in Responses
  /\ \E r \in Responses : \A s \in Responses : Len(s) <= Len(r)   \* MAX_OUTPUT_TOKENS bounds the answers
  /\ Keep \in Nat \ {0} /\ Threshold \in Nat /\ Keep < Threshold
  /\ Configs \subseteq [mode : {"off", "shadow", "on"}, enabled : SUBSET Tiers]
  /\ Faults \subseteq {"model", "tool", "compaction"}
  /\ MaxFails \in Nat /\ MaxCrashes \in Nat

VARIABLES
  turn,      \* the turn at hand, 0 before the first
  status,    \* of the turn at hand: none, running, done or error
  input,     \* per turn: the batch it was started with
  journal,   \* the outputs of its completed steps, in order
  ctx,       \* the persisted transcript
  pending,   \* tool calls parked and not settled
  effects,   \* what was done in the world, in order: which call, in which turn
  memory,    \* turns whose summary is in the semantic memory
  heads,     \* compaction_log: the head each compacting turn cut off
  routes,    \* turn_route_log: the tier of each turn that was routed
  config,    \* turn routing as the process at hand is configured
  live,      \* the workflow is executing
  pc,        \* the step it is about to do
  digest,    \* the pending actions it last read, or those the message may mean
  pos,       \* how many steps of the journal it has passed
  msgs,      \* the transcript it is building
  due,       \* tool calls of the last response it has not run yet
  parked,    \* tool calls it has parked in this round
  rounds,    \* model calls so far
  tier,      \* the routed tier
  asked,     \* history: the tiers of the model calls that were made
  fails, crashes

world   == <<pending, effects, memory, heads, routes>>
program == <<live, pc, pos, digest, msgs, due, parked, rounds, tier>>
vars    == <<turn, status, input, journal, ctx, world, config, program, asked, fails, crashes>>

-----------------------------------------------------------------------------
(* Messages.  What a message is about: its turn, its round (0 outside the  *)
(* loop), its place, and what sort of thing that is.                       *)

Subject(t, r, k, what) == <<t, r, k, what>>

User(id)            == [role |-> "user", about |-> id, calls |-> <<>>]
Assistant(id, c)    == [role |-> "assistant", about |-> id, calls |-> c]
Result(call)        == [role |-> "tool", about |-> call, calls |-> <<>>]
Summary(t)          == User(Subject(t, 0, 0, "summary"))
Update(t)           == User(Subject(t, 0, 0, "update"))
Reprompt(t)         == Assistant(Subject(t, 0, 0, "reprompt"), <<>>)
Prompt(call)        == Assistant(call, <<>>)
Answer(t, r, calls) == Assistant(Subject(t, r, 0, "answer"), calls)

\* toModelMessages: one user message per item of the batch, whatever it is.
BatchMessages(t, b) == [i \in DOMAIN b |-> User(Subject(t, 0, i, "item"))]

CallsOf(t, r, kinds) == [k \in DOMAIN kinds |-> Subject(t, r, k, kinds[k])]

\* Every tool call is answered once, in order, right behind its message, and
\* nothing else is an answer: what toSdkMessages and the provider accept.
WellFormed(s) ==
  \A i \in DOMAIN s :
    /\ \A k \in DOMAIN s[i].calls :
         i + k \in DOMAIN s /\ s[i + k] = Result(s[i].calls[k])
    /\ s[i].role = "tool" =>
         \E j \in 1 .. i - 1 : i - j \in DOMAIN s[j].calls /\ s[j].calls[i - j] = s[i].about

-----------------------------------------------------------------------------
(* decideTier: the truth table over Jev's answers, each a band.            *)

Bands == {"yes", "no", "unsettled"}

\* turnRouteQuestions, without corrects_previous, which only the monitor reads, and
\* with the intents that decide nothing made one.
Questions == {"asks", "several", "back", "weighs", "schedule"}
Intents   == {"list_edit", "social", "other"}

\* toRouteAnswers: every question is answered, or the whole reply is malformed.
Answers == [Questions -> Bands] \X Intents

DecideTier(a, intent) ==
  IF a.weighs = "yes" \/ (a.schedule = "yes" /\ a.several = "yes") THEN "deep"
  ELSE IF \/ a.asks = "no" /\ intent = "social"
          \/ /\ intent # "other"
             /\ a.several = "no" /\ a.back = "no" /\ a.schedule = "no"
  THEN "fast" ELSE "standard"

\* applyRollout, and shadow mode, which proposes and changes nothing.
Rollout(t) == IF config.mode = "on" /\ t \in config.enabled THEN t ELSE "standard"

Quoted(b)  == \E i \in DOMAIN b : b[i] = "quote"
HasText(b) == \E i \in DOMAIN b : b[i] \in {"text", "quote"}

\* preRouteTier: code routes the turns next to an approval, and asks nobody.
PreRouted(b, actions) == actions # {} \/ Quoted(b) \/ ~HasText(b)

\* ask(): Jev's answers, or a JevError of one of these kinds.
JevErrors == {"timeout", "network", "http", "malformed"}

\* What routeTurn may return: Jev's decision, or standard for any failure.
Decisions(b, actions) ==
  IF PreRouted(b, actions) THEN {"standard"}
  ELSE {Rollout(DecideTier(a[1], a[2])) : a \in Answers} \cup {"standard" : e \in JevErrors}

-----------------------------------------------------------------------------
(* The workflow's frame: starting, journaled steps, crash and relaunch.    *)

ProgramStart ==
  /\ pc' = "load" /\ pos' = 0 /\ digest' = {} /\ msgs' = <<>>
  /\ due' = <<>> /\ parked' = <<>> /\ rounds' = 0 /\ tier' = "standard"

Init ==
  /\ turn = 0 /\ status = "none" /\ input = [t \in Turns |-> <<>>] /\ journal = <<>> /\ ctx = <<>>
  /\ pending = {} /\ effects = <<>> /\ memory = {}
  /\ heads = [t \in Turns |-> <<>>]
  /\ routes = [t \in Turns |-> "none"]
  /\ config \in Configs /\ live = FALSE
  /\ pc = "load" /\ pos = 0 /\ digest = {} /\ msgs = <<>>
  /\ due = <<>> /\ parked = <<>> /\ rounds = 0 /\ tier = "standard"
  /\ asked = {} /\ fails = 0 /\ crashes = 0

\* The lane starts turn-<id> with the next batch; an errored turn blocks it.
StartTurn(b) ==
  /\ status \in {"none", "done"}
  /\ turn < NTurns
  /\ turn' = turn + 1
  /\ status' = "running"
  /\ input' = [input EXCEPT ![turn'] = b]
  /\ journal' = <<>>
  /\ live' = TRUE
  /\ ProgramStart
  /\ asked' = {}
  /\ UNCHANGED <<ctx, world, config, fails, crashes>>

At(p) == live /\ pc = p

\* The next step is not in the journal: it happens now.
IsFresh == pos = Len(journal)

\* What a step returns: the journaled output when there is one.
Output(now) == IF IsFresh THEN now ELSE journal[pos + 1].out

\* The step called name returns out.  A journal with another step at this
\* place is a replay gone astray, which DBOS refuses.
Journaled(name, out) ==
  /\ pos' = pos + 1
  /\ IF IsFresh
     THEN journal' = Append(journal, [step |-> name, out |-> out])
     ELSE journal[pos + 1].step = name /\ journal[pos + 1].out = out /\ UNCHANGED journal

frame == <<turn, status, input, config, live, fails, crashes>>

\* The process dies, in a turn or between turns, or is replaced; the next one
\* has the configuration it finds.
Crash ==
  /\ crashes < MaxCrashes
  /\ crashes' = crashes + 1
  /\ config' \in Configs
  /\ live' = FALSE
  /\ ProgramStart
  /\ UNCHANGED <<turn, status, input, journal, ctx, world, asked, fails>>

Relaunch ==
  /\ status = "running"
  /\ ~live
  /\ live' = TRUE
  /\ UNCHANGED <<turn, status, input, journal, ctx, world, config, pc, pos, digest, msgs, due,
                 parked, rounds, tier, asked, fails, crashes>>

\* Steps that call out may throw, which errors the workflow for good.
Throws(f, points) ==
  /\ f \in Faults /\ fails < MaxFails
  /\ live /\ pc \in points /\ IsFresh
  /\ fails' = fails + 1
  /\ status' = "error"
  /\ live' = FALSE
  /\ UNCHANGED <<turn, input, journal, ctx, world, config, pc, pos, digest, msgs, due,
                 parked, rounds, tier, asked, crashes>>

\* makeTurnRouting: no router is wired where routing is off, and no step of it
\* exists; the model is asked right behind the settlements.
Wired  == config.mode # "off"
AskNow == {"model"} \cup IF Wired THEN {} ELSE {"route"}

ModelThrows      == Throws("model", {"classify", "final"} \cup AskNow)
CompactionThrows == Throws("compaction", {"summarize", "embed"})
ToolThrows       == pc = "tool" /\ due[1][4] = "auto" /\ Throws("tool", {"tool"})

-----------------------------------------------------------------------------
(* Before the loop: load, settle what the batch approves, route.           *)

\* Mutant: the transcript is read outside the journal, again on each replay.
LoadMutant ==
  /\ At("load")
  /\ pos' = pos + 1
  /\ journal' = IF IsFresh THEN Append(journal, [step |-> "load", out |-> ctx]) ELSE journal
  /\ msgs' = ctx \o BatchMessages(turn, input[turn])
  /\ pc' = IF Quoted(input[turn]) THEN "resolve" ELSE "digest"
  /\ UNCHANGED <<frame, ctx, world, digest, due, parked, rounds, tier, asked>>

Load ==
  /\ At("load")
  /\ Journaled("load", Output(ctx))
  /\ msgs' = Output(ctx) \o BatchMessages(turn, input[turn])
  /\ pc' = IF Quoted(input[turn]) THEN "resolve" ELSE "digest"
  /\ UNCHANGED <<frame, ctx, world, digest, due, parked, rounds, tier, asked>>

\* An approval transaction: the action settles, its effect (if any) and the
\* checkpoint commit together.  (Approval opens it up.)
Effect(call) == [call |-> call, in |-> turn]

\* A quoted reply binds no action; or it settles the one it binds, or is no clear
\* yes or no to it; or it is told that nothing could be settled (the create
\* failed, or the action had been settled before).
Gone == Subject(0, 0, 0, "confirm")

Settlements ==
  {<<>>, <<Gone, "told">>, <<Gone, "unclear">>}
    \cup {<<a, v>> : a \in pending, v \in {"executed", "denied", "unclear"}}

Silent(out) == out = <<>> \/ out[2] = "unclear"

Settle(out) ==
  IF IsFresh /\ ~Silent(out)
  THEN /\ pending' = IF out[2] \in {"refined", "told"} THEN pending ELSE pending \ {out[1]}
       /\ effects' = IF out[2] = "executed" THEN Append(effects, Effect(out[1])) ELSE effects
  ELSE UNCHANGED <<pending, effects>>

WithUpdate(out) == IF Silent(out) THEN msgs ELSE Append(msgs, Update(turn))

BoundBy(out) == IF out # <<>> /\ Silent(out) THEN {out[1]} ELSE {}

ResolveApproval ==
  /\ At("resolve")
  /\ \E out \in IF IsFresh THEN Settlements ELSE {Output(<<>>)} :
       /\ Journaled("resolve", out)
       /\ Settle(out)
       /\ msgs' = WithUpdate(out)
       /\ digest' = BoundBy(out)
  /\ pc' = "digest"
  /\ UNCHANGED <<frame, ctx, memory, heads, routes, due, parked, rounds, tier, asked>>

\* Whom a person's words classify against: the action an unclear quote binds,
\* or the only one that is pending.
Meant(bound, actions) ==
  IF bound # {} THEN actions \cap bound
  ELSE IF Cardinality(actions) = 1 THEN actions ELSE {}

Classifies(actions) ==
  /\ HasText(input[turn])
  /\ Last(msgs).about[4] # "update"
  /\ Meant(digest, actions) # {}

ReadDigest ==
  /\ At("digest") \/ At("redigest")
  /\ Journaled(pc, Output(pending))
  /\ IF pc = "digest" /\ Classifies(Output(pending))
     THEN pc' = "classify" /\ digest' = Meant(digest, Output(pending))
     ELSE pc' = "route" /\ digest' = Output(pending)
  /\ UNCHANGED <<frame, ctx, world, msgs, due, parked, rounds, tier, asked>>

\* What comes of a classified message: nothing, or the action settles or is
\* refined, or the failure to settle it is told.
Verdicts(a) ==
  {<<>>, <<a, "told">>}
    \cup {<<c, v>> : c \in {a} \cap pending, v \in {"executed", "denied", "refined"}}

\* Mutant: a refined action ends the turn and nothing is said of it.
ClassifyMutant ==
  /\ At("classify")
  /\ \E a \in digest : \E out \in IF IsFresh THEN Verdicts(a) ELSE {Output(<<>>)} :
       /\ Journaled("classify", out)
       /\ Settle(out)
       /\ IF out # <<>> /\ out[2] = "refined"
          THEN msgs' = msgs /\ pc' = "persist"
          ELSE msgs' = WithUpdate(out) /\ pc' = IF out = <<>> THEN "route" ELSE "redigest"
  /\ UNCHANGED <<frame, ctx, memory, heads, routes, digest, due, parked, rounds, tier, asked>>

\* The classifier's call and the transaction its verdict leads to.  A
\* refinement ends the turn with a new prompt and asks the model nothing.
Classify ==
  /\ At("classify")
  /\ \E a \in digest : \E out \in IF IsFresh THEN Verdicts(a) ELSE {Output(<<>>)} :
       /\ Journaled("classify", out)
       /\ Settle(out)
       /\ IF out # <<>> /\ out[2] = "refined"
          THEN msgs' = Append(msgs, Reprompt(turn)) /\ pc' = "persist"
          ELSE msgs' = WithUpdate(out) /\ pc' = IF out = <<>> THEN "route" ELSE "redigest"
  /\ UNCHANGED <<frame, ctx, memory, heads, routes, digest, due, parked, rounds, tier, asked>>

\* Mutant: the router runs in the workflow body, again on each replay.
RouteTurnMutant ==
  /\ At("route") /\ Wired
  /\ \E out \in Decisions(input[turn], digest) :
       /\ pos' = pos + 1
       /\ journal' = IF IsFresh THEN Append(journal, [step |-> "route", out |-> out]) ELSE journal
       /\ tier' = out
  /\ pc' = "logRoute"
  /\ UNCHANGED <<frame, ctx, world, digest, msgs, due, parked, rounds, asked>>

\* Mutant: a replay takes the tier from the log and leaves the step out.
RouteTurnSkipsMutant ==
  /\ At("route") /\ Wired
  /\ \E out \in Decisions(input[turn], digest) :
       IF routes[turn] # "none" THEN tier' = routes[turn] /\ UNCHANGED <<pos, journal>>
       ELSE Journaled("route", out) /\ tier' = out
  /\ pc' = "logRoute"
  /\ UNCHANGED <<frame, ctx, world, digest, msgs, due, parked, rounds, asked>>

RouteTurn ==
  /\ At("route") /\ Wired
  /\ \E out \in IF IsFresh THEN Decisions(input[turn], digest) ELSE {Output("standard")} :
       /\ Journaled("route", out)
       /\ tier' = out
  /\ pc' = "logRoute"
  /\ UNCHANGED <<frame, ctx, world, digest, msgs, due, parked, rounds, asked>>

LogRoute ==
  /\ At("logRoute")
  /\ Journaled("logRoute", TRUE)
  /\ routes' = IF IsFresh /\ routes[turn] = "none" THEN [routes EXCEPT ![turn] = tier] ELSE routes
  /\ pc' = "model"
  /\ UNCHANGED <<frame, ctx, pending, effects, memory, heads, digest, msgs, due, parked,
                 rounds, tier, asked>>

-----------------------------------------------------------------------------
(* The loop.                                                               *)

AskedModel == asked' = IF IsFresh THEN asked \cup {tier} ELSE asked

CallModel ==
  /\ live /\ pc \in AskNow
  /\ WellFormed(msgs)
  /\ \E out \in Responses :
       /\ Journaled("callModel", out)
       /\ msgs' = Append(msgs, Answer(turn, rounds + 1, CallsOf(turn, rounds + 1, out)))
       /\ due' = CallsOf(turn, rounds + 1, out)
       /\ pc' = IF out = <<>> THEN "persist" ELSE "tool"
  /\ rounds' = rounds + 1
  /\ AskedModel
  /\ UNCHANGED <<frame, ctx, world, digest, parked, tier>>

AfterTools(waiting) ==
  IF waiting # <<>> THEN "persist" ELSE IF rounds = MaxRounds THEN "final" ELSE "model"

Prompts(waiting) == [k \in DOMAIN waiting |-> Prompt(waiting[k])]

\* runTool: one transaction with the step's checkpoint.  An unknown tool or
\* bad arguments are answered with an error; a confirm-before call is parked.
\* Behind the last call of a response, parked calls end the turn with one
\* closing prompt each, and the cap on rounds forces a final answer.
RunTool ==
  /\ At("tool")
  /\ LET call == Output(Head(due))
         waiting == IF call[4] = "confirm" THEN Append(parked, call) ELSE parked
         s == Append(msgs, Result(call))
     IN /\ Journaled("runTool", call)
        /\ effects' = IF IsFresh /\ call[4] = "auto" THEN Append(effects, Effect(call)) ELSE effects
        /\ pending' = IF IsFresh /\ call[4] = "confirm" THEN pending \cup {call} ELSE pending
        /\ parked' = waiting
        /\ due' = Tail(due)
        /\ IF Tail(due) # <<>> THEN msgs' = s /\ pc' = "tool"
           ELSE msgs' = s \o Prompts(waiting) /\ pc' = AfterTools(waiting)
  /\ UNCHANGED <<frame, ctx, memory, heads, routes, digest, rounds, tier, asked>>

\* The forced final call: no tools are on offer.
FinalAnswer ==
  /\ At("final")
  /\ WellFormed(msgs)
  /\ Journaled("callModelForcedFinal", TRUE)
  /\ msgs' = Append(msgs, Answer(turn, rounds + 1, <<>>))
  /\ AskedModel
  /\ pc' = "persist"
  /\ UNCHANGED <<frame, ctx, world, digest, due, parked, rounds, tier>>

-----------------------------------------------------------------------------
(* Behind the loop: persist, then compact.                                 *)

\* findCompactionCut: the last boundary of a turn that leaves Keep messages.
Cuts(s) == {i \in 1 .. Len(s) - Keep : s[i + 1].role = "user"}

\* Mutant: the first boundary instead of the last.
CutOfMutant(s) == CHOOSE i \in Cuts(s) : \A j \in Cuts(s) : i <= j

CutOf(s) == CHOOSE i \in Cuts(s) : \A j \in Cuts(s) : j <= i

Compacts(s) == Len(s) > Threshold /\ Cuts(s) # {}

\* Only the refined re-prompt returns right behind its persist.
Persist ==
  /\ At("persist")
  /\ Journaled("persist", TRUE)
  /\ ctx' = IF IsFresh THEN msgs ELSE ctx
  /\ pc' = IF Last(msgs).about[4] # "reprompt" /\ Compacts(msgs) THEN "summarize" ELSE "end"
  /\ UNCHANGED <<frame, world, digest, msgs, due, parked, rounds, tier, asked>>

\* summarizeContext, then embedSummary: calls outside any transaction.
Summarize ==
  /\ At("summarize") \/ At("embed")
  /\ Journaled(pc, TRUE)
  /\ pc' = IF pc = "summarize" THEN "embed" ELSE "remember"
  /\ UNCHANGED <<frame, ctx, world, digest, msgs, due, parked, rounds, tier, asked>>

WriteMemory ==
  /\ At("remember")
  /\ Journaled("writeMemory", TRUE)
  /\ memory' = IF IsFresh THEN memory \cup {turn} ELSE memory
  /\ pc' = "log"
  /\ UNCHANGED <<frame, ctx, pending, effects, heads, routes, digest, msgs, due, parked,
                 rounds, tier, asked>>

WriteCompactionLog ==
  /\ At("log")
  /\ Journaled("writeCompactionLog", TRUE)
  /\ heads' = IF IsFresh /\ heads[turn] = <<>>
              THEN [heads EXCEPT ![turn] = SubSeq(msgs, 1, CutOf(msgs))] ELSE heads
  /\ pc' = "truncate"
  /\ UNCHANGED <<frame, ctx, pending, effects, memory, routes, digest, msgs, due, parked,
                 rounds, tier, asked>>

Truncate ==
  /\ At("truncate")
  /\ Journaled("persist", TRUE)
  /\ ctx' = IF IsFresh THEN <<Summary(turn)>> \o SubSeq(msgs, CutOf(msgs) + 1, Len(msgs)) ELSE ctx
  /\ pc' = "end"
  /\ UNCHANGED <<frame, world, digest, msgs, due, parked, rounds, tier, asked>>

Finish ==
  /\ At("end")
  /\ status' = "done"
  /\ live' = FALSE
  /\ ProgramStart
  /\ UNCHANGED <<turn, input, journal, ctx, world, config, asked, fails, crashes>>

\* The expiry sweep settles an action between turns and in the middle of one.
Expire ==
  /\ \E a \in pending : pending' = pending \ {a}
  /\ UNCHANGED <<turn, status, input, journal, ctx, effects, memory, heads, routes, config,
                 program, asked, fails, crashes>>

-----------------------------------------------------------------------------
Step ==
  \/ Load \/ ResolveApproval \/ ReadDigest \/ Classify \/ RouteTurn \/ LogRoute
  \/ CallModel \/ RunTool \/ FinalAnswer
  \/ Persist \/ Summarize \/ WriteMemory \/ WriteCompactionLog \/ Truncate \/ Finish

Next ==
  \/ \E b \in Batches : StartTurn(b)
  \/ Step
  \/ ModelThrows \/ ToolThrows \/ CompactionThrows
  \/ Crash \/ Relaunch
  \/ Expire

\* A started workflow goes on, and the host restarts a crashed process.
Spec == Init /\ [][Next]_vars /\ WF_vars(Step) /\ WF_vars(Relaunch)

-----------------------------------------------------------------------------
(* Properties.                                                             *)

\* What is persisted can always be shown to the model again: each tool call is
\* answered once, right behind its message, and no answer stands alone, also
\* behind a compaction's cut (toSdkMessages throws on an orphaned result, and
\* the provider on an unanswered call, in this turn and in every later one).
Showable ==
  /\ WellFormed(ctx)
  /\ \A t \in Turns : WellFormed(heads[t])
  /\ WellFormed(msgs \o [k \in DOMAIN due |-> Result(due[k])])

\* All that was ever in the transcript: what it holds, and the compacted heads.
Parts  == [t \in 0 .. NTurns |-> IF t = 0 THEN ctx ELSE heads[t]]
Record == UNION {ToSet(Parts[t]) : t \in 0 .. NTurns}

\* Where a summary stands for a head, the head is in the log and the summary
\* in the semantic memory, under the key of the same turn.
Recallable ==
  \A m \in Record :
    m.about[4] = "summary" => m.about[1] \in memory /\ heads[m.about[1]] # <<>>

\* Between turns the record holds each message once, and it tells everything:
\* what the members wrote, what was done in the world, what awaits approval.
\* (A turn that errors may have done what it never tells.)  A replay does nothing
\* twice, and at every moment the model accepts what it would be shown.
ToldOnce ==
  /\ Showable /\ Recallable
  /\ \A i, j \in DOMAIN effects : effects[i].call = effects[j].call => i = j
  /\ status = "done" =>
     /\ \A t, u \in 0 .. NTurns : \A i \in DOMAIN Parts[t], j \in DOMAIN Parts[u] :
          Parts[t][i] = Parts[u][j] => t = u /\ i = j
     /\ \A t \in 1 .. turn : ToSet(BatchMessages(t, input[t])) \subseteq Record
     /\ \A i \in DOMAIN effects :
          LET e == effects[i] IN
          IF e.call[4] = "auto" THEN Result(e.call) \in Record
          ELSE Update(e.in) \in Record
     /\ \A a \in pending : {Result(a), Prompt(a)} \subseteq Record

\* The last assistant message of the transcript is the finished turn's own:
\* sendReply and the approval prompts read nothing else (AnswersOwnTurn).
ReplyIsOwn ==
  status = "done" =>
    \E i \in DOMAIN ctx :
      /\ ctx[i].role = "assistant" /\ ctx[i].about[1] = turn
      /\ \A j \in i + 1 .. Len(ctx) : ctx[j].role # "assistant"

\* The tiers the processes have rolled out, and what the log says of the turn.
RolledOut == {"standard"} \cup UNION {c.enabled : c \in {d \in Configs : d.mode = "on"}}
Decided   == IF routes[turn] = "none" THEN "standard" ELSE routes[turn]

\* A turn runs on one tier from its first model call to its last, whatever
\* crashes come between and however the processes are configured; it is the one
\* in the log, the standard one if there is none, and one that some process has
\* rolled out; next to an approval it is standard.
OneTier ==
  asked # {} =>
    /\ asked = {Decided} /\ asked \subseteq RolledOut
    /\ Quoted(input[turn]) => asked = {"standard"}

MaxCalls   == CHOOSE n \in {Len(r) : r \in Responses} : \A r \in Responses : Len(r) <= n
LongestRun == MaxRounds * (1 + MaxCalls) + IF MaxCalls = 0 THEN 1 ELSE MaxCalls

\* Compaction keeps the transcript bounded, whatever the turns do.  (A turn
\* that ends with a refined prompt leaves it to the next one.)
TranscriptBounded ==
  status = "done" /\ Last(ctx).about[4] # "reprompt" =>
    Len(ctx) <= Threshold \/ Len(ctx) <= 1 + Keep + LongestRun

\* The replay stands where one process had the router's step in the journal, or
\* had gone on to the model, and the next is configured otherwise.
Astray == pc = "route" /\ ~IsFresh /\ (Wired <=> journal[pos + 1].step # "route")

\* A turn ends: the loop is bounded, and a replay never loses its way, unless
\* routing was switched off or on between the process that passed the router's
\* place and the one that replays it.
TurnEnds == status = "running" ~> status # "running" \/ Astray
=============================================================================
