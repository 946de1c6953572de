----------------------------- MODULE Household ------------------------------
(***************************************************************************)
(* The household's tools and the store behind them: facts, lists, recall,  *)
(* calendar reads (src/tools, src/memory/store.ts, embedder.ts).           *)
(*                                                                         *)
(* Each conversation runs its tool calls one after the other; two          *)
(* conversations run theirs at the same time.  A call is one transaction   *)
(* at READ COMMITTED that commits with its checkpoint: each statement sees *)
(* what is committed by then, a crash in the middle undoes the call and    *)
(* the relaunch makes it again.                                            *)
(***************************************************************************)
EXTENDS Naturals, FiniteSets, Sequences, SequencesExt

CONSTANTS
  Lanes,       \* conversations
  Within,      \* pairs of words: the first is part of the second, as text
  Plans,       \* the calls each lane is going to make
  SearchCandidates, SearchResults, CatalogKeys, ListedFacts,   \* caps
  Timeout,     \* of a request
  Slack,       \* tokenSlackMs: a cached token is left alone this long before its end
  Lifetime,    \* expires_in
  MaxClock,    \* bound on the clock
  MaxCrashes   \* bound on crashes

VARIABLES
  facts,      \* household_facts: key -> value, transaction time
  items,      \* lists: what is on the list, done or not
  lane,       \* per lane: the call at hand and how far it is
  cached,     \* the calendar client's token
  now,        \* the clock, of which only the calendar takes notice
  stamp,      \* counts transactions' beginnings and ends
  born,       \* history: when the call that created a fact began and ended
  distinct,   \* history: facts recorded as distinct from the ones they resemble
  refused,    \* history: calendar requests Google refused for their token
  crashes

vars == <<facts, items, lane, cached, now, stamp, born, distinct, refused, crashes>>

\* Keys and values as texts: their words, and whether they are spelled the
\* canonical way.
Text(words, canonical) == [words |-> words, canonical |-> canonical]

NoCall  == [tool |-> "none"]
NoToken == [issued |-> 0, expires |-> 0]
Nothing == [found |-> {}, keys |-> {}, total |-> 0]

IsText(x) == x = Text(x.words, x.canonical)

ASSUME PlansAreRequests ==
  \A p \in Plans, l \in Lanes :
    /\ p[l] \in Seq(ToSet(p[l]))
    /\ \A c \in ToSet(p[l]) : c.tool \in {"set_fact", "get_fact"} => IsText(c.key)

ASSUME HouseholdConstants ==
  /\ SearchCandidates \in Nat \ {0} /\ SearchResults \in Nat \ {0}
  /\ CatalogKeys \in Nat \ {0} /\ ListedFacts \in Nat \ {0}
  /\ Timeout \in Nat /\ Slack \in Nat /\ Lifetime \in Nat
  /\ 2 * Timeout <= Slack /\ 2 * Timeout < Lifetime
  /\ MaxClock \in Nat /\ MaxCrashes \in Nat

-----------------------------------------------------------------------------
(* Keys, and finding them.                                                 *)

\* normalizeFactKey: one spelling per key.  Of symbols alone no word is left,
\* and the key is what was written.
NormalizeFactKey(raw) == IF raw.words = <<>> THEN raw ELSE [raw EXCEPT !.canonical = TRUE]

FactTerms(raw) == ToSet(NormalizeFactKey(raw).words)

\* key ILIKE '%term%'
Mentions(words, term) == \E w \in ToSet(words) : w = term \/ <<term, w>> \in Within

\* ORDER BY updated_at DESC LIMIT n, where now() is the transaction's start.
Newest(n, keys) == {k \in keys : Cardinality({j \in keys : facts[j].at > facts[k].at}) < n}

SearchFacts(terms, keysOnly) ==
  Newest(SearchCandidates,
         {k \in DOMAIN facts : \E t \in terms :
            Mentions(k.words, t) \/ (~keysOnly /\ Mentions(facts[k].value, t))})

Resembles(j, k) == FactTerms(j) \subseteq FactTerms(k) \/ FactTerms(k) \subseteq FactTerms(j)

\* Mutant: only keys that say more than the new one are taken for similar.
SimilarFactKeysMutant(key) ==
  {k \in SearchFacts(FactTerms(key), TRUE) : FactTerms(key) \subseteq FactTerms(k)}

SimilarFactKeys(key) == {k \in SearchFacts(FactTerms(key), TRUE) : Resembles(k, key)}

\* rankByTerms: a hit in the key counts twice a hit in the value; then by age.
Score(k, terms) ==
  2 * Cardinality({t \in terms : Mentions(k.words, t)})
    + Cardinality({t \in terms : Mentions(facts[k].value, t)})

Before(j, k, terms) ==
  \/ Score(j, terms) > Score(k, terms)
  \/ Score(j, terms) = Score(k, terms) /\ facts[j].at > facts[k].at

ClosestMatches(terms) ==
  LET candidates == SearchFacts(terms, FALSE)
  IN {k \in candidates : Cardinality({j \in candidates : Before(j, k, terms)}) < SearchResults}

-----------------------------------------------------------------------------
(* A lane and its calls.                                                   *)

Init ==
  \E p \in Plans :
    /\ facts = <<>> /\ items = <<>>
    /\ lane = [l \in Lanes |-> [plan |-> p[l], call |-> NoCall, step |-> "done", since |-> 0,
                                known |-> {}, answer |-> Nothing, token |-> NoToken]]
    /\ cached = NoToken /\ now = 0 /\ stamp = 0
    /\ born = <<>> /\ distinct = {} /\ refused = {} /\ crashes = 0

FirstStep(tool) ==
  CASE tool = "set_fact"             -> "exact"
    [] tool = "get_fact"             -> "catalog"
    [] tool = "recall_history"       -> "embed"
    [] tool = "list_calendar_events" -> "token"
    [] OTHER                         -> "run"

\* The transaction begins.  (A lane with nothing left to do stays as it is.)
Start(l, call, rest) ==
  /\ stamp' = stamp + 1
  /\ lane' = [lane EXCEPT ![l] = [plan |-> rest, call |-> call, step |-> FirstStep(call.tool),
                                  since |-> IF call.tool = "list_calendar_events" THEN now ELSE stamp',
                                  known |-> DOMAIN facts, answer |-> Nothing, token |-> NoToken]]
  /\ UNCHANGED <<facts, items, cached, now, born, distinct, refused, crashes>>

Begin(l) ==
  /\ lane[l].step \in {"done", "error"}
  /\ lane[l].plan # <<>>
  /\ Start(l, Head(lane[l].plan), Tail(lane[l].plan))

\* The journal has no output for the call: the replay makes it again.
Again(l) == lane[l].step = "undone" /\ Start(l, lane[l].call, lane[l].plan)

At(l, tool, step) == lane[l].call.tool = tool /\ lane[l].step = step

Goes(l, step) == lane' = [lane EXCEPT ![l].step = step]

\* The call commits with its answer.
Answers(l, answer) ==
  /\ lane' = [lane EXCEPT ![l].step = "done", ![l].answer = answer]
  /\ stamp' = stamp + 1

quiet == <<cached, now, refused, crashes>>

-----------------------------------------------------------------------------
(* Facts.                                                                  *)

\* set_fact looks for the exact key, unless it is told not to mind.
LookUp(l) ==
  /\ At(l, "set_fact", "exact")
  /\ LET key == NormalizeFactKey(lane[l].call.key) IN
     Goes(l, IF lane[l].call.distinct \/ key \in DOMAIN facts THEN "write" ELSE "similar")
  /\ UNCHANGED <<facts, items, stamp, born, distinct, quiet>>

\* A similar key is a refusal, and the call names it.
FindSimilar(l) ==
  /\ At(l, "set_fact", "similar")
  /\ LET similar == SimilarFactKeys(NormalizeFactKey(lane[l].call.key)) IN
     IF similar = {} THEN Goes(l, "write") /\ UNCHANGED stamp
     ELSE Answers(l, [Nothing EXCEPT !.keys = similar])
  /\ UNCHANGED <<facts, items, born, distinct, quiet>>

UpsertFact(l) ==
  /\ At(l, "set_fact", "write")
  /\ LET key == NormalizeFactKey(lane[l].call.key)
         row == [value |-> lane[l].call.value, at |-> lane[l].since]
     IN /\ facts' = [k \in DOMAIN facts \cup {key} |-> IF k = key THEN row ELSE facts[k]]
        /\ born' = IF key \in DOMAIN born THEN born
                   ELSE [k \in DOMAIN born \cup {key} |->
                           IF k = key THEN [from |-> lane[l].since, to |-> stamp] ELSE born[k]]
        /\ distinct' = IF key \notin DOMAIN facts /\ lane[l].call.distinct
                       THEN distinct \cup {key} ELSE distinct
        /\ Answers(l, [Nothing EXCEPT !.found = {key}])
  /\ UNCHANGED <<items, quiet>>

\* Mutant: the total is counted behind the cap.
ListFactKeysMutant(cap) ==
  LET keys == Newest(cap, DOMAIN facts) IN [found |-> {}, keys |-> keys, total |-> Cardinality(keys)]

\* listFactKeys and listFacts: the newest, and how many there are.
ListFactKeys(cap) ==
  [found |-> {}, keys |-> Newest(cap, DOMAIN facts), total |-> Cardinality(DOMAIN facts)]

ReadCatalog(l) ==
  /\ At(l, "get_fact", "catalog")
  /\ LET catalog == ListFactKeys(CatalogKeys) IN
     IF catalog.total = 0 THEN Answers(l, Nothing)
     ELSE /\ lane' = [lane EXCEPT ![l].step = "exact", ![l].answer = catalog]
          /\ UNCHANGED stamp
  /\ UNCHANGED <<facts, items, born, distinct, quiet>>

GetFact(l) ==
  /\ At(l, "get_fact", "exact")
  /\ LET key == NormalizeFactKey(lane[l].call.key) IN
     IF key \in DOMAIN facts THEN Answers(l, [lane[l].answer EXCEPT !.found = {key}])
     ELSE Goes(l, "similar") /\ UNCHANGED stamp
  /\ UNCHANGED <<facts, items, born, distinct, quiet>>

MatchFacts(l) ==
  /\ At(l, "get_fact", "similar")
  /\ Answers(l, [lane[l].answer EXCEPT !.found = ClosestMatches(FactTerms(lane[l].call.key))])
  /\ UNCHANGED <<facts, items, born, distinct, quiet>>

ListFacts(l) ==
  /\ At(l, "list_facts", "run")
  /\ LET all == ListFactKeys(ListedFacts) IN Answers(l, [all EXCEPT !.found = all.keys])
  /\ UNCHANGED <<facts, items, born, distinct, quiet>>

-----------------------------------------------------------------------------
(* Lists: one shared list is as good as many.                              *)

AddListItem(l) ==
  /\ At(l, "add_list_item", "run")
  /\ items' = Append(items, "open")
  /\ Answers(l, [Nothing EXCEPT !.found = {Len(items')}])
  /\ UNCHANGED <<facts, born, distinct, quiet>>

Open == {i \in DOMAIN items : items[i] = "open"}

GetList(l) ==
  /\ At(l, "get_list", "run")
  /\ Answers(l, [found |-> Open, keys |-> {}, total |-> Cardinality(Open)])
  /\ UNCHANGED <<facts, items, born, distinct, quiet>>

\* An item that is done is marked again and its time is overwritten; one that
\* is not there is answered "not found".
MarkItemDone(l) ==
  /\ At(l, "mark_item_done", "run")
  /\ LET id == lane[l].call.key IN
     IF id \in DOMAIN items
     THEN items' = [items EXCEPT ![id] = "done"] /\ Answers(l, [Nothing EXCEPT !.found = {id}])
     ELSE UNCHANGED items /\ Answers(l, Nothing)
  /\ UNCHANGED <<facts, born, distinct, quiet>>

-----------------------------------------------------------------------------
(* Recall: the query is embedded by a call inside the transaction, and a   *)
(* failure of it is the call's own.                                        *)

Embed(l) ==
  /\ At(l, "recall_history", "embed")
  /\ Goes(l, "run") \/ Goes(l, "error")
  /\ UNCHANGED <<facts, items, stamp, born, distinct, quiet>>

\* What the nearest memories say is left out (Turn says which there are).
RecallHistory(l) ==
  /\ At(l, "recall_history", "run")
  /\ Answers(l, Nothing)
  /\ UNCHANGED <<facts, items, born, distinct, quiet>>

-----------------------------------------------------------------------------
(* The calendar: a token, then a request that shows it.                    *)

tables == <<facts, items, born, distinct, crashes>>

\* Mutant: a cached token is used to its end.
FreshMutant(token) == now < token.expires

\* accessToken: what is cached is good until Slack before its end.
Fresh(token) == now + Slack < token.expires

Sends(l, token) ==
  lane' = [lane EXCEPT ![l].step = "request", ![l].token = token, ![l].since = now]

UseToken(l) ==
  /\ At(l, "list_calendar_events", "token")
  /\ IF Fresh(cached) THEN Sends(l, cached)
     ELSE lane' = [lane EXCEPT ![l].step = "fetch", ![l].since = now]
  /\ UNCHANGED <<tables, cached, now, stamp, refused>>

\* Google issues a token; it takes the answer a while to come.
TokenIssued(l) ==
  /\ At(l, "list_calendar_events", "fetch")
  /\ lane' = [lane EXCEPT ![l].step = "issued",
                          ![l].token = [issued |-> now, expires |-> now + Lifetime]]
  /\ UNCHANGED <<tables, cached, now, stamp, refused>>

\* The client counts the token's life from when it has it.
TokenReceived(l) ==
  /\ At(l, "list_calendar_events", "issued")
  /\ cached' = [lane[l].token EXCEPT !.expires = now + Lifetime]
  /\ Sends(l, cached')
  /\ UNCHANGED <<tables, now, stamp, refused>>

Valid(token) == now < token.issued + Lifetime

\* listEvents: Google lists the events, or refuses the token.
ListEvents(l) ==
  /\ At(l, "list_calendar_events", "request")
  /\ refused' = IF Valid(lane[l].token) THEN refused ELSE refused \cup {l}
  /\ Answers(l, [Nothing EXCEPT !.found = IF Valid(lane[l].token) THEN {"events"} ELSE {"failed"}])
  /\ UNCHANGED <<tables, cached, now>>

\* A request fails, or its time is up: the tool says so, and the turn goes on.
CalendarFails(l) ==
  /\ \E step \in {"fetch", "issued", "request"} : At(l, "list_calendar_events", step)
  /\ Answers(l, [Nothing EXCEPT !.found = {"failed"}])
  /\ UNCHANGED <<tables, cached, now, refused>>

\* No request outlives its timeout.  Nothing but the calendar takes time.
Calls(l, tool) == lane[l].call.tool = tool \/ \E c \in ToSet(lane[l].plan) : c.tool = tool

Tick ==
  /\ now < MaxClock
  /\ \E l \in Lanes : Calls(l, "list_calendar_events")
  /\ \A l \in Lanes :
       lane[l].step \in {"fetch", "issued", "request"} => now < lane[l].since + Timeout
  /\ now' = now + 1
  /\ UNCHANGED <<tables, lane, cached, stamp, refused>>

\* What is open is undone; the token is forgotten.
Crash ==
  /\ crashes < MaxCrashes
  /\ crashes' = crashes + 1
  /\ lane' = [l \in Lanes |-> IF lane[l].step \in {"done", "error"} THEN lane[l]
                              ELSE [lane[l] EXCEPT !.step = "undone"]]
  /\ cached' = NoToken
  /\ UNCHANGED <<facts, items, now, stamp, born, distinct, refused>>

-----------------------------------------------------------------------------
Runs(l) ==
  \/ Again(l)
  \/ LookUp(l) \/ FindSimilar(l) \/ UpsertFact(l)
  \/ ReadCatalog(l) \/ GetFact(l) \/ MatchFacts(l) \/ ListFacts(l)
  \/ AddListItem(l) \/ GetList(l) \/ MarkItemDone(l)
  \/ Embed(l) \/ RecallHistory(l)
  \/ UseToken(l) \/ TokenIssued(l) \/ TokenReceived(l) \/ ListEvents(l) \/ CalendarFails(l)

Next ==
  \/ \E l \in Lanes : Begin(l) \/ Runs(l)
  \/ Tick
  \/ Crash

Spec == Init /\ [][Next]_vars

-----------------------------------------------------------------------------
(* Properties.                                                             *)

\* There is no delete tool, so a near-duplicate lives for ever and splits later
\* reads: of two keys one of which says what the other says and more, one was
\* recorded as distinct.  Two calls at the same time can miss one another, and
\* so can one that finds more candidates than it looks at.
KeysStayApart ==
  \A j, k \in DOMAIN facts :
    j # k /\ Resembles(j, k) /\ FactTerms(j) # {} /\ FactTerms(k) # {}
          /\ Cardinality(DOMAIN facts) <= SearchCandidates
    => \/ {j, k} \cap distinct # {}
       \/ born[j].from <= born[k].to /\ born[k].from <= born[j].to

\* A capped list is never presented as everything: an answer shows each key
\* that was stored when the call began, or says how many more there are.  And a
\* fact that was stored under the key that is asked for is found.
AnswersComplete ==
  \A l \in Lanes : LET a == lane[l].answer IN
    /\ lane[l].call.tool \in {"get_fact", "list_facts"} /\ lane[l].step = "done" =>
         /\ lane[l].known \subseteq a.keys \/ Cardinality(a.keys) < a.total
         /\ Cardinality(lane[l].known) <= a.total
    /\ At(l, "get_fact", "done") /\ NormalizeFactKey(lane[l].call.key) \in lane[l].known =>
         NormalizeFactKey(lane[l].call.key) \in a.found

\* No request reaches Google with a token that has run out: the client does
\* not forget a token it is refused, so it would be refused until its end.
TokensAccepted == refused = {}
=============================================================================
