--------------------------- MODULE HouseholdProofs --------------------------
(***************************************************************************)
(* Proofs about the calendar client's token and the facts (Household), and *)
(* about the wall clock (WallTime).                                        *)
(*                                                                         *)
(* A call sees what is committed by each of its statements, so what it has *)
(* found is stale when it writes.  FactsInv says by how much: a key that a *)
(* write missed was recorded while its own call was under way (Writes),    *)
(* and a list that a read carries to its answer still shows all of what    *)
(* was there when the call began, or counts more than it shows (Reads).    *)
(***************************************************************************)
EXTENDS Household, WallTime, TLAPS, FiniteSetTheorems

(* The wall clock.                                                         *)

\* For every wall time of the year, whatever the two instants and the zone.
THEOREM WallTimesExact == \A wall \in Int : Exact(wall)
<1> SUFFICES ASSUME NEW wall \in Int PROVE Exact(wall)
  OBVIOUS
<1> USE WallTimeConstants DEF OffsetAt
<1>1. WallTimeToInstant(wall) \in Int
  BY DEF WallTimeToInstant
<1>2. ~InGap(wall) => Label(WallTimeToInstant(wall)) = wall
  BY DEF WallTimeToInstant, Label, InGap
<1>3. InGap(wall) => /\ Label(WallTimeToInstant(wall)) = wall - Hour
                     /\ WallTimeToInstant(wall) < Spring
  BY DEF WallTimeToInstant, Label, InGap
<1>4. Twice(wall) => WallTimeToInstant(wall) < Fall
  BY DEF WallTimeToInstant, Twice
<1> QED
  BY <1>2, <1>3, <1>4 DEF Exact

-----------------------------------------------------------------------------
(* The token.                                                              *)

Waiting == {"fetch", "issued", "request"}

IsLane(r) == r = [plan |-> r.plan, call |-> r.call, step |-> r.step, since |-> r.since,
                  known |-> r.known, answer |-> r.answer, token |-> r.token]
LaneType  == lane = [l \in Lanes |-> lane[l]] /\ \A l \in Lanes : IsLane(lane[l])

\* The client counts from when it has the token, so it may take it for good a
\* Timeout too long.
CachedIsKnown ==
  /\ now \in Nat /\ cached.issued \in Nat /\ cached.expires \in Nat
  /\ cached.expires <= cached.issued + Lifetime + Timeout

\* Nobody waits for longer than the timeout, and what a request shows is good
\* for longer than that.
Sound(r) ==
  /\ r.step \in Waiting => r.since \in Nat /\ r.since <= now /\ now <= r.since + Timeout
  /\ r.step = "issued" => /\ r.token = [issued |-> r.token.issued, expires |-> r.token.expires]
                          /\ r.token.issued \in Nat /\ r.since <= r.token.issued
  /\ r.step = "request" => /\ r.token.issued \in Nat
                           /\ r.since + Timeout < r.token.issued + Lifetime

CalendarInv ==
  LaneType /\ CachedIsKnown /\ (\A l \in Lanes : Sound(lane[l])) /\ TokensAccepted

LEMMA SetStep ==
  ASSUME NEW r, IsLane(r), NEW x
  PROVE  LET q == [r EXCEPT !.step = x]
         IN  IsLane(q) /\ q.step = x /\ q.since = r.since
  BY DEF IsLane

LEMMA SetAnswer ==
  ASSUME NEW r, IsLane(r), NEW x
  PROVE  LET q == [r EXCEPT !.answer = x]
         IN  IsLane(q) /\ q.step = r.step
  BY DEF IsLane

LEMMA SetToken ==
  ASSUME NEW r, IsLane(r), NEW x
  PROVE  LET q == [r EXCEPT !.token = x]
         IN  IsLane(q) /\ q.step = r.step /\ q.token = x /\ q.since = r.since
  BY DEF IsLane

LEMMA SetSince ==
  ASSUME NEW r, IsLane(r), NEW x
  PROVE  LET q == [r EXCEPT !.since = x]
         IN  IsLane(q) /\ q.step = r.step /\ q.token = r.token /\ q.since = x
  BY DEF IsLane

LEMMA SetStepAnswer ==
  ASSUME NEW r, IsLane(r), NEW x, NEW y
  PROVE  LET q == [r EXCEPT !.step = x, !.answer = y]
         IN  IsLane(q) /\ q.step = x
<1> DEFINE s == [r EXCEPT !.step = x]
           q == [s EXCEPT !.answer = y]
<1>1. IsLane(s) /\ s.step = x
  BY SetStep
<1>2. [r EXCEPT !.step = x, !.answer = y] = q
  OBVIOUS
<1> HIDE DEF s
<1>3. IsLane(q) /\ q.step = x
  BY <1>1, SetAnswer
<1> HIDE DEF q
<1> QED
  BY <1>2, <1>3

LEMMA CalendarStarts == Init => CalendarInv
<1> SUFFICES ASSUME Init PROVE CalendarInv
  OBVIOUS
<1>1. PICK p \in Plans :
        lane = [l \in Lanes |-> [plan |-> p[l], call |-> NoCall, step |-> "done", since |-> 0,
                                 known |-> {}, answer |-> Nothing, token |-> NoToken]]
  BY DEF Init
<1>2. LaneType
  BY <1>1 DEF LaneType, IsLane
<1>3. CachedIsKnown /\ TokensAccepted
  BY HouseholdConstants DEF Init, NoToken, CachedIsKnown, TokensAccepted
<1>4. \A l \in Lanes : Sound(lane[l])
  BY <1>1 DEF Sound, Waiting
<1> QED
  BY <1>2, <1>3, <1>4 DEF CalendarInv

\* A lane that goes on and waits for nothing disturbs nothing.
LEMMA LaneGoesOn ==
  ASSUME CalendarInv, NEW l \in Lanes, NEW r, lane' = [lane EXCEPT ![l] = r],
         IsLane(r), r.step \notin Waiting, UNCHANGED <<cached, now, refused>>
  PROVE  CalendarInv'
<1> USE DEF CalendarInv
<1>1. /\ lane' = [m \in Lanes |-> lane'[m]] /\ lane'[l] = r
      /\ \A m \in Lanes : m # l => lane'[m] = lane[m]
  BY DEF LaneType
<1>2. LaneType'
  BY <1>1 DEF LaneType, IsLane
<1>3. CachedIsKnown' /\ TokensAccepted'
  BY DEF CachedIsKnown, TokensAccepted
<1>4. \A m \in Lanes : Sound(lane[m])'
  <2>1. ASSUME NEW m \in Lanes PROVE Sound(lane[m])'
    <3>1. CASE m = l
      BY <1>1, <3>1 DEF Sound, Waiting
    <3>2. CASE m # l
      BY <1>1, <3>2 DEF Sound
    <3> QED
      BY <3>1, <3>2
  <2> QED
    BY <2>1
<1> QED
  BY <1>2, <1>3, <1>4

LEMMA GoesOn ==
  ASSUME CalendarInv, NEW l \in Lanes, NEW step, step \notin Waiting, Goes(l, step),
         UNCHANGED <<cached, now, refused>>
  PROVE  CalendarInv'
<1> DEFINE r == [lane[l] EXCEPT !.step = step]
<1>1. lane' = [lane EXCEPT ![l] = r]
  BY DEF Goes
<1>2. IsLane(r) /\ r.step = step
  BY DEF CalendarInv, LaneType, IsLane
<1> HIDE DEF r
<1> QED
  BY <1>1, <1>2, LaneGoesOn

LEMMA AnswersOn ==
  ASSUME CalendarInv, NEW l \in Lanes, NEW answer, Answers(l, answer),
         UNCHANGED <<cached, now, refused>>
  PROVE  CalendarInv'
<1> DEFINE r == [lane[l] EXCEPT !.step = "done", !.answer = answer]
<1>1. lane' = [lane EXCEPT ![l] = r]
  BY DEF Answers
<1>2. IsLane(r) /\ r.step = "done"
  <2>1. IsLane(lane[l]) /\ r = [lane[l] EXCEPT !.step = "done", !.answer = answer]
    BY DEF CalendarInv, LaneType
  <2> HIDE DEF r
  <2> QED
    BY <2>1, SetStepAnswer
<1> HIDE DEF r
<1> QED
  BY <1>1, <1>2, LaneGoesOn DEF Waiting

LEMMA StartsOn ==
  ASSUME CalendarInv, NEW l \in Lanes, NEW call, NEW rest, Start(l, call, rest)
  PROVE  CalendarInv'
<1> DEFINE r == [plan |-> rest, call |-> call, step |-> FirstStep(call.tool),
                 since |-> IF call.tool = "list_calendar_events" THEN now ELSE stamp',
                 known |-> DOMAIN facts, answer |-> Nothing, token |-> NoToken]
<1>1. lane' = [lane EXCEPT ![l] = r] /\ UNCHANGED <<cached, now, refused>>
  BY DEF Start
<1>2. IsLane(r) /\ r.step = FirstStep(call.tool)
  BY DEF IsLane
<1>3. FirstStep(call.tool) \notin Waiting
  BY DEF FirstStep, Waiting
<1> HIDE DEF r
<1> QED
  BY <1>1, <1>2, <1>3, LaneGoesOn

\* What the tools of the store do.
LEMMA StoreTools ==
  ASSUME CalendarInv, NEW l \in Lanes,
         \/ LookUp(l) \/ FindSimilar(l) \/ UpsertFact(l)
         \/ ReadCatalog(l) \/ GetFact(l) \/ MatchFacts(l) \/ ListFacts(l)
         \/ AddListItem(l) \/ GetList(l) \/ MarkItemDone(l)
         \/ Embed(l) \/ RecallHistory(l)
  PROVE  CalendarInv'
<1> USE DEF quiet, Waiting
<1>1. CASE LookUp(l)
  BY <1>1, GoesOn DEF LookUp
<1>2. CASE FindSimilar(l)
  BY <1>2, GoesOn, AnswersOn DEF FindSimilar
<1>3. CASE UpsertFact(l)
  BY <1>3, AnswersOn DEF UpsertFact
<1>4. CASE ReadCatalog(l)
  <2> DEFINE catalog == ListFactKeys(CatalogKeys)
             r == [lane[l] EXCEPT !.step = "exact", !.answer = catalog]
  <2>1. UNCHANGED <<cached, now, refused>>
    BY <1>4 DEF ReadCatalog
  <2>2. Answers(l, Nothing) \/ lane' = [lane EXCEPT ![l] = r]
    BY <1>4 DEF ReadCatalog
  <2> HIDE DEF catalog
  <2>3. IsLane(r) /\ r.step = "exact"
    <3>1. IsLane(lane[l]) /\ r = [lane[l] EXCEPT !.step = "exact", !.answer = catalog]
      BY DEF CalendarInv, LaneType
    <3> HIDE DEF r
    <3> QED
      BY <3>1, SetStepAnswer
  <2> HIDE DEF r
  <2> QED
    BY <2>1, <2>2, <2>3, AnswersOn, LaneGoesOn
<1>5. CASE GetFact(l)
  BY <1>5, GoesOn, AnswersOn DEF GetFact
<1>6. CASE MatchFacts(l) \/ ListFacts(l)
  BY <1>6, AnswersOn DEF MatchFacts, ListFacts
<1>7. CASE AddListItem(l) \/ GetList(l) \/ MarkItemDone(l)
  BY <1>7, AnswersOn DEF AddListItem, GetList, MarkItemDone
<1>8. CASE Embed(l) \/ RecallHistory(l)
  BY <1>8, GoesOn, AnswersOn DEF Embed, RecallHistory
<1> QED
  BY <1>1, <1>2, <1>3, <1>4, <1>5, <1>6, <1>7, <1>8

\* A lane that waits, with what it has then.
LEMMA LaneWaits ==
  ASSUME CalendarInv, NEW l \in Lanes, NEW r, lane' = [lane EXCEPT ![l] = r],
         IsLane(r), Sound(r), CachedIsKnown', UNCHANGED <<now, refused>>
  PROVE  CalendarInv'
<1> USE DEF CalendarInv
<1>1. /\ lane' = [m \in Lanes |-> lane'[m]] /\ lane'[l] = r
      /\ \A m \in Lanes : m # l => lane'[m] = lane[m]
  BY DEF LaneType
<1>2. LaneType'
  BY <1>1 DEF LaneType, IsLane
<1>3. TokensAccepted'
  BY DEF TokensAccepted
<1>4. ASSUME NEW m \in Lanes PROVE Sound(lane[m])'
  <2>1. CASE m = l
    BY <1>1, <2>1 DEF Sound
  <2>2. CASE m # l
    BY <1>1, <2>2 DEF Sound
  <2> QED
    BY <2>1, <2>2
<1> QED
  BY <1>2, <1>3, <1>4

LEMMA CalendarTool ==
  ASSUME CalendarInv, NEW l \in Lanes,
         \/ UseToken(l) \/ TokenIssued(l) \/ TokenReceived(l) \/ ListEvents(l) \/ CalendarFails(l)
  PROVE  CalendarInv'
<1> USE HouseholdConstants DEF CalendarInv
<1>1. now \in Nat /\ Timeout \in Nat /\ Lifetime \in Nat /\ Slack \in Nat
  BY DEF CachedIsKnown
<1>2. CASE UseToken(l)
  <2> DEFINE sent == [lane[l] EXCEPT !.step = "request", !.token = cached, !.since = now]
             sits == [lane[l] EXCEPT !.step = "fetch", !.since = now]
  <2>1. UNCHANGED <<cached, now, refused>>
    BY <1>2 DEF UseToken
  <2>2. \/ Fresh(cached) /\ lane' = [lane EXCEPT ![l] = sent]
        \/ lane' = [lane EXCEPT ![l] = sits]
    BY <1>2 DEF UseToken, Sends
  <2>3. /\ IsLane(sent) /\ sent.step = "request" /\ sent.token = cached /\ sent.since = now
        /\ IsLane(sits) /\ sits.step = "fetch" /\ sits.since = now
    <3> DEFINE goes == [lane[l] EXCEPT !.step = "fetch"]
               asks == [lane[l] EXCEPT !.step = "request"]
               shows == [asks EXCEPT !.token = cached]
    <3>1. IsLane(goes) /\ goes.step = "fetch" /\ IsLane(asks) /\ asks.step = "request"
      BY SetStep DEF LaneType
    <3>2. sits = [goes EXCEPT !.since = now] /\ sent = [shows EXCEPT !.since = now]
      OBVIOUS
    <3> HIDE DEF goes, asks
    <3>3. IsLane(shows) /\ shows.step = "request" /\ shows.token = cached
      BY <3>1, SetToken
    <3> HIDE DEF shows, sits, sent
    <3>4. IsLane(sits) /\ sits.step = "fetch" /\ sits.since = now
      BY <3>1, <3>2, SetSince
    <3>5. IsLane(sent) /\ sent.step = "request" /\ sent.token = cached /\ sent.since = now
      BY <3>2, <3>3, SetSince
    <3> QED
      BY <3>4, <3>5
  <2>4. CachedIsKnown'
    BY <2>1 DEF CachedIsKnown
  <2> HIDE DEF sent, sits
  <2>5. Fresh(cached) => Sound(sent)
    BY <1>1, <2>3 DEF Fresh, Sound, CachedIsKnown
  <2>6. Sound(sits)
    BY <1>1, <2>3 DEF Sound
  <2> QED
    BY <2>1, <2>2, <2>3, <2>4, <2>5, <2>6, LaneWaits
<1>3. CASE TokenIssued(l)
  <2> DEFINE token == [issued |-> now, expires |-> now + Lifetime]
             r == [lane[l] EXCEPT !.step = "issued", !.token = token]
  <2>1. lane[l].step = "fetch" /\ lane' = [lane EXCEPT ![l] = r] /\ UNCHANGED <<cached, now, refused>>
    BY <1>3 DEF TokenIssued, At
  <2>2. token = [issued |-> token.issued, expires |-> token.expires] /\ token.issued = now
    OBVIOUS
  <2> HIDE DEF token
  <2>3. IsLane(r) /\ r.step = "issued" /\ r.token = token /\ r.since = lane[l].since
    <3> DEFINE s == [lane[l] EXCEPT !.step = "issued"]
    <3>1. IsLane(s) /\ s.step = "issued" /\ s.since = lane[l].since
      BY SetStep DEF LaneType
    <3>2. r = [s EXCEPT !.token = token]
      OBVIOUS
    <3> HIDE DEF s, r
    <3> QED
      BY <3>1, <3>2, SetToken
  <2> HIDE DEF r
  <2>4. Sound(r)
    BY <1>1, <2>1, <2>2, <2>3 DEF Sound, Waiting
  <2> QED
    BY <2>1, <2>3, <2>4, LaneWaits DEF CachedIsKnown
<1>4. CASE TokenReceived(l)
  <2> DEFINE t == lane[l].token
             r == [lane[l] EXCEPT !.step = "request", !.token = cached', !.since = now]
  <2>1. /\ lane[l].step = "issued" /\ lane' = [lane EXCEPT ![l] = r] /\ UNCHANGED <<now, refused>>
        /\ cached' = [t EXCEPT !.expires = now + Lifetime]
    BY <1>4 DEF TokenReceived, Sends, At
  <2>2. /\ lane[l].since \in Nat /\ now <= lane[l].since + Timeout
        /\ t = [issued |-> t.issued, expires |-> t.expires]
        /\ t.issued \in Nat /\ lane[l].since <= t.issued
    BY <2>1 DEF Sound, Waiting
  <2> HIDE DEF t
  <2>3. cached'.issued = t.issued /\ cached'.expires = now + Lifetime
    BY <2>1, <2>2
  <2>4. IsLane(r) /\ r.step = "request" /\ r.token = cached' /\ r.since = now
    <3> DEFINE asks == [lane[l] EXCEPT !.step = "request"]
               shows == [asks EXCEPT !.token = cached']
    <3>1. IsLane(asks) /\ asks.step = "request"
      BY SetStep DEF LaneType
    <3>2. r = [shows EXCEPT !.since = now]
      OBVIOUS
    <3> HIDE DEF asks
    <3>3. IsLane(shows) /\ shows.step = "request" /\ shows.token = cached'
      BY <3>1, SetToken
    <3> HIDE DEF shows, r
    <3> QED
      BY <3>2, <3>3, SetSince
  <2> HIDE DEF r
  <2>5. CachedIsKnown'
    BY <1>1, <2>1, <2>2, <2>3 DEF CachedIsKnown
  <2>6. Sound(r)
    BY <1>1, <2>2, <2>3, <2>4 DEF Sound
  <2> QED
    BY <2>1, <2>4, <2>5, <2>6, LaneWaits
<1>5. CASE ListEvents(l)
  <2>1. lane[l].step = "request" /\ UNCHANGED <<cached, now>>
    BY <1>5 DEF ListEvents, At
  <2>2. Valid(lane[l].token)
    <3>1. /\ lane[l].since \in Nat /\ now <= lane[l].since + Timeout
          /\ lane[l].token.issued \in Nat
          /\ lane[l].since + Timeout < lane[l].token.issued + Lifetime
      BY <2>1 DEF Sound, Waiting
    <3> QED
      BY <1>1, <3>1 DEF Valid
  <2>3. UNCHANGED refused /\ \E a : Answers(l, a)
    BY <1>5, <2>2 DEF ListEvents
  <2> QED
    BY <2>1, <2>3, AnswersOn
<1>6. CASE CalendarFails(l)
  BY <1>6, AnswersOn DEF CalendarFails
<1> QED
  BY <1>2, <1>3, <1>4, <1>5, <1>6

LEMMA CalendarSteps == CalendarInv /\ [Next]_vars => CalendarInv'
<1> SUFFICES ASSUME CalendarInv, [Next]_vars PROVE CalendarInv'
  OBVIOUS
<1> USE DEF CalendarInv
<1>1. CASE UNCHANGED vars
  BY <1>1 DEF vars, LaneType, IsLane, CachedIsKnown, Sound, TokensAccepted
<1>2. ASSUME NEW l \in Lanes, Begin(l) \/ Again(l) PROVE CalendarInv'
  BY <1>2, StartsOn DEF Begin, Again
<1>3. ASSUME NEW l \in Lanes, Runs(l), ~Again(l) PROVE CalendarInv'
  BY <1>3, StoreTools, CalendarTool DEF Runs
<1>4. CASE Tick
  <2>1. /\ \A l \in Lanes : lane[l].step \in Waiting => now < lane[l].since + Timeout
        /\ now' = now + 1 /\ UNCHANGED <<lane, cached, refused>>
    BY <1>4 DEF Tick, Waiting
  <2>2. LaneType' /\ TokensAccepted'
    BY <2>1 DEF LaneType, IsLane, TokensAccepted
  <2>3. CachedIsKnown'
    BY <2>1 DEF CachedIsKnown
  <2>4. ASSUME NEW l \in Lanes PROVE Sound(lane[l])'
    BY <2>1, HouseholdConstants DEF Sound, CachedIsKnown
  <2> QED
    BY <2>2, <2>3, <2>4
<1>5. CASE Crash
  <2> DEFINE undone(l) == [lane[l] EXCEPT !.step = "undone"]
  <2>1. /\ lane' = [l \in Lanes |-> IF lane[l].step \in {"done", "error"} THEN lane[l] ELSE undone(l)]
        /\ cached' = NoToken /\ UNCHANGED <<now, refused>>
    BY <1>5 DEF Crash
  <2>2. \A l \in Lanes : IsLane(undone(l)) /\ undone(l).step = "undone"
    BY SetStep DEF LaneType
  <2> HIDE DEF undone
  <2>3. CachedIsKnown' /\ TokensAccepted'
    BY <2>1, HouseholdConstants DEF NoToken, CachedIsKnown, TokensAccepted
  <2>4. LaneType'
    BY <2>1, <2>2 DEF LaneType, IsLane
  <2>5. ASSUME NEW l \in Lanes PROVE Sound(lane[l])'
    <3>1. lane'[l].step \notin Waiting
      BY <2>1, <2>2 DEF Waiting
    <3> QED
      BY <3>1 DEF Sound, Waiting
  <2> QED
    BY <2>3, <2>4, <2>5
<1> QED
  BY <1>1, <1>2, <1>3, <1>4, <1>5 DEF Next

\* Google refuses no request for its token: what the client keeps of a token's
\* life (Slack) covers the answer that brought it and the request that shows it.
THEOREM TokensAcceptedHolds == Spec => []TokensAccepted
<1>1. CalendarInv => TokensAccepted
  BY DEF CalendarInv
<1> QED
  BY <1>1, CalendarStarts, CalendarSteps, PTL DEF Spec

-----------------------------------------------------------------------------
(* The facts.                                                              *)

Requests == UNION {ToSet(p[l]) : p \in Plans, l \in Lanes}
Asked(r) == r.plan \in Seq(Requests) /\ r.call \in Requests \cup {NoCall}
Key(r)   == NormalizeFactKey(r.call.key)

\* What is stored is spelled the canonical way, and knows when it came.
Stored ==
  /\ stamp \in Nat /\ IsFiniteSet(DOMAIN facts) /\ DOMAIN born = DOMAIN facts
  /\ \A k \in DOMAIN facts :
       /\ IsText(k) /\ facts[k].at \in Nat
       /\ born[k].from \in Nat /\ born[k].to \in Nat
       /\ born[k].from <= born[k].to /\ born[k].to <= stamp

\* An answer shows what was known when the call began, or that it does not.
Whole(answer, known) ==
  /\ answer = [found |-> answer.found, keys |-> answer.keys, total |-> answer.total]
  /\ known \subseteq answer.keys \/ Cardinality(answer.keys) < answer.total
  /\ Cardinality(known) <= answer.total

Shows(r) ==
  \/ r.call.tool = "get_fact" /\ r.step \in {"exact", "similar", "done"}
  \/ r.call.tool = "list_facts" /\ r.step = "done"

Reads(r) ==
  /\ r.known \subseteq DOMAIN facts
  /\ Shows(r) => Whole(r.answer, r.known)
  /\ r.call.tool = "get_fact" =>
       /\ r.step = "similar" => Key(r) \notin r.known
       /\ r.step = "done" /\ Key(r) \in r.known => Key(r) \in r.answer.found

\* Two keys that ought to be one, for all that SearchFacts can tell.
Twins(j, k) ==
  /\ Resembles(j, k) /\ FactTerms(j) # {} /\ FactTerms(k) # {}
  /\ Cardinality(DOMAIN facts) <= SearchCandidates

\* A call that has looked for similar keys can only miss one that was recorded
\* since: the call that recorded it was under way at the same time.
Writes(r) ==
  r.call.tool = "set_fact" =>
    /\ r.since \in Nat /\ r.since <= stamp
    /\ r.step = "write" /\ ~r.call.distinct /\ Key(r) \notin DOMAIN facts =>
         \A k \in DOMAIN facts : Twins(k, Key(r)) => r.since <= born[k].to

FactsInv ==
  /\ Stored /\ KeysStayApart
  /\ \A l \in Lanes : Asked(lane[l]) /\ Reads(lane[l]) /\ Writes(lane[l])

LEMMA StepOnly ==
  ASSUME NEW r, IsLane(r), NEW x
  PROVE  LET q == [r EXCEPT !.step = x]
         IN  /\ IsLane(q) /\ q.step = x /\ q.plan = r.plan /\ q.call = r.call
             /\ q.since = r.since /\ q.known = r.known /\ q.answer = r.answer
  BY DEF IsLane

LEMMA AnswerOnly ==
  ASSUME NEW r, IsLane(r), NEW x
  PROVE  LET q == [r EXCEPT !.answer = x]
         IN  /\ IsLane(q) /\ q.step = r.step /\ q.plan = r.plan /\ q.call = r.call
             /\ q.since = r.since /\ q.known = r.known /\ q.answer = x
  BY DEF IsLane

LEMMA FactsStart == Init => FactsInv
<1> SUFFICES ASSUME Init PROVE FactsInv
  OBVIOUS
<1>1. PICK p \in Plans :
        lane = [l \in Lanes |-> [plan |-> p[l], call |-> NoCall, step |-> "done", since |-> 0,
                                 known |-> {}, answer |-> Nothing, token |-> NoToken]]
  BY DEF Init
<1>2. facts = <<>> /\ born = <<>> /\ stamp = 0 /\ DOMAIN facts = {} /\ DOMAIN born = {}
  BY DEF Init
<1>3. Stored /\ KeysStayApart
  BY <1>2, FS_EmptySet DEF Stored, KeysStayApart
<1>4. ASSUME NEW l \in Lanes PROVE Asked(lane[l]) /\ Reads(lane[l]) /\ Writes(lane[l])
  <2>1. lane[l].plan = p[l] /\ lane[l].call = NoCall /\ lane[l].known = {}
    BY <1>1
  <2>2. p[l] \in Seq(Requests)
    <3>1. p[l] \in Seq(ToSet(p[l])) /\ ToSet(p[l]) \subseteq Requests
      BY PlansAreRequests DEF Requests
    <3> HIDE DEF Requests
    <3> QED
      BY <3>1
  <2> QED
    BY <2>1, <2>2 DEF Asked, Reads, Writes, NoCall, Shows
<1> QED
  BY <1>3, <1>4 DEF FactsInv

\* A lane goes on and no fact is written.
LEMMA LaneReads ==
  ASSUME CalendarInv, FactsInv, NEW l \in Lanes, NEW r, lane' = [lane EXCEPT ![l] = r],
         UNCHANGED <<facts, born, distinct>>, stamp' \in {stamp, stamp + 1},
         Asked(r), Reads(r), r.call.tool = "set_fact" => r.since \in Nat /\ r.since <= stamp',
         r.call.tool = "set_fact" /\ r.step = "write" => Writes(r)
  PROVE  FactsInv'
<1> USE DEF FactsInv
<1>1. lane'[l] = r /\ \A m \in Lanes : m # l => lane'[m] = lane[m]
  BY DEF CalendarInv, LaneType
<1>2. Stored'
  BY DEF Stored
<1>3. KeysStayApart'
  BY DEF KeysStayApart
<1>4. ASSUME NEW m \in Lanes PROVE (Asked(lane[m]) /\ Reads(lane[m]) /\ Writes(lane[m]))'
  <2>1. CASE m = l
    BY <1>1, <2>1 DEF Asked, Reads, Shows, Writes, Twins
  <2>2. CASE m # l
    <3>1. lane'[m] = lane[m] /\ Asked(lane[m]) /\ Reads(lane[m]) /\ Writes(lane[m])
          /\ stamp \in Nat /\ stamp' \in Nat /\ stamp <= stamp'
      BY <1>1, <2>2 DEF Stored
    <3>2. Asked(lane[m])' /\ Reads(lane[m])'
      BY <3>1 DEF Asked, Reads, Shows
    <3>3. Writes(lane[m])'
      BY <3>1 DEF Writes, Twins
    <3> QED
      BY <3>2, <3>3
  <2> QED
    BY <2>1, <2>2
<1> QED
  BY <1>2, <1>3, <1>4

LEMMA ReadsGoOn ==
  ASSUME CalendarInv, FactsInv, NEW l \in Lanes, NEW x, Goes(l, x),
         UNCHANGED <<facts, born, distinct, stamp>>,
         x \notin {"exact", "done"},
         lane[l].call.tool = "get_fact" /\ x = "similar" =>
           lane[l].step = "exact" /\ Key(lane[l]) \notin lane[l].known,
         lane[l].call.tool = "set_fact" /\ x = "write" /\ ~lane[l].call.distinct
           /\ Key(lane[l]) \notin DOMAIN facts =>
             \A k \in DOMAIN facts : ~Twins(k, Key(lane[l]))
  PROVE  FactsInv'
<1> DEFINE r == [lane[l] EXCEPT !.step = x]
<1>1. lane' = [lane EXCEPT ![l] = r]
  BY DEF Goes
<1>2. /\ IsLane(r) /\ r.step = x /\ r.plan = lane[l].plan /\ r.call = lane[l].call
      /\ r.since = lane[l].since /\ r.known = lane[l].known /\ r.answer = lane[l].answer
  BY StepOnly DEF CalendarInv, LaneType
<1> HIDE DEF r
<1>3. Asked(lane[l]) /\ Reads(lane[l]) /\ Writes(lane[l])
  BY DEF FactsInv
<1>4. Asked(r) /\ Reads(r)
  BY <1>2, <1>3 DEF Asked, Reads, Shows, Key
<1>5. r.call.tool = "set_fact" => Writes(r)
  BY <1>2, <1>3 DEF Writes, Key
<1> QED
  BY <1>1, <1>2, <1>3, <1>4, <1>5, LaneReads DEF Writes

LEMMA ReadsAnswer ==
  ASSUME CalendarInv, FactsInv, NEW l \in Lanes, NEW a, Answers(l, a),
         UNCHANGED <<facts, born, distinct>>,
         lane[l].call.tool \in {"get_fact", "list_facts"} => Whole(a, lane[l].known),
         lane[l].call.tool = "get_fact" /\ Key(lane[l]) \in lane[l].known => Key(lane[l]) \in a.found
  PROVE  FactsInv'
<1> DEFINE r == [lane[l] EXCEPT !.step = "done", !.answer = a]
<1>1. lane' = [lane EXCEPT ![l] = r] /\ stamp' = stamp + 1
  BY DEF Answers
<1>2. /\ IsLane(r) /\ r.step = "done" /\ r.plan = lane[l].plan /\ r.call = lane[l].call
      /\ r.since = lane[l].since /\ r.known = lane[l].known /\ r.answer = a
  <2> DEFINE s == [lane[l] EXCEPT !.step = "done"]
  <2>1. /\ IsLane(s) /\ s.step = "done" /\ s.plan = lane[l].plan /\ s.call = lane[l].call
        /\ s.since = lane[l].since /\ s.known = lane[l].known
    BY StepOnly DEF CalendarInv, LaneType
  <2>2. r = [s EXCEPT !.answer = a]
    OBVIOUS
  <2> HIDE DEF s, r
  <2> QED
    BY <2>1, <2>2, AnswerOnly
<1> HIDE DEF r
<1>3. Asked(lane[l]) /\ Reads(lane[l]) /\ Writes(lane[l]) /\ stamp \in Nat
  BY DEF FactsInv, Stored
<1>4. Asked(r) /\ Reads(r)
  BY <1>2, <1>3 DEF Asked, Reads, Shows, Key
<1>5. r.call.tool = "set_fact" => r.since \in Nat /\ r.since <= stamp'
  BY <1>1, <1>2, <1>3 DEF Writes
<1> QED
  BY <1>1, <1>2, <1>3, <1>4, <1>5, LaneReads DEF Writes

LEMMA StartReads ==
  ASSUME CalendarInv, FactsInv, NEW l \in Lanes, NEW call, NEW rest, Start(l, call, rest),
         call \in Requests \cup {NoCall}, rest \in Seq(Requests)
  PROVE  FactsInv'
<1> DEFINE r == [plan |-> rest, call |-> call, step |-> FirstStep(call.tool),
                 since |-> IF call.tool = "list_calendar_events" THEN now ELSE stamp',
                 known |-> DOMAIN facts, answer |-> Nothing, token |-> NoToken]
<1>1. lane' = [lane EXCEPT ![l] = r] /\ UNCHANGED <<facts, born, distinct>> /\ stamp' = stamp + 1
  BY DEF Start
<1>2. /\ r.plan = rest /\ r.call = call /\ r.step = FirstStep(call.tool) /\ r.known = DOMAIN facts
      /\ call.tool = "set_fact" => r.since = stamp'
  OBVIOUS
<1> HIDE DEF r
<1>3. FirstStep(call.tool) \notin {"similar", "done", "write"}
  BY DEF FirstStep
<1>4. call.tool = "get_fact" => FirstStep(call.tool) = "catalog"
  BY DEF FirstStep
<1>5. Asked(r) /\ Reads(r)
  BY <1>2, <1>3, <1>4 DEF Asked, Reads, Shows
<1>6. stamp \in Nat
  BY DEF FactsInv, Stored
<1>7. r.call.tool = "set_fact" => r.since \in Nat /\ r.since <= stamp'
  BY <1>1, <1>2, <1>6
<1>8. r.step # "write" /\ stamp' \in {stamp, stamp + 1}
  BY <1>1, <1>2, <1>3
<1> QED
  BY <1>1, <1>5, <1>7, <1>8, LaneReads

\* A capped list: what is left out is missing from its count.
LEMMA ListIsWhole ==
  ASSUME Stored, NEW cap, NEW known, known \subseteq DOMAIN facts
  PROVE  Whole(ListFactKeys(cap), known)
<1> DEFINE keys == Newest(cap, DOMAIN facts)
<1>1. keys \subseteq DOMAIN facts /\ IsFiniteSet(DOMAIN facts)
  BY DEF Newest, Stored
<1> HIDE DEF keys
<1>2. Cardinality(known) <= Cardinality(DOMAIN facts)
  BY <1>1, FS_Subset
<1>3. keys # DOMAIN facts => Cardinality(keys) < Cardinality(DOMAIN facts)
  <2>1. /\ IsFiniteSet(keys) /\ Cardinality(keys) <= Cardinality(DOMAIN facts)
        /\ Cardinality(keys) = Cardinality(DOMAIN facts) => keys = DOMAIN facts
    BY <1>1, FS_Subset
  <2>2. Cardinality(keys) \in Nat /\ Cardinality(DOMAIN facts) \in Nat
    BY <1>1, <2>1, FS_CardinalityType
  <2> QED
    BY <2>1, <2>2
<1>4. ListFactKeys(cap) = [found |-> {}, keys |-> keys, total |-> Cardinality(DOMAIN facts)]
  BY DEF ListFactKeys, keys
<1> QED
  BY <1>2, <1>3, <1>4 DEF Whole
LEMMA CallsAreTexts ==
  ASSUME NEW r, Asked(r), r.call.tool \in {"set_fact", "get_fact"}
  PROVE  IsText(r.call.key) /\ IsText(Key(r))
<1>1. IsText(r.call.key)
  BY PlansAreRequests DEF Asked, NoCall, Requests
<1> QED
  BY <1>1 DEF Key, NormalizeFactKey, IsText, Text

LEMMA TermsAreWords == ASSUME NEW k, IsText(k) PROVE FactTerms(k) = ToSet(k.words)
<1>1. k = [words |-> k.words, canonical |-> k.canonical]
  BY DEF IsText, Text
<1>2. NormalizeFactKey(k).words = k.words
  BY <1>1 DEF NormalizeFactKey
<1> QED
  BY <1>2 DEF FactTerms

\* The search for similar keys sees every one of them, where there are no more
\* facts than it looks at.
LEMMA NoTwinIsMissed ==
  ASSUME Stored, NEW key, SimilarFactKeys(key) = {}, NEW k \in DOMAIN facts
  PROVE  ~Twins(k, key)
<1> SUFFICES ASSUME Twins(k, key) PROVE FALSE
  OBVIOUS
<1> DEFINE found == {j \in DOMAIN facts : \E t \in FactTerms(key) : Mentions(j.words, t)}
           newer == {j \in found : facts[j].at > facts[k].at}
<1>1. \E t \in FactTerms(key) : t \in FactTerms(k)
  BY DEF Twins, Resembles
<1>2. k \in found
  BY <1>1, TermsAreWords DEF Stored, Mentions
<1>3. newer \subseteq DOMAIN facts /\ k \notin newer
  BY DEF Stored
<1>4. Cardinality(newer) < Cardinality(DOMAIN facts)
  <2> HIDE DEF newer
  <2>1. /\ IsFiniteSet(newer) /\ Cardinality(newer) <= Cardinality(DOMAIN facts)
        /\ Cardinality(newer) = Cardinality(DOMAIN facts) => newer = DOMAIN facts
    BY <1>3, FS_Subset DEF Stored
  <2>2. Cardinality(newer) \in Nat /\ Cardinality(DOMAIN facts) \in Nat
    BY <2>1, FS_CardinalityType DEF Stored
  <2> QED
    BY <1>3, <2>1, <2>2
<1>5. Cardinality(newer) < SearchCandidates
  <2>1. IsFiniteSet(newer)
    BY <1>3, FS_Subset DEF Stored
  <2>2. Cardinality(newer) \in Nat /\ Cardinality(DOMAIN facts) \in Nat
    BY <2>1, FS_CardinalityType DEF Stored
  <2>3. Cardinality(DOMAIN facts) <= SearchCandidates /\ SearchCandidates \in Nat
    BY HouseholdConstants DEF Twins
  <2> QED
    BY <1>4, <2>2, <2>3
<1>6. k \in Newest(SearchCandidates, found)
  BY <1>2, <1>5 DEF Newest
<1>7. SearchFacts(FactTerms(key), TRUE) = Newest(SearchCandidates, found)
  BY DEF SearchFacts
<1>8. k \in SimilarFactKeys(key)
  BY <1>6, <1>7 DEF SimilarFactKeys, Twins
<1> QED
  BY <1>8

LEMMA FactReaders ==
  ASSUME CalendarInv, FactsInv, NEW l \in Lanes,
         LookUp(l) \/ FindSimilar(l) \/ ReadCatalog(l) \/ GetFact(l) \/ MatchFacts(l) \/ ListFacts(l)
  PROVE  FactsInv'
<1> DEFINE r == lane[l]
<1>1. Asked(r) /\ Reads(r) /\ Stored
  BY DEF FactsInv
<1>2. CASE LookUp(l)
  BY <1>2, ReadsGoOn DEF LookUp, At, Key
<1>3. CASE FindSimilar(l)
  <2>1. r.call.tool = "set_fact" /\ UNCHANGED <<facts, born, distinct>>
    BY <1>3 DEF FindSimilar, At
  <2>2. CASE SimilarFactKeys(Key(r)) = {} /\ Goes(l, "write") /\ UNCHANGED stamp
    BY <1>1, <2>1, <2>2, NoTwinIsMissed, ReadsGoOn
  <2>3. CASE Answers(l, [Nothing EXCEPT !.keys = SimilarFactKeys(Key(r))])
    BY <2>1, <2>3, ReadsAnswer
  <2> QED
    BY <1>3, <2>2, <2>3 DEF FindSimilar, Key
<1>4. CASE ReadCatalog(l)
  <2> DEFINE catalog == ListFactKeys(CatalogKeys)
             q == [lane[l] EXCEPT !.step = "exact", !.answer = catalog]
  <2>1. r.call.tool = "get_fact" /\ UNCHANGED <<facts, born, distinct>>
    BY <1>4 DEF ReadCatalog, At
  <2>2. Whole(catalog, r.known)
    BY <1>1, ListIsWhole DEF Reads
  <2>3. CASE catalog.total = 0 /\ Answers(l, Nothing)
    <3>1. Cardinality(DOMAIN facts) = 0 /\ IsFiniteSet(DOMAIN facts)
      BY <1>1, <2>3 DEF ListFactKeys, Stored
    <3>2. r.known = {}
      BY <1>1, <3>1, FS_EmptySet DEF Reads
    <3>3. Whole(Nothing, {})
      BY FS_EmptySet DEF Whole, Nothing
    <3> QED
      BY <2>1, <2>3, <3>2, <3>3, ReadsAnswer
  <2>4. CASE lane' = [lane EXCEPT ![l] = q] /\ UNCHANGED stamp
    <3> DEFINE s == [lane[l] EXCEPT !.step = "exact"]
    <3>1. /\ IsLane(s) /\ s.step = "exact" /\ s.plan = r.plan /\ s.call = r.call
          /\ s.since = r.since /\ s.known = r.known
      BY StepOnly DEF CalendarInv, LaneType
    <3>2. q = [s EXCEPT !.answer = catalog]
      OBVIOUS
    <3> HIDE DEF s, q, catalog
    <3>3. /\ q.step = "exact" /\ q.plan = r.plan /\ q.call = r.call
          /\ q.known = r.known /\ q.answer = catalog
      BY <3>1, <3>2, AnswerOnly
    <3> HIDE DEF r
    <3>4. Asked(q) /\ Reads(q) /\ q.call.tool # "set_fact"
      BY <1>1, <2>1, <2>2, <3>3 DEF Asked, Reads, Shows
    <3> QED
      BY <2>1, <2>4, <3>4, LaneReads
  <2> QED
    BY <1>4, <2>3, <2>4 DEF ReadCatalog
<1>5. CASE GetFact(l)
  <2>1. r.call.tool = "get_fact" /\ r.step = "exact" /\ UNCHANGED <<facts, born, distinct>>
    BY <1>5 DEF GetFact, At
  <2>2. CASE Key(r) \in DOMAIN facts /\ Answers(l, [r.answer EXCEPT !.found = {Key(r)}])
    <3> DEFINE a == [r.answer EXCEPT !.found = {Key(r)}]
    <3>1. Whole(r.answer, r.known)
      BY <1>1, <2>1 DEF Reads, Shows
    <3>2. Whole(a, r.known) /\ a.found = {Key(r)}
      BY <3>1 DEF Whole
    <3> HIDE DEF a
    <3>3. Answers(l, a)
      BY <2>2 DEF a
    <3> QED
      BY <2>1, <3>2, <3>3, ReadsAnswer
  <2>3. CASE Key(r) \notin DOMAIN facts /\ Goes(l, "similar") /\ UNCHANGED stamp
    <3>1. Key(r) \notin r.known
      BY <1>1, <2>3 DEF Reads
    <3> QED
      BY <2>1, <2>3, <3>1, ReadsGoOn
  <2> QED
    BY <1>5, <2>2, <2>3 DEF GetFact, Key
<1>6. CASE MatchFacts(l)
  <2> DEFINE matches == ClosestMatches(FactTerms(r.call.key))
             a == [r.answer EXCEPT !.found = matches]
  <2>1. /\ r.call.tool = "get_fact" /\ r.step = "similar" /\ UNCHANGED <<facts, born, distinct>>
        /\ Answers(l, a)
    BY <1>6 DEF MatchFacts, At
  <2> HIDE DEF matches
  <2>2. Whole(r.answer, r.known) /\ Key(r) \notin r.known
    BY <1>1, <2>1 DEF Reads, Shows
  <2>3. Whole(a, r.known)
    BY <2>2 DEF Whole
  <2> HIDE DEF a
  <2> QED
    BY <2>1, <2>2, <2>3, ReadsAnswer
<1>7. CASE ListFacts(l)
  <2> DEFINE all == ListFactKeys(ListedFacts)
             a == [all EXCEPT !.found = all.keys]
  <2>1. r.call.tool = "list_facts" /\ UNCHANGED <<facts, born, distinct>> /\ Answers(l, a)
    BY <1>7 DEF ListFacts, At
  <2>2. Whole(all, r.known)
    BY <1>1, ListIsWhole DEF Reads
  <2> HIDE DEF all
  <2>3. Whole(a, r.known)
    BY <2>2 DEF Whole
  <2> HIDE DEF a
  <2> QED
    BY <2>1, <2>3, ReadsAnswer
<1> QED
  BY <1>2, <1>3, <1>4, <1>5, <1>6, <1>7
LEMMA FactIsWritten == ASSUME CalendarInv, FactsInv, NEW l \in Lanes, UpsertFact(l) PROVE FactsInv'
<1> DEFINE r == lane[l]
           key == Key(r)
           q == [lane[l] EXCEPT !.step = "done", !.answer = [Nothing EXCEPT !.found = {key}]]
<1> USE DEF FactsInv
<1>1. /\ r.call.tool = "set_fact" /\ r.step = "write"
      /\ DOMAIN facts' = DOMAIN facts \cup {key}
      /\ \A k \in DOMAIN facts' :
           facts'[k] = IF k = key THEN [value |-> r.call.value, at |-> r.since] ELSE facts[k]
      /\ lane' = [lane EXCEPT ![l] = q] /\ stamp' = stamp + 1
  BY DEF UpsertFact, At, Answers, Key
<1>2. /\ key \in DOMAIN facts => UNCHANGED <<born, distinct>>
      /\ key \notin DOMAIN facts =>
           /\ DOMAIN born' = DOMAIN facts'
           /\ \A k \in DOMAIN facts : born'[k] = born[k]
           /\ born'[key] = [from |-> r.since, to |-> stamp]
           /\ distinct' = IF r.call.distinct THEN distinct \cup {key} ELSE distinct
  BY DEF UpsertFact, Stored, Key
<1>3. /\ q.step = "done" /\ q.plan = r.plan /\ q.call = r.call
      /\ q.since = r.since /\ q.known = r.known
  <2> DEFINE s == [lane[l] EXCEPT !.step = "done"]
             a == [Nothing EXCEPT !.found = {key}]
  <2>1. /\ IsLane(s) /\ s.step = "done" /\ s.plan = r.plan /\ s.call = r.call
        /\ s.since = r.since /\ s.known = r.known
    BY StepOnly DEF CalendarInv, LaneType
  <2>2. q = [s EXCEPT !.answer = a]
    OBVIOUS
  <2> HIDE DEF s, a, q
  <2> QED
    BY <2>1, <2>2, AnswerOnly
<1>4. /\ lane'[l] = q /\ \A m \in Lanes : m # l => lane'[m] = lane[m]
      /\ Asked(r) /\ Reads(r) /\ Writes(r) /\ Stored
      /\ r.since \in Nat /\ r.since <= stamp /\ stamp \in Nat /\ stamp' \in Nat /\ stamp <= stamp'
  BY <1>1 DEF CalendarInv, LaneType, Writes, Stored
<1>5. IsText(key)
  BY <1>1, <1>4, CallsAreTexts
<1> HIDE DEF q, key, r, FactsInv
<1>6. Cardinality(DOMAIN facts') <= SearchCandidates => Cardinality(DOMAIN facts) <= SearchCandidates
  <2>1. IsFiniteSet(DOMAIN facts) /\ IsFiniteSet(DOMAIN facts')
    BY <1>1, <1>4, FS_AddElement DEF Stored
  <2>2. Cardinality(DOMAIN facts) <= Cardinality(DOMAIN facts')
    BY <1>1, <2>1, FS_Subset
  <2>3. Cardinality(DOMAIN facts) \in Nat /\ Cardinality(DOMAIN facts') \in Nat
    BY <2>1, FS_CardinalityType
  <2> QED
    BY <2>2, <2>3, HouseholdConstants
<1>7. Stored'
  <2>1. IsFiniteSet(DOMAIN facts')
    BY <1>1, <1>4, FS_AddElement DEF Stored
  <2>2. DOMAIN born' = DOMAIN facts'
    BY <1>1, <1>2, <1>4 DEF Stored
  <2>3. ASSUME NEW k \in DOMAIN facts'
        PROVE  /\ IsText(k) /\ facts'[k].at \in Nat
               /\ born'[k].from \in Nat /\ born'[k].to \in Nat
               /\ born'[k].from <= born'[k].to /\ born'[k].to <= stamp'
    <3>1. IsText(k) /\ facts'[k].at \in Nat
      BY <1>1, <1>4, <1>5 DEF Stored
    <3>2. CASE k \in DOMAIN facts
      <4>1. born'[k] = born[k]
        BY <1>2, <3>2
      <4> QED
        BY <1>4, <3>1, <3>2, <4>1 DEF Stored
    <3>3. CASE k \notin DOMAIN facts
      <4>1. k = key /\ born'[k] = [from |-> r.since, to |-> stamp]
        BY <1>1, <1>2, <3>3
      <4> QED
        BY <1>4, <3>1, <4>1
    <3> QED
      BY <3>2, <3>3
  <2> QED
    BY <1>4, <2>1, <2>2, <2>3 DEF Stored
<1>8. KeysStayApart'
  <2>1. ASSUME NEW j \in DOMAIN facts', NEW k \in DOMAIN facts', j # k, Twins(j, k)
        PROVE  \/ {j, k} \cap distinct' # {}
               \/ born'[j].from <= born'[k].to /\ born'[k].from <= born'[j].to
    <3>1. CASE j \in DOMAIN facts /\ k \in DOMAIN facts
      <4>1. \/ {j, k} \cap distinct # {}
            \/ born[j].from <= born[k].to /\ born[k].from <= born[j].to
        BY <2>1, <3>1 DEF FactsInv, KeysStayApart, Twins
      <4>2. distinct \subseteq distinct' /\ born'[j] = born[j] /\ born'[k] = born[k]
        BY <1>2, <3>1
      <4> QED
        BY <4>1, <4>2
    <3>2. ASSUME NEW old \in DOMAIN facts, key \notin DOMAIN facts, Twins(old, key)
          PROVE  \/ key \in distinct'
                 \/ born'[key].from <= born'[old].to /\ born'[old].from <= born'[key].to
      <4>1. born'[old] = born[old] /\ born'[key].from = r.since /\ born'[key].to = stamp
        BY <1>2, <3>2
      <4>2. /\ born[old].from \in Nat /\ born[old].to \in Nat
            /\ born[old].from <= born[old].to /\ born[old].to <= stamp
        BY <1>4 DEF Stored
      <4>3. ~r.call.distinct => r.since <= born[old].to
        BY <1>1, <1>4, <3>2 DEF Writes, key
      <4> QED
        BY <1>2, <1>4, <3>2, <4>1, <4>2, <4>3
    <3>3. CASE j \notin DOMAIN facts
      <4>1. j = key /\ k \in DOMAIN facts /\ Twins(k, key)
        BY <1>1, <2>1, <3>3 DEF Twins, Resembles
      <4> QED
        BY <3>2, <3>3, <4>1
    <3>4. CASE k \notin DOMAIN facts
      <4>1. k = key /\ j \in DOMAIN facts /\ Twins(j, key)
        BY <1>1, <2>1, <3>4
      <4> QED
        BY <3>2, <3>4, <4>1
    <3> QED
      BY <3>1, <3>3, <3>4
  <2> QED
    BY <1>6, <2>1 DEF KeysStayApart, Twins
<1>9. ASSUME NEW m \in Lanes PROVE (Asked(lane[m]) /\ Reads(lane[m]) /\ Writes(lane[m]))'
  <2>1. CASE m = l
    BY <1>1, <1>3, <1>4, <2>1 DEF Asked, Reads, Shows, Writes
  <2>2. CASE m # l
    <3>1. lane'[m] = lane[m] /\ Asked(lane[m]) /\ Reads(lane[m]) /\ Writes(lane[m])
      BY <1>4, <2>2 DEF FactsInv
    <3>2. Asked(lane[m])' /\ Reads(lane[m])'
      BY <1>1, <3>1 DEF Asked, Reads, Shows
    <3>3. ASSUME lane[m].call.tool = "set_fact", lane[m].step = "write", ~lane[m].call.distinct,
                 Key(lane[m]) \notin DOMAIN facts', NEW k \in DOMAIN facts', Twins(k, Key(lane[m]))'
          PROVE  lane[m].since <= born'[k].to
      <4>1. CASE k \in DOMAIN facts
        <5>1. born'[k] = born[k] /\ Key(lane[m]) \notin DOMAIN facts
          BY <1>1, <1>2, <3>3, <4>1
        <5>2. Twins(k, Key(lane[m]))
          BY <1>6, <3>1, <3>3 DEF Twins, Key
        <5> QED
          BY <3>1, <3>3, <4>1, <5>1, <5>2 DEF Writes
      <4>2. CASE k \notin DOMAIN facts
        <5>1. born'[k].to = stamp
          BY <1>1, <1>2, <4>2
        <5> QED
          BY <3>1, <3>3, <5>1 DEF Writes
      <4> QED
        BY <4>1, <4>2
    <3>4. lane[m].call.tool = "set_fact" => lane[m].since \in Nat /\ lane[m].since <= stamp'
      BY <1>4, <3>1 DEF Writes
    <3>5. Writes(lane[m])'
      BY <3>1, <3>3, <3>4 DEF Writes
    <3> QED
      BY <3>2, <3>5
  <2> QED
    BY <2>1, <2>2
<1> QED
  BY <1>7, <1>8, <1>9 DEF FactsInv

\* Lists and recall leave the facts alone.
LEMMA OtherTools ==
  ASSUME CalendarInv, FactsInv, NEW l \in Lanes,
         AddListItem(l) \/ GetList(l) \/ MarkItemDone(l) \/ Embed(l) \/ RecallHistory(l)
  PROVE  FactsInv'
<1>1. CASE AddListItem(l) \/ GetList(l) \/ MarkItemDone(l)
  BY <1>1, ReadsAnswer DEF AddListItem, GetList, MarkItemDone, At
<1>2. CASE Embed(l)
  BY <1>2, ReadsGoOn DEF Embed, At
<1>3. CASE RecallHistory(l)
  BY <1>3, ReadsAnswer DEF RecallHistory, At
<1> QED
  BY <1>1, <1>2, <1>3

\* So does the calendar.
LEMMA CalendarReads ==
  ASSUME CalendarInv, FactsInv, NEW l \in Lanes,
         UseToken(l) \/ TokenIssued(l) \/ TokenReceived(l) \/ ListEvents(l) \/ CalendarFails(l)
  PROVE  FactsInv'
<1>1. ASSUME NEW x, NEW t, NEW i, lane' = [lane EXCEPT ![l].step = x, ![l].token = t, ![l].since = i],
             lane[l].call.tool = "list_calendar_events", UNCHANGED <<facts, born, distinct, stamp>>
      PROVE  FactsInv'
  <2> DEFINE r == [lane[l] EXCEPT !.step = x, !.token = t, !.since = i]
  <2>1. lane' = [lane EXCEPT ![l] = r]
    BY <1>1
  <2>2. /\ r.plan = lane[l].plan /\ r.call = lane[l].call /\ r.known = lane[l].known
    BY DEF CalendarInv, LaneType, IsLane
  <2> HIDE DEF r
  <2>3. Asked(r) /\ Reads(r)
    BY <1>1, <2>2 DEF FactsInv, Asked, Reads, Shows
  <2> QED
    BY <1>1, <2>1, <2>2, <2>3, LaneReads
<1>2. IsLane(lane[l]) /\ lane = [m \in Lanes |-> lane[m]]
  BY DEF CalendarInv, LaneType
<1>3. CASE UseToken(l)
  <2>1. CASE Sends(l, cached)
    BY <1>1, <1>3, <2>1 DEF UseToken, Sends, At, tables
  <2>2. CASE lane' = [lane EXCEPT ![l].step = "fetch", ![l].since = now]
    <3>1. lane[l] = [lane[l] EXCEPT !.token = lane[l].token]
      BY <1>2 DEF IsLane
    <3>2. lane' = [lane EXCEPT ![l].step = "fetch", ![l].token = lane[l].token, ![l].since = now]
      BY <1>2, <2>2 DEF IsLane
    <3> QED
      BY <1>1, <1>3, <3>2 DEF UseToken, At, tables
  <2> QED
    BY <1>3, <2>1, <2>2 DEF UseToken
<1>4. CASE TokenIssued(l)
  <2> DEFINE t == [issued |-> now, expires |-> now + Lifetime]
  <2>1. lane' = [lane EXCEPT ![l].step = "issued", ![l].token = t]
    BY <1>4 DEF TokenIssued
  <2> HIDE DEF t
  <2>2. lane' = [lane EXCEPT ![l].step = "issued", ![l].token = t, ![l].since = lane[l].since]
    BY <1>2, <2>1 DEF IsLane
  <2>3. lane[l].call.tool = "list_calendar_events" /\ UNCHANGED <<facts, born, distinct, stamp>>
    BY <1>4 DEF TokenIssued, At, tables
  <2> QED
    BY <1>1, <2>2, <2>3
<1>5. CASE TokenReceived(l)
  BY <1>1, <1>5 DEF TokenReceived, Sends, At, tables
<1>6. CASE ListEvents(l) \/ CalendarFails(l)
  BY <1>6, ReadsAnswer DEF ListEvents, CalendarFails, At, tables
<1> QED
  BY <1>3, <1>4, <1>5, <1>6

LEMMA FactsSteps == CalendarInv /\ FactsInv /\ [Next]_vars => FactsInv'
<1> SUFFICES ASSUME CalendarInv, FactsInv, [Next]_vars PROVE FactsInv'
  OBVIOUS
<1> USE DEF FactsInv
<1>1. CASE UNCHANGED <<facts, lane, stamp, born, distinct>>
  BY <1>1 DEF Stored, KeysStayApart, Asked, Reads, Shows, Writes, Twins
<1>2. ASSUME NEW l \in Lanes, Begin(l) \/ Again(l) PROVE FactsInv'
  <2>1. lane[l].plan \in Seq(Requests) /\ lane[l].call \in Requests \cup {NoCall}
    BY DEF Asked
  <2>2. CASE Begin(l)
    <3>1. Head(lane[l].plan) \in Requests /\ Tail(lane[l].plan) \in Seq(Requests)
      BY <2>1, <2>2 DEF Begin
    <3> QED
      BY <2>2, <3>1, StartReads DEF Begin
  <2>3. CASE Again(l)
    BY <2>1, <2>3, StartReads DEF Again
  <2> QED
    BY <1>2, <2>2, <2>3
<1>3. ASSUME NEW l \in Lanes, Runs(l), ~Again(l) PROVE FactsInv'
  BY <1>3, FactReaders, FactIsWritten, OtherTools, CalendarReads DEF Runs
<1>4. CASE Crash
  <2> DEFINE undone(l) == [lane[l] EXCEPT !.step = "undone"]
  <2>1. /\ lane' = [l \in Lanes |-> IF lane[l].step \in {"done", "error"} THEN lane[l] ELSE undone(l)]
        /\ UNCHANGED <<facts, stamp, born, distinct>>
    BY <1>4 DEF Crash
  <2>2. \A l \in Lanes : LET q == undone(l) IN
          /\ q.step = "undone" /\ q.plan = lane[l].plan /\ q.call = lane[l].call
          /\ q.since = lane[l].since /\ q.known = lane[l].known
    BY StepOnly DEF CalendarInv, LaneType
  <2> HIDE DEF undone
  <2>3. Stored' /\ KeysStayApart'
    BY <2>1 DEF Stored, KeysStayApart
  <2>4. ASSUME NEW l \in Lanes PROVE (Asked(lane[l]) /\ Reads(lane[l]) /\ Writes(lane[l]))'
    <3>1. CASE lane'[l] = lane[l]
      BY <2>1, <3>1 DEF Asked, Reads, Shows, Writes, Twins
    <3>2. CASE lane'[l] = undone(l)
      BY <2>1, <2>2, <3>2 DEF Asked, Reads, Shows, Writes
    <3> QED
      BY <2>1, <3>1, <3>2
  <2> QED
    BY <2>3, <2>4
<1>5. CASE Tick
  BY <1>1, <1>5 DEF Tick, tables
<1> QED
  BY <1>1, <1>2, <1>3, <1>4, <1>5 DEF Next, vars

LEMMA FactsHold == Spec => []FactsInv
<1> QED
  BY CalendarStarts, CalendarSteps, FactsStart, FactsSteps, PTL DEF Spec

\* Of two facts one of which says what the other says and more, one was recorded
\* as distinct, or the two calls were under way at the same time: nothing else
\* gets past the search for similar keys (facts.ts set_fact, store.ts
\* findSimilarFactKeys), while there are no more facts than the search looks at.
THEOREM KeysStayApartHolds == Spec => []KeysStayApart
<1>1. FactsInv => KeysStayApart
  BY DEF FactsInv
<1> QED
  BY <1>1, FactsHold, PTL

\* No capped answer is presented as everything, and a fact that was stored when
\* the call began is found under its key (facts.ts get_fact and list_facts).
THEOREM AnswersCompleteHolds == Spec => []AnswersComplete
<1>1. FactsInv => AnswersComplete
  BY DEF FactsInv, Reads, Shows, Whole, Key, AnswersComplete, At
<1> QED
  BY <1>1, FactsHold, PTL
=============================================================================
