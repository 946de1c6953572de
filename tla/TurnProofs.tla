----------------------------- MODULE TurnProofs -----------------------------
(***************************************************************************)
(* Theorems about one turn of the agent and about the transcript it leaves *)
(* behind, for any batches, answers of the model and of the router, bounds *)
(* on rounds, lengths of the conversation, and number of crashes and       *)
(* failures: a turn runs on one tier; the record tells everything once;    *)
(* the reply is the turn's own; the transcript stays bounded.              *)
(*                                                                         *)
(* The first part needs an invariant over the journal alone.  The second   *)
(* rests on replay: what the program holds is a function of the entries of *)
(* the journal it has passed, so a run of the turn, the first or a         *)
(* relaunched one, is a point of a path that the journal spells out, and   *)
(* the store is always that of the path's end.                             *)
(***************************************************************************)
EXTENDS Turn, TLAPS, SequenceTheorems, FiniteSetTheorems, WellFoundedInduction

-----------------------------------------------------------------------------
(* The invariant.  What the model was asked on is what the log says; the   *)
(* log says what the one "route" entry of the journal says; and a run that *)
(* is past the router has that entry behind it, because it either wrote it *)
(* or was handed it back, or it found no router and no such entry, and     *)
(* then there never will be one: no run is at the router again with a call *)
(* of the model behind it.                                                 *)

\* The steps up to the router, and those that use what it decided.
BeforeRoute == {"load", "resolve", "digest", "classify", "redigest", "route"}
Asking      == {"model", "tool", "final"}

JournalOK ==
  /\ journal \in Seq(ToSet(journal))
  /\ pos \in Nat /\ pos <= Len(journal)

TierOK ==
  /\ turn \in 0 .. NTurns
  /\ live \/ status = "running" => turn # 0
  /\ config \in Configs
  /\ routes \in [Turns -> Tiers \cup {"none"}] /\ tier \in Tiers
  /\ \A t \in Turns : t > turn => routes[t] = "none"

\* The entries of the router, and of the calls of the model.
ModelCalls == {"callModel", "callModelForcedFinal"}
RouteAt(i) == journal[i].step = "route"
ModelAt(i) == journal[i].step \in ModelCalls

\* The journal has one decision, taken as code allows; a run that is not past
\* the router has none behind it.
OneDecision ==
  /\ \A i, j \in 1 .. Len(journal) : RouteAt(i) /\ RouteAt(j) => i = j
  /\ \A i \in 1 .. Len(journal) :
       RouteAt(i) => /\ turn # 0 /\ journal[i].out \in Tiers /\ journal[i].out \in RolledOut
                     /\ Quoted(input[turn]) => journal[i].out = "standard"
  /\ pc \in BeforeRoute => tier = "standard" /\ \A i \in 1 .. pos : ~RouteAt(i)

\* The model is called behind the router, if at all.
CallsBehind ==
  /\ \A i, j \in 1 .. Len(journal) : RouteAt(i) /\ ModelAt(j) => i < j
  /\ pc \in BeforeRoute \cup {"logRoute"} => \A i \in 1 .. pos : ~ModelAt(i)
  /\ asked # {} => \E i \in 1 .. Len(journal) : ModelAt(i)

\* The log agrees with the journal, and is written when the journal says so.
LogAgrees ==
  /\ turn # 0 /\ routes[turn] # "none" =>
       \E i \in 1 .. Len(journal) : RouteAt(i) /\ journal[i].out = routes[turn]
  /\ \A i \in 1 .. Len(journal) : journal[i].step = "logRoute" => turn # 0 /\ routes[turn] # "none"

\* A run past the router carries the decision; one past the log, what is logged.
TierIsDecided ==
  /\ pc = "logRoute" => \E i \in 1 .. pos : RouteAt(i) /\ journal[i].out = tier
  /\ pc \in Asking => turn # 0 /\ tier = Decided
  /\ asked # {} => turn # 0 /\ asked = {Decided}

TierInv == JournalOK /\ TierOK /\ OneDecision /\ CallsBehind /\ LogAgrees /\ TierIsDecided

\* The first turn has not begun.
LEMMA TierStarts == Init => TierInv
<1> SUFFICES ASSUME Init PROVE TierInv
  OBVIOUS
<1> USE DEF Init
<1>1. JournalOK
  BY DEF JournalOK
<1>2. TierOK
  BY TurnConstants DEF TierOK, Tiers, Turns
<1>3. OneDecision /\ CallsBehind /\ LogAgrees
  BY DEF OneDecision, CallsBehind, LogAgrees
<1>4. TierIsDecided
  BY DEF TierIsDecided, Asking
<1> QED
  BY <1>1, <1>2, <1>3, <1>4 DEF TierInv

-----------------------------------------------------------------------------
(* The journal.                                                            *)

\* A step leaves the journal with what it returned at its place, whether it
\* wrote it or was handed it, and with nothing else that is new.
LEMMA JournaledStep ==
  ASSUME JournalOK, NEW name, NEW out, Journaled(name, out)
  PROVE  /\ JournalOK' /\ pos' = pos + 1 /\ Len(journal) \in Nat /\ Len(journal') \in Nat
         /\ Len(journal) <= Len(journal')
         /\ \A i \in 1 .. Len(journal) : journal'[i] = journal[i]
         /\ \A i \in 1 .. Len(journal') : i \in 1 .. Len(journal) \/ i = pos'
         /\ IsFresh => Len(journal) = pos
         /\ pos' \in 1 .. Len(journal')
         /\ journal'[pos'].step = name /\ journal'[pos'].out = out
<1>1. Len(journal) \in Nat /\ pos \in Nat /\ pos <= Len(journal) /\ journal \in Seq(ToSet(journal))
  BY DEF JournalOK
<1>2. pos' = pos + 1
  BY DEF Journaled
<1>3. CASE ~IsFresh
  <2>1. journal' = journal /\ journal[pos + 1].step = name /\ journal[pos + 1].out = out
    BY <1>3 DEF Journaled
  <2>2. pos + 1 <= Len(journal)
    BY <1>1, <1>3 DEF IsFresh
  <2>3. JournalOK'
    BY <1>1, <1>2, <2>1, <2>2 DEF JournalOK
  <2> QED
    BY <1>1, <1>2, <1>3, <2>1, <2>2, <2>3
<1>4. CASE IsFresh
  <2> DEFINE e == [step |-> name, out |-> out]
             S == ToSet(journal) \cup {e}
  <2>1. journal' = Append(journal, e) /\ pos = Len(journal)
    BY <1>4 DEF Journaled, IsFresh
  <2>2. journal \in Seq(S) /\ e \in S /\ e.step = name /\ e.out = out
    BY <1>1
  <2> HIDE DEF e, S
  <2>3. /\ journal' \in Seq(S) /\ Len(journal') = Len(journal) + 1
        /\ \A i \in 1 .. Len(journal) : journal'[i] = journal[i]
        /\ journal'[Len(journal) + 1] = e
    BY <2>1, <2>2, AppendProperties
  <2>4. journal' \in Seq(ToSet(journal'))
    <3>1. \A i \in 1 .. Len(journal') : journal'[i] \in ToSet(journal')
      BY <2>3 DEF ToSet
    <3>2. journal' = [i \in 1 .. Len(journal') |-> journal'[i]]
      BY <2>3
    <3> QED
      BY <1>1, <2>3, <3>1, <3>2
  <2>5. JournalOK'
    BY <1>1, <1>2, <2>1, <2>3, <2>4 DEF JournalOK
  <2> QED
    BY <1>1, <1>2, <2>1, <2>2, <2>3, <2>5
<1> QED
  BY <1>3, <1>4

-----------------------------------------------------------------------------
(* The steps.                                                              *)

\* Where a run finds no router, none has been there: it calls the model, and
\* does it on the standard tier.
LEMMA NoRouter ==
  ASSUME TierInv, NEW name \in ModelCalls, NEW out, Journaled(name, out), pc = "route"
  PROVE  tier = "standard" /\ (turn # 0 => routes[turn] = "none")
<1> USE DEF TierInv
<1>1. pos \in Nat /\ Len(journal) \in Nat /\ pos <= Len(journal)
  BY DEF JournalOK
<1>2. tier = "standard" /\ \A i \in 1 .. pos : ~RouteAt(i)
  BY DEF OneDecision, BeforeRoute
<1>3. \A i \in 1 .. Len(journal) : ~RouteAt(i)
  <2>1. CASE IsFresh
    BY <1>2, <2>1 DEF IsFresh
  <2>2. CASE ~IsFresh
    <3>1. pos + 1 \in 1 .. Len(journal) /\ ModelAt(pos + 1)
      BY <1>1, <2>2 DEF IsFresh, Journaled, ModelAt
    <3>2. \A i \in 1 .. Len(journal) : RouteAt(i) => i < pos + 1
      BY <3>1 DEF CallsBehind
    <3> QED
      BY <1>1, <1>2, <3>2
  <2> QED
    BY <2>1, <2>2
<1> QED
  BY <1>2, <1>3 DEF LogAgrees

\* A step that is neither the router's nor the log's, and that comes to the
\* model from the router only by calling it, asks on the tier that is decided.
LEMMA PlainStep ==
  ASSUME TierInv, NEW name, NEW out, Journaled(name, out), name \notin {"route", "logRoute"}, live,
         UNCHANGED <<turn, status, input, config, live, routes, tier>>,
         asked' = asked \/ (asked' = asked \cup {tier} /\ name \in ModelCalls),
         name \in ModelCalls => pc \in Asking \cup {"route"},
         pc' # "logRoute", pc' \in BeforeRoute => pc \in BeforeRoute /\ name \notin ModelCalls,
         pc' \in Asking => pc \in Asking \/ name \in ModelCalls
  PROVE  TierInv'
<1> USE DEF TierInv
<1>1. /\ JournalOK' /\ pos' = pos + 1 /\ Len(journal) \in Nat /\ Len(journal') \in Nat
      /\ Len(journal) <= Len(journal')
      /\ \A i \in 1 .. Len(journal) : journal'[i] = journal[i]
      /\ \A i \in 1 .. Len(journal') : i \in 1 .. Len(journal) \/ i = pos'
      /\ IsFresh => Len(journal) = pos
      /\ pos' \in 1 .. Len(journal') /\ journal'[pos'].step = name
  BY JournaledStep
<1>2. pos \in Nat /\ pos <= Len(journal)
  BY DEF JournalOK
<1>3. TierOK'
  BY DEF TierOK
<1>a. \A i \in 1 .. Len(journal') : RouteAt(i)' => i \in 1 .. Len(journal) /\ RouteAt(i)
  BY <1>1 DEF RouteAt
<1>b. ~IsFresh => journal' = journal
  BY DEF Journaled
<1>4. OneDecision'
  <2>1. \A i \in 1 .. pos' : RouteAt(i)' => i \in 1 .. pos
    BY <1>1, <1>2 DEF RouteAt
  <2>2. pos' <= Len(journal') /\ 1 .. pos' \subseteq 1 .. Len(journal')
    BY <1>1
  <2>3. \A i \in 1 .. Len(journal) : journal'[i].out = journal[i].out
    BY <1>1
  <2> QED
    BY <1>a, <2>1, <2>2, <2>3 DEF OneDecision
<1>c. CallsBehind'
  <2>1. ASSUME NEW i \in 1 .. Len(journal'), NEW j \in 1 .. Len(journal'), RouteAt(i)', ModelAt(j)'
        PROVE  i < j
    <3>1. i \in 1 .. Len(journal) /\ RouteAt(i)
      BY <1>a, <2>1
    <3>2. CASE j \in 1 .. Len(journal)
      BY <1>1, <2>1, <3>1, <3>2 DEF CallsBehind, ModelAt
    <3>3. CASE j \notin 1 .. Len(journal)
      BY <1>1, <1>2, <2>1, <3>1, <3>3
    <3> QED
      BY <3>2, <3>3
  <2>2. pc' \in BeforeRoute \cup {"logRoute"} => \A i \in 1 .. pos' : ~ModelAt(i)'
    <3>1. SUFFICES ASSUME pc' \in BeforeRoute, NEW i \in 1 .. pos' PROVE ~ModelAt(i)'
      OBVIOUS
    <3>2. CASE i = pos'
      BY <1>1, <3>1, <3>2 DEF ModelAt
    <3>3. CASE i # pos'
      <4>1. i \in 1 .. pos /\ i \in 1 .. Len(journal)
        BY <1>1, <1>2, <3>1, <3>3
      <4> QED
        BY <1>1, <3>1, <4>1 DEF CallsBehind, ModelAt
    <3> QED
      BY <3>2, <3>3
  <2>3. asked' # {} => \E i \in 1 .. Len(journal') : ModelAt(i)'
    <3>1. CASE asked' = asked
      <4>1. \A i \in 1 .. Len(journal) : i \in 1 .. Len(journal') /\ (ModelAt(i) => ModelAt(i)')
        BY <1>1 DEF ModelAt
      <4> QED
        BY <3>1, <4>1 DEF CallsBehind
    <3>2. CASE name \in ModelCalls
      BY <1>1, <3>2 DEF ModelAt
    <3> QED
      BY <3>1, <3>2
  <2> QED
    BY <2>1, <2>2, <2>3 DEF CallsBehind
<1>5. LogAgrees'
  <2>1. \A i \in 1 .. Len(journal) : i \in 1 .. Len(journal') /\ journal'[i] = journal[i]
    BY <1>1
  <2>2. \A i \in 1 .. Len(journal') :
          journal'[i].step = "logRoute" => i \in 1 .. Len(journal) /\ journal[i].step = "logRoute"
    BY <1>1
  <2> QED
    BY <2>1, <2>2 DEF LogAgrees, RouteAt
<1>6. TierIsDecided'
  <2>1. turn # 0
    BY DEF TierOK
  <2>2. pc \in Asking \/ name \in ModelCalls => tier = Decided
    <3>1. CASE pc \in Asking
      BY <3>1 DEF TierIsDecided
    <3>2. CASE name \in ModelCalls /\ pc = "route"
      BY <2>1, <3>2, NoRouter DEF Decided
    <3> QED
      BY <3>1, <3>2
  <2>3. Decided' = Decided
    BY DEF Decided
  <2>4. asked' # {} => asked' = {Decided}
    <3>1. CASE asked' = asked
      BY <3>1 DEF TierIsDecided
    <3>2. CASE asked' = asked \cup {tier} /\ name \in ModelCalls
      BY <2>2, <3>2 DEF TierIsDecided
    <3> QED
      BY <3>1, <3>2
  <2> QED
    BY <2>1, <2>2, <2>3, <2>4 DEF TierIsDecided
<1> QED
  BY <1>1, <1>3, <1>4, <1>c, <1>5, <1>6

\* The router's step writes the decision, or hands back the one there is.
LEMMA RouteStep ==
  ASSUME TierInv, RouteTurn
  PROVE  TierInv'
<1> USE DEF TierInv
<1>1. PICK out \in IF IsFresh THEN Decisions(input[turn], digest) ELSE {Output("standard")} :
        Journaled("route", out) /\ tier' = out
  BY DEF RouteTurn
<1>2. /\ live /\ pc = "route" /\ pc' = "logRoute"
      /\ UNCHANGED <<turn, status, input, config, live, routes, asked>>
  BY DEF RouteTurn, At, frame, world
<1>3. /\ JournalOK' /\ pos' = pos + 1 /\ Len(journal) \in Nat /\ Len(journal') \in Nat
      /\ Len(journal) <= Len(journal')
      /\ \A i \in 1 .. Len(journal) : journal'[i] = journal[i]
      /\ \A i \in 1 .. Len(journal') : i \in 1 .. Len(journal) \/ i = pos'
      /\ IsFresh => Len(journal) = pos
      /\ pos' \in 1 .. Len(journal') /\ journal'[pos'].step = "route" /\ journal'[pos'].out = out
  BY <1>1, JournaledStep
<1>4. pos \in Nat /\ pos <= Len(journal) /\ \A i \in 1 .. pos : ~RouteAt(i) /\ ~ModelAt(i)
  BY <1>2 DEF JournalOK, OneDecision, CallsBehind, BeforeRoute
<1>5. ~IsFresh => journal' = journal
  BY <1>1 DEF Journaled
<1>6. /\ turn # 0 /\ out \in Tiers /\ out \in RolledOut
      /\ Quoted(input[turn]) => out = "standard"
  <2>1. turn # 0
    BY <1>2 DEF TierOK
  <2>2. CASE IsFresh
    <3>1. out \in Decisions(input[turn], digest)
      BY <1>1, <2>2
    <3>2. \A t \in Tiers : Rollout(t) \in Tiers /\ Rollout(t) \in RolledOut
      BY DEF TierOK, Rollout, RolledOut, Tiers
    <3>3. \A a \in Answers : DecideTier(a[1], a[2]) \in Tiers
      BY DEF DecideTier, Tiers
    <3>4. "standard" \in Tiers /\ "standard" \in RolledOut
      BY DEF Tiers, RolledOut
    <3>5. CASE PreRouted(input[turn], digest)
      BY <2>1, <3>1, <3>4, <3>5 DEF Decisions
    <3>6. CASE ~PreRouted(input[turn], digest)
      <4>1. ~Quoted(input[turn])
        BY <3>6 DEF PreRouted
      <4>2. out = "standard" \/ \E a \in Answers : out = Rollout(DecideTier(a[1], a[2]))
        BY <3>1, <3>6 DEF Decisions
      <4> QED
        BY <2>1, <3>2, <3>3, <3>4, <4>1, <4>2
    <3> QED
      BY <3>5, <3>6
  <2>3. CASE ~IsFresh
    <3>1. pos + 1 \in 1 .. Len(journal) /\ RouteAt(pos + 1) /\ journal[pos + 1].out = out
      BY <1>1, <1>3, <1>4, <2>3 DEF IsFresh, Journaled, RouteAt
    <3> QED
      BY <2>1, <3>1 DEF OneDecision
  <2> QED
    BY <2>2, <2>3
<1>7. TierOK'
  BY <1>1, <1>2, <1>6 DEF TierOK
<1>8. OneDecision'
  <2>1. pc' \notin BeforeRoute
    BY <1>2 DEF BeforeRoute
  <2>2. CASE ~IsFresh
    BY <1>2, <1>5, <2>1, <2>2 DEF OneDecision, RouteAt
  <2>3. CASE IsFresh
    <3>1. \A i \in 1 .. Len(journal') : RouteAt(i)' => i = pos'
      BY <1>3, <1>4, <2>3 DEF RouteAt
    <3> QED
      BY <1>2, <1>3, <1>6, <2>1, <3>1 DEF OneDecision
  <2> QED
    BY <2>2, <2>3
<1>c. CallsBehind'
  <2>1. \A i \in 1 .. pos' : ~ModelAt(i)'
    <3>1. \A i \in 1 .. pos' : i = pos' \/ (i \in 1 .. pos /\ i \in 1 .. Len(journal))
      BY <1>3, <1>4
    <3> QED
      BY <1>3, <1>4, <3>1 DEF ModelAt, ModelCalls
  <2>2. CASE ~IsFresh
    <3>1. journal' = journal
      BY <1>5, <2>2
    <3> QED
      BY <1>2, <2>1, <3>1 DEF CallsBehind, RouteAt, ModelAt
  <2>3. CASE IsFresh
    <3>1. \A i \in 1 .. Len(journal') : ~ModelAt(i)'
      BY <1>3, <1>4, <2>1, <2>3
    <3>2. asked = {}
      BY <1>3, <1>4, <2>3 DEF CallsBehind
    <3> QED
      BY <1>2, <2>1, <3>1, <3>2 DEF CallsBehind
  <2> QED
    BY <2>2, <2>3
<1>9. LogAgrees'
  <2>1. \A i \in 1 .. Len(journal) : i \in 1 .. Len(journal') /\ journal'[i] = journal[i]
    BY <1>3
  <2>2. \A i \in 1 .. Len(journal') :
          journal'[i].step = "logRoute" => i \in 1 .. Len(journal) /\ journal[i].step = "logRoute"
    BY <1>3, <1>5
  <2> QED
    BY <1>2, <2>1, <2>2 DEF LogAgrees, RouteAt
<1>10. TierIsDecided'
  <2>1. \E i \in 1 .. pos' : journal'[i].step = "route" /\ journal'[i].out = tier'
    BY <1>1, <1>3, <1>4
  <2> QED
    BY <1>2, <2>1 DEF TierIsDecided, Decided, Asking, RouteAt
<1> QED
  BY <1>3, <1>7, <1>8, <1>c, <1>9, <1>10

\* The log takes the decision, or has it already.
LEMMA LogRouteStep ==
  ASSUME TierInv, LogRoute
  PROVE  TierInv'
<1> USE DEF TierInv
<1>1. /\ live /\ pc = "logRoute" /\ pc' = "model" /\ Journaled("logRoute", TRUE)
      /\ routes' = IF IsFresh /\ routes[turn] = "none" THEN [routes EXCEPT ![turn] = tier] ELSE routes
      /\ UNCHANGED <<turn, status, input, config, live, tier, asked>>
  BY DEF LogRoute, At, frame
<1>2. /\ JournalOK' /\ pos' = pos + 1 /\ Len(journal) \in Nat /\ Len(journal') \in Nat
      /\ Len(journal) <= Len(journal')
      /\ \A i \in 1 .. Len(journal) : journal'[i] = journal[i]
      /\ \A i \in 1 .. Len(journal') : i \in 1 .. Len(journal) \/ i = pos'
      /\ IsFresh => Len(journal) = pos
      /\ pos' \in 1 .. Len(journal') /\ journal'[pos'].step = "logRoute"
  BY <1>1, JournaledStep
<1>3. pos \in Nat /\ pos <= Len(journal)
  BY DEF JournalOK
<1>4. /\ turn \in Turns /\ turn # 0 /\ turn \in Nat /\ tier \in Tiers /\ tier # "none"
      /\ routes \in [Turns -> Tiers \cup {"none"}]
  BY <1>1, TurnConstants DEF TierOK, Turns, Tiers
<1>5. /\ routes'[turn] # "none"
      /\ routes[turn] # "none" => routes' = routes
      /\ routes' = routes \/ routes' = [routes EXCEPT ![turn] = tier]
      /\ routes[turn] = "none" => routes'[turn] = tier
  <2>1. CASE IsFresh
    BY <1>1, <1>4, <2>1
  <2>2. CASE ~IsFresh
    <3>1. pos + 1 \in 1 .. Len(journal) /\ journal[pos + 1].step = "logRoute"
      BY <1>1, <1>2, <1>3, <2>2 DEF Journaled, IsFresh
    <3>2. routes[turn] # "none"
      BY <3>1 DEF LogAgrees
    <3> QED
      BY <1>1, <2>2, <3>2
  <2> QED
    BY <2>1, <2>2
<1>6. TierOK'
  <2>1. routes' \in [Turns -> Tiers \cup {"none"}]
    BY <1>4, <1>5
  <2>2. \A t \in Turns : t > turn => routes'[t] = routes[t]
    BY <1>4, <1>5
  <2> QED
    BY <1>1, <2>1, <2>2 DEF TierOK
<1>7. \A i \in 1 .. Len(journal') : RouteAt(i)' => i \in 1 .. Len(journal) /\ RouteAt(i)
  BY <1>2 DEF RouteAt
<1>8. OneDecision'
  <2>1. pc' \notin BeforeRoute
    BY <1>1 DEF BeforeRoute
  <2>2. \A i \in 1 .. Len(journal) : journal'[i].out = journal[i].out
    BY <1>2
  <2> QED
    BY <1>1, <1>7, <2>1, <2>2 DEF OneDecision
<1>c. CallsBehind'
  <2>1. \A i \in 1 .. Len(journal') : ModelAt(i)' => i \in 1 .. Len(journal) /\ ModelAt(i)
    BY <1>2 DEF ModelAt, ModelCalls
  <2>2. \A i \in 1 .. Len(journal) : i \in 1 .. Len(journal') /\ (ModelAt(i) => ModelAt(i)')
    BY <1>2 DEF ModelAt
  <2>3. pc' \notin BeforeRoute \cup {"logRoute"}
    BY <1>1 DEF BeforeRoute
  <2> QED
    BY <1>1, <1>7, <2>1, <2>2, <2>3 DEF CallsBehind
<1>9. routes'[turn] = tier
  <2>1. PICK i \in 1 .. pos : RouteAt(i) /\ journal[i].out = tier
    BY <1>1 DEF TierIsDecided
  <2>2. CASE routes[turn] # "none"
    <3>1. PICK j \in 1 .. Len(journal) : RouteAt(j) /\ journal[j].out = routes[turn]
      BY <1>4, <2>2 DEF LogAgrees
    <3>2. i = j
      BY <1>2, <1>3, <2>1, <3>1 DEF OneDecision
    <3> QED
      BY <1>5, <2>1, <2>2, <3>1, <3>2
  <2> QED
    BY <1>5, <2>2
<1>10. LogAgrees'
  <2>1. PICK i \in 1 .. Len(journal) : RouteAt(i) /\ journal[i].out = routes'[turn]
    <3>1. CASE routes[turn] # "none"
      BY <1>4, <1>5, <3>1 DEF LogAgrees
    <3>2. CASE routes[turn] = "none"
      <4>1. PICK i \in 1 .. pos : RouteAt(i) /\ journal[i].out = tier
        BY <1>1 DEF TierIsDecided
      <4> QED
        BY <1>2, <1>3, <1>5, <3>2, <4>1
    <3> QED
      BY <3>1, <3>2
  <2>2. i \in 1 .. Len(journal') /\ journal'[i] = journal[i]
    BY <1>2
  <2> QED
    BY <1>1, <1>4, <1>5, <2>1, <2>2 DEF LogAgrees, RouteAt
<1>11. TierIsDecided'
  <2>1. routes[turn] = "none" => asked = {} \/ routes' = routes
    <3>1. CASE IsFresh
      <4>1. \A i \in 1 .. Len(journal) : ~ModelAt(i)
        BY <1>1, <1>2, <3>1 DEF CallsBehind
      <4> QED
        BY <4>1 DEF CallsBehind
    <3>2. CASE ~IsFresh
      BY <1>1, <3>2
    <3> QED
      BY <3>1, <3>2
  <2>2. asked # {} => Decided' = Decided
    <3>1. CASE routes' = routes
      BY <1>1, <3>1 DEF Decided
    <3>2. CASE routes' # routes
      BY <1>5, <2>1, <3>2
    <3> QED
      BY <3>1, <3>2
  <2>3. Decided' = tier
    BY <1>1, <1>4, <1>9 DEF Decided
  <2> QED
    BY <1>1, <1>4, <2>2, <2>3 DEF TierIsDecided
<1> QED
  BY <1>2, <1>6, <1>8, <1>c, <1>10, <1>11

-----------------------------------------------------------------------------
(* The workflow.                                                           *)

\* Starting a turn, crashing and relaunching put the program at its first step.
LEMMA FrameSteps ==
  ASSUME TierInv, (\E b \in Batches : StartTurn(b)) \/ Finish \/ Crash \/ Relaunch \/ Expire
                  \/ ModelThrows \/ ToolThrows \/ CompactionThrows
  PROVE  TierInv'
<1> USE DEF TierInv
<1>1. ASSUME NEW b \in Batches, StartTurn(b) PROVE TierInv'
  <2>1. /\ turn' = turn + 1 /\ turn < NTurns /\ journal' = <<>> /\ pos' = 0 /\ pc' = "load"
        /\ tier' = "standard" /\ asked' = {} /\ UNCHANGED <<routes, config>>
    BY <1>1 DEF StartTurn, ProgramStart, world
  <2>2. /\ turn' \in 0 .. NTurns /\ turn' \in Turns /\ turn' # 0 /\ routes'[turn'] = "none"
        /\ \A t \in Turns : t > turn' => routes'[t] = "none"
    BY <2>1, TurnConstants DEF TierOK, Turns
  <2>3. TierOK'
    BY <2>1, <2>2 DEF TierOK, Tiers
  <2>4. JournalOK'
    BY <2>1 DEF JournalOK
  <2>5. OneDecision' /\ CallsBehind' /\ LogAgrees' /\ TierIsDecided'
    BY <2>1, <2>2 DEF OneDecision, CallsBehind, LogAgrees, TierIsDecided, Asking
  <2> QED
    BY <2>3, <2>4, <2>5
<1>2. ASSUME Finish \/ Crash PROVE TierInv'
  <2>1. /\ pos' = 0 /\ pc' = "load" /\ tier' = "standard" /\ live' = FALSE
        /\ status' # "running" \/ status' = status
        /\ config' = config \/ config' \in Configs
        /\ UNCHANGED <<turn, input, journal, routes, asked>>
    BY <1>2 DEF Finish, Crash, ProgramStart, world
  <2>2. JournalOK'
    BY <2>1 DEF JournalOK
  <2>3. TierOK'
    BY <2>1 DEF TierOK, Tiers
  <2>4. OneDecision' /\ CallsBehind' /\ LogAgrees' /\ TierIsDecided'
    BY <2>1 DEF OneDecision, CallsBehind, LogAgrees, TierIsDecided, Decided, Asking, RouteAt, ModelAt
  <2> QED
    BY <2>2, <2>3, <2>4
<1>3. ASSUME Relaunch \/ Expire \/ ModelThrows \/ ToolThrows \/ CompactionThrows PROVE TierInv'
  <2>1. /\ UNCHANGED <<turn, input, journal, config, routes, pc, pos, tier, asked>>
        /\ live' \/ status' = "running" => live \/ status = "running"
    BY <1>3 DEF Relaunch, Expire, ModelThrows, ToolThrows, CompactionThrows, Throws, world, program
  <2>2. JournalOK' /\ TierOK'
    BY <2>1 DEF JournalOK, TierOK
  <2>3. OneDecision' /\ CallsBehind' /\ LogAgrees' /\ TierIsDecided'
    BY <2>1 DEF OneDecision, CallsBehind, LogAgrees, TierIsDecided, Decided, RouteAt, ModelAt
  <2> QED
    BY <2>2, <2>3
<1> QED
  BY <1>1, <1>2, <1>3

\* The steps of the workflow, each with its name in the journal.
LEMMA WorkflowSteps ==
  ASSUME TierInv, Step, ~Finish
  PROVE  TierInv'
<1> USE DEF At, frame, world, BeforeRoute, Asking, ModelCalls
<1>1. CASE Load
  BY <1>1, PlainStep DEF Load
<1>2. CASE ResolveApproval
  BY <1>2, PlainStep DEF ResolveApproval
<1>3. CASE ReadDigest
  BY <1>3, PlainStep DEF ReadDigest
<1>4. CASE Classify
  BY <1>4, PlainStep DEF Classify
<1>5. CASE RouteTurn
  BY <1>5, RouteStep
<1>6. CASE LogRoute
  BY <1>6, LogRouteStep
<1>7. CASE CallModel
  BY <1>7, PlainStep DEF CallModel, AskedModel, AskNow
<1>8. CASE RunTool
  BY <1>8, PlainStep DEF RunTool, AfterTools
<1>9. CASE FinalAnswer
  BY <1>9, PlainStep DEF FinalAnswer, AskedModel
<1>10. CASE Persist
  BY <1>10, PlainStep DEF Persist
<1>11. CASE Summarize
  BY <1>11, PlainStep DEF Summarize
<1>12. CASE WriteMemory
  BY <1>12, PlainStep DEF WriteMemory
<1>13. CASE WriteCompactionLog
  BY <1>13, PlainStep DEF WriteCompactionLog
<1>14. CASE Truncate
  BY <1>14, PlainStep DEF Truncate
<1> QED
  BY <1>1, <1>2, <1>3, <1>4, <1>5, <1>6, <1>7, <1>8, <1>9, <1>10, <1>11, <1>12,
     <1>13, <1>14 DEF Step

\* The invariant is inductive.
LEMMA TierStays == TierInv /\ [Next]_vars => TierInv'
<1> SUFFICES ASSUME TierInv, [Next]_vars PROVE TierInv'
  OBVIOUS
<1>1. CASE UNCHANGED vars
  BY <1>1 DEF vars, world, program, TierInv, JournalOK, TierOK, OneDecision, CallsBehind,
              LogAgrees, TierIsDecided, Decided, RouteAt, ModelAt
<1>2. CASE Next
  BY <1>2, FrameSteps, WorkflowSteps DEF Next
<1> QED
  BY <1>1, <1>2

\* A turn runs on one tier, however the processes that run it are configured:
\* the one in the log, or the standard one; and on the standard one where code
\* decides (src/agent/handle-turn.ts, route-turn.ts).
THEOREM OneTierHolds == Spec => []OneTier
<1>1. TierInv => OneTier
  <2> SUFFICES ASSUME TierInv, asked # {}
               PROVE  /\ asked = {Decided} /\ asked \subseteq RolledOut
                      /\ Quoted(input[turn]) => asked = {"standard"}
    BY DEF OneTier
  <2> USE DEF TierInv
  <2>1. turn # 0 /\ asked = {Decided}
    BY DEF TierIsDecided
  <2>2. CASE routes[turn] = "none"
    BY <2>1, <2>2 DEF Decided, RolledOut
  <2>3. CASE routes[turn] # "none"
    <3>1. PICK i \in 1 .. Len(journal) : RouteAt(i) /\ journal[i].out = routes[turn]
      BY <2>1, <2>3 DEF LogAgrees
    <3>2. routes[turn] \in RolledOut /\ (Quoted(input[turn]) => routes[turn] = "standard")
      BY <3>1 DEF OneDecision
    <3> QED
      BY <2>1, <2>3, <3>2 DEF Decided
  <2> QED
    BY <2>2, <2>3
<1> QED
  BY <1>1, TierStarts, TierStays, PTL DEF Spec

-----------------------------------------------------------------------------
(* Replay.  Between two entries of the journal the program is a function   *)
(* of what it was and of what the step returned: so the journal, read from *)
(* the start, says where a run of the turn has been and will be again.     *)

Now == [pc |-> pc, digest |-> digest, msgs |-> msgs, due |-> due, parked |-> parked,
        rounds |-> rounds, tier |-> tier]

Start == [pc |-> "load", digest |-> {}, msgs |-> <<>>, due |-> <<>>, parked |-> <<>>,
          rounds |-> 0, tier |-> "standard"]

\* Where the journal has a call of the model and no router before it, the
\* program called the model behind its settlements.
Acting(st, name) ==
  [pc |-> IF st.pc = "route" /\ name = "callModel" THEN "model" ELSE st.pc,
   digest |-> st.digest, msgs |-> st.msgs, due |-> st.due, parked |-> st.parked,
   rounds |-> st.rounds, tier |-> st.tier]

Updated(s, out, t) == IF Silent(out) THEN s ELSE Append(s, Update(t))

Refined(out) == out # <<>> /\ out[2] = "refined"

Waiting(st, call) == IF call[4] = "confirm" THEN Append(st.parked, call) ELSE st.parked

\* Where the program goes, and what it makes of its transcript, in turn t with batch b.
NextPc(st, out, t, b) ==
  CASE st.pc = "load"      -> IF Quoted(b) THEN "resolve" ELSE "digest"
    [] st.pc = "resolve"   -> "digest"
    [] st.pc = "digest"    -> IF HasText(b) /\ Last(st.msgs).about[4] # "update"
                                 /\ Meant(st.digest, out) # {}
                              THEN "classify" ELSE "route"
    [] st.pc = "redigest"  -> "route"
    [] st.pc = "classify"  -> IF Refined(out) THEN "persist"
                              ELSE IF out = <<>> THEN "route" ELSE "redigest"
    [] st.pc = "route"     -> "logRoute"
    [] st.pc = "logRoute"  -> "model"
    [] st.pc = "model"     -> IF out = <<>> THEN "persist" ELSE "tool"
    [] st.pc = "tool"      -> IF Tail(st.due) # <<>> THEN "tool"
                              ELSE IF Waiting(st, out) # <<>> THEN "persist"
                              ELSE IF st.rounds = MaxRounds THEN "final" ELSE "model"
    [] st.pc = "final"     -> "persist"
    [] st.pc = "persist"   -> IF Last(st.msgs).about[4] # "reprompt" /\ Compacts(st.msgs)
                              THEN "summarize" ELSE "end"
    [] st.pc = "summarize" -> "embed"
    [] st.pc = "embed"     -> "remember"
    [] st.pc = "remember"  -> "log"
    [] st.pc = "log"       -> "truncate"
    [] OTHER               -> "end"

NextMsgs(st, out, t, b) ==
  CASE st.pc = "load"     -> out \o BatchMessages(t, b)
    [] st.pc = "resolve"  -> Updated(st.msgs, out, t)
    [] st.pc = "classify" -> IF Refined(out) THEN Append(st.msgs, Reprompt(t)) ELSE Updated(st.msgs, out, t)
    [] st.pc = "model"    -> Append(st.msgs, Answer(t, st.rounds + 1, CallsOf(t, st.rounds + 1, out)))
    [] st.pc = "tool"     -> IF Tail(st.due) # <<>> THEN Append(st.msgs, Result(out))
                             ELSE Append(st.msgs, Result(out)) \o Prompts(Waiting(st, out))
    [] st.pc = "final"    -> Append(st.msgs, Answer(t, st.rounds + 1, <<>>))
    [] OTHER              -> st.msgs

NextDigest(st, out, b) ==
  CASE st.pc = "resolve"  -> BoundBy(out)
    [] st.pc = "digest"   -> IF HasText(b) /\ Last(st.msgs).about[4] # "update"
                                /\ Meant(st.digest, out) # {}
                             THEN Meant(st.digest, out) ELSE out
    [] st.pc = "redigest" -> out
    [] OTHER              -> st.digest

After(st, out, t, b) ==
  [pc     |-> NextPc(st, out, t, b),
   digest |-> NextDigest(st, out, b),
   msgs   |-> NextMsgs(st, out, t, b),
   due    |-> IF st.pc = "model" THEN CallsOf(t, st.rounds + 1, out)
              ELSE IF st.pc = "tool" THEN Tail(st.due) ELSE st.due,
   parked |-> IF st.pc = "tool" THEN Waiting(st, out) ELSE st.parked,
   rounds |-> IF st.pc = "model" THEN st.rounds + 1 ELSE st.rounds,
   tier   |-> IF st.pc = "route" THEN out ELSE st.tier]

Path(S, j, t, b) ==
  /\ S[0] = Start
  /\ \A i \in 1 .. Len(j) :
       S[i - 1].pc # "end" /\ S[i] = After(Acting(S[i - 1], j[i].step), j[i].out, t, b)

\* A step at the end of the journal goes on with the path, and one before it finds
\* itself on it.
LEMMA PathGoesOn ==
  ASSUME NEW S, Path(S, journal, turn, input[turn]), Now = S[pos], JournalOK, NEW name, NEW out,
         Journaled(name, out), pc # "end", Now' = After(Acting(Now, name), out, turn, input[turn]),
         UNCHANGED <<turn, input>>
  PROVE  \E R : /\ Path(R, journal', turn', input'[turn']) /\ Now' = R[pos']
                /\ \A i \in 0 .. Len(journal) : R[i] = S[i]
                /\ \/ ~IsFresh /\ journal' = journal
                   \/ IsFresh /\ Len(journal') = Len(journal) + 1 /\ R[Len(journal')] = Now'
<1>1. /\ JournalOK' /\ pos' = pos + 1 /\ Len(journal) \in Nat /\ Len(journal') \in Nat
      /\ \A i \in 1 .. Len(journal) : journal'[i] = journal[i]
      /\ \A i \in 1 .. Len(journal') : i \in 1 .. Len(journal) \/ i = pos'
      /\ IsFresh => Len(journal) = pos
      /\ pos' \in 1 .. Len(journal') /\ journal'[pos'].step = name /\ journal'[pos'].out = out
  BY JournaledStep
<1>2. pos \in Nat /\ pos <= Len(journal)
  BY DEF JournalOK
<1>3. CASE ~IsFresh
  <2>1. journal' = journal
    BY <1>3 DEF Journaled
  <2>2. Now' = S[pos']
    BY <1>1, <1>2, <2>1 DEF Path
  <2> QED
    BY <1>3, <2>1, <2>2
<1>4. CASE IsFresh
  <2> DEFINE R == [i \in 0 .. Len(journal') |-> IF i = pos' THEN Now' ELSE S[i]]
  <2>1. Len(journal') = Len(journal) + 1 /\ pos = Len(journal) /\ pos' = Len(journal')
    BY <1>1, <1>2, <1>4
  <2>2. \A i \in 0 .. Len(journal) : R[i] = S[i]
    BY <1>1, <2>1
  <2>3. R[pos'] = Now'
    BY <1>1, <2>1
  <2> HIDE DEF R
  <2>4. Path(R, journal', turn, input[turn])
    <3>1. R[0] = Start
      BY <1>1, <2>2 DEF Path
    <3>2. ASSUME NEW i \in 1 .. Len(journal')
          PROVE  /\ R[i - 1].pc # "end"
                 /\ R[i] = After(Acting(R[i - 1], journal'[i].step), journal'[i].out, turn, input[turn])
      <4>1. CASE i \in 1 .. Len(journal)
        <5>1. R[i] = S[i] /\ R[i - 1] = S[i - 1] /\ journal'[i] = journal[i]
          BY <1>1, <2>2, <4>1
        <5> QED
          BY <4>1, <5>1 DEF Path
      <4>2. CASE i = pos'
        <5>1. R[i - 1] = Now /\ R[i] = Now' /\ journal'[i].step = name /\ journal'[i].out = out
          BY <1>1, <1>2, <2>1, <2>2, <2>3, <4>2
        <5>2. Now.pc = pc
          BY DEF Now
        <5> QED
          BY <5>1, <5>2
      <4> QED
        BY <1>1, <4>1, <4>2
    <3> QED
      BY <3>1, <3>2 DEF Path
  <2> QED
    BY <1>4, <2>1, <2>2, <2>3, <2>4
<1> QED
  BY <1>3, <1>4

-----------------------------------------------------------------------------
(* Transcripts that grow: r is s with x behind it.                         *)

\* What a message may be about; subjects, and messages.
Whats    == {"item", "summary", "update", "reprompt", "answer"} \cup Kinds
Subjects == Nat \X Nat \X Nat \X Whats
Message  == [role : {"user", "assistant", "tool"}, about : Subjects, calls : Seq(Subjects)]

Grown(s, x, r) ==
  /\ s \in Seq(Message) /\ x \in Seq(Message) /\ r \in Seq(Message)
  /\ Len(r) = Len(s) + Len(x)
  /\ \A i \in 1 .. Len(s) : r[i] = s[i]
  /\ \A k \in 1 .. Len(x) : r[Len(s) + k] = x[k]

\* Runs of messages that no member wrote.
NoLongRun(s) ==
  \A i, j \in 0 .. Len(s) : i <= j /\ (\A k \in i + 1 .. j : s[k].role # "user") => j - i <= LongestRun

\* A member's message is at most n behind the end, k messages from now.
Trails(s, k, n) == \E u \in 1 .. Len(s) : s[u].role = "user" /\ Len(s) + k <= u + n

\* The messages of turn t have one place each.
OwnOnce(s, t) == \A i, j \in 1 .. Len(s) : s[i].about[1] = t /\ s[i] = s[j] => i = j

\* What will answer the calls.
Results(calls) == [k \in DOMAIN calls |-> Result(calls[k])]

\* A concatenation grows.
LEMMA Concatenated ==
  ASSUME NEW s \in Seq(Message), NEW x \in Seq(Message)
  PROVE  Grown(s, x, s \o x)
<1> DEFINE M == Message
<1>1. s \in Seq(M) /\ x \in Seq(M)
  OBVIOUS
<1> HIDE DEF M
<1>2. /\ s \o x \in Seq(M) /\ Len(s \o x) = Len(s) + Len(x)
      /\ \A i \in 1 .. Len(s \o x) : (s \o x)[i] = IF i <= Len(s) THEN s[i] ELSE x[i - Len(s)]
  BY <1>1, ConcatProperties
<1>3. \A i \in 1 .. Len(s) : (s \o x)[i] = s[i]
  BY <1>1, <1>2
<1>4. \A k \in 1 .. Len(x) : (s \o x)[Len(s) + k] = x[k]
  BY <1>1, <1>2
<1> QED
  BY <1>2, <1>3, <1>4 DEF Grown, M

\* What was there keeps its place, and what is new comes behind it.
LEMMA InFront ==
  ASSUME NEW s, NEW x, NEW r, Grown(s, x, r)
  PROVE  /\ Len(s) \in Nat /\ Len(x) \in Nat /\ Len(r) \in Nat /\ Len(r) = Len(s) + Len(x)
         /\ DOMAIN s = 1 .. Len(s) /\ DOMAIN x = 1 .. Len(x) /\ DOMAIN r = 1 .. Len(r)
         /\ \A i \in 1 .. Len(s) : i \in 1 .. Len(r) /\ r[i] = s[i]
         /\ \A k \in 1 .. Len(x) : Len(s) + k \in 1 .. Len(r) /\ r[Len(s) + k] = x[k]
         /\ \A i \in 1 .. Len(r) : i \in 1 .. Len(s) \/ \E k \in 1 .. Len(x) : i = Len(s) + k
<1>1. /\ Len(s) \in Nat /\ Len(x) \in Nat /\ Len(r) \in Nat /\ Len(r) = Len(s) + Len(x)
      /\ DOMAIN s = 1 .. Len(s) /\ DOMAIN x = 1 .. Len(x) /\ DOMAIN r = 1 .. Len(r)
  BY DEF Grown
<1>2. /\ \A i \in 1 .. Len(s) : r[i] = s[i]
      /\ \A k \in 1 .. Len(x) : r[Len(s) + k] = x[k]
  BY DEF Grown
<1>3. ASSUME NEW i \in 1 .. Len(r), i \notin 1 .. Len(s)
      PROVE  \E k \in 1 .. Len(x) : i = Len(s) + k
  <2>1. i - Len(s) \in 1 .. Len(x) /\ i = Len(s) + (i - Len(s))
    BY <1>1, <1>3
  <2> QED
    BY <2>1
<1>4. /\ \A i \in 1 .. Len(s) : i \in 1 .. Len(r)
      /\ \A k \in 1 .. Len(x) : Len(s) + k \in 1 .. Len(r)
  BY <1>1
<1> QED
  BY <1>1, <1>2, <1>3, <1>4

\* A transcript that has grown tells what it told and what was added.
LEMMA AllOf ==
  ASSUME NEW s, NEW x, NEW r, Grown(s, x, r)
  PROVE  ToSet(r) = ToSet(s) \cup ToSet(x)
<1>1. /\ DOMAIN s = 1 .. Len(s) /\ DOMAIN x = 1 .. Len(x) /\ DOMAIN r = 1 .. Len(r)
  BY InFront
<1>2. /\ \A i \in 1 .. Len(r) : i \in 1 .. Len(s) \/ \E k \in 1 .. Len(x) : i = Len(s) + k
      /\ \A i \in 1 .. Len(s) : i \in 1 .. Len(r) /\ r[i] = s[i]
      /\ \A k \in 1 .. Len(x) : Len(s) + k \in 1 .. Len(r) /\ r[Len(s) + k] = x[k]
  <2>1. \A i \in 1 .. Len(r) : i \in 1 .. Len(s) \/ \E k \in 1 .. Len(x) : i = Len(s) + k
    BY InFront
  <2>2. \A i \in 1 .. Len(s) : i \in 1 .. Len(r) /\ r[i] = s[i]
    BY InFront
  <2>3. \A k \in 1 .. Len(x) : Len(s) + k \in 1 .. Len(r) /\ r[Len(s) + k] = x[k]
    BY InFront
  <2> QED
    BY ONLY <2>1, <2>2, <2>3
<1>3. ToSet(s) = {s[i] : i \in 1 .. Len(s)} /\ ToSet(x) = {x[i] : i \in 1 .. Len(x)}
      /\ ToSet(r) = {r[i] : i \in 1 .. Len(r)}
  BY <1>1 DEF ToSet
<1>4. \A m \in ToSet(s) : m \in ToSet(r)
  BY ONLY <1>2, <1>3
<1>5. \A m \in ToSet(x) : m \in ToSet(r)
  BY ONLY <1>2, <1>3
<1>6. ASSUME NEW m \in ToSet(r) PROVE m \in ToSet(s) \/ m \in ToSet(x)
  <2>1. PICK i \in 1 .. Len(r) : m = r[i]
    BY ONLY <1>3, <1>6
  <2>2. CASE i \in 1 .. Len(s)
    BY ONLY <1>2, <1>3, <2>1, <2>2
  <2>3. CASE i \notin 1 .. Len(s)
    <3>1. PICK k \in 1 .. Len(x) : i = Len(s) + k
      BY ONLY <1>2, <2>1, <2>3
    <3>2. m = x[k]
      BY ONLY <1>2, <2>1, <3>1
    <3> QED
      BY ONLY <1>3, <3>2
  <2> QED
    BY ONLY <2>2, <2>3
<1> QED
  BY ONLY <1>4, <1>5, <1>6

\* A run may grow while a member's message is near enough behind it.
LEMMA RunGrows ==
  ASSUME NEW s, NEW x, NEW r, Grown(s, x, r), NoLongRun(s), NEW k \in Nat, NEW n \in Nat,
         Trails(s, Len(x) + k, n), n <= LongestRun, LongestRun \in Nat
  PROVE  NoLongRun(r) /\ Trails(r, k, n)
<1>1. /\ Len(s) \in Nat /\ Len(x) \in Nat /\ Len(r) \in Nat /\ Len(r) = Len(s) + Len(x)
      /\ \A i \in 1 .. Len(s) : r[i] = s[i]
  BY InFront
<1>2. PICK u \in 1 .. Len(s) : s[u].role = "user" /\ Len(s) + (Len(x) + k) <= u + n
  BY DEF Trails
<1>3. u \in 1 .. Len(r) /\ r[u].role = "user" /\ Len(r) + k <= u + n
  BY <1>1, <1>2
<1>4. ASSUME NEW i \in 0 .. Len(r), NEW j \in 0 .. Len(r), i <= j,
             \A m \in i + 1 .. j : r[m].role # "user"
      PROVE  j - i <= LongestRun
  <2>1. CASE j <= Len(s)
    <3>1. \A m \in i + 1 .. j : s[m].role # "user"
      BY <1>1, <1>4, <2>1
    <3>2. i \in 0 .. Len(s) /\ j \in 0 .. Len(s)
      BY <1>1, <1>4, <2>1
    <3>3. \A k1, k2 \in 0 .. Len(s) :
            k1 <= k2 /\ (\A m \in k1 + 1 .. k2 : s[m].role # "user") => k2 - k1 <= LongestRun
      BY DEF NoLongRun
    <3> QED
      BY ONLY <1>4, <3>1, <3>2, <3>3
  <2>2. CASE j > Len(s)
    <3>1. u <= i
      BY <1>1, <1>2, <1>3, <1>4, <2>2
    <3> QED
      BY <1>1, <1>3, <1>4, <3>1
  <2> QED
    BY <1>1, <2>1, <2>2
<1> QED
  BY <1>3, <1>4 DEF NoLongRun, Trails

\* A member's message ends a run.
LEMMA UserEndsRun ==
  ASSUME NEW s, NEW x, NEW r, Grown(s, x, r), NoLongRun(s), LongestRun \in Nat,
         \A i \in 1 .. Len(x) : x[i].role = "user", x # <<>>
  PROVE  NoLongRun(r) /\ Trails(r, 0, 0)
<1>1. /\ Len(s) \in Nat /\ Len(x) \in Nat /\ Len(r) \in Nat /\ Len(r) = Len(s) + Len(x)
      /\ \A i \in 1 .. Len(s) : r[i] = s[i]
      /\ \A i \in 1 .. Len(x) : r[Len(s) + i] = x[i]
      /\ \A i \in 1 .. Len(r) : i \in 1 .. Len(s) \/ \E k \in 1 .. Len(x) : i = Len(s) + k
  BY InFront
<1>2. \A i \in 1 .. Len(r) : i \in 1 .. Len(s) \/ r[i].role = "user"
  BY <1>1
<1>3. Len(x) > 0
  BY <1>1 DEF Grown
<1>4. Len(r) \in 1 .. Len(r) /\ r[Len(r)].role = "user"
  BY <1>1, <1>2, <1>3
<1>5. ASSUME NEW i \in 0 .. Len(r), NEW j \in 0 .. Len(r), i <= j,
             \A m \in i + 1 .. j : r[m].role # "user"
      PROVE  j - i <= LongestRun
  <2>1. CASE j <= Len(s)
    <3>1. \A m \in i + 1 .. j : m \in 1 .. Len(s)
      BY <1>1, <2>1
    <3>2. \A m \in i + 1 .. j : s[m].role # "user"
      BY <1>1, <1>5, <3>1
    <3>3. i \in 0 .. Len(s) /\ j \in 0 .. Len(s)
      BY <1>1, <1>5, <2>1
    <3> QED
      BY <1>5, <3>2, <3>3 DEF NoLongRun
  <2>2. CASE j > Len(s)
    <3>1. j \in 1 .. Len(r) /\ j \notin 1 .. Len(s)
      BY <1>1, <2>2
    <3>2. r[j].role = "user"
      BY <1>2, <3>1
    <3>3. j \notin i + 1 .. j
      BY <1>5, <3>2
    <3>4. i = j
      BY <1>5, <3>3
    <3> QED
      BY <1>1, <1>5, <3>4
  <2> QED
    BY <1>1, <2>1, <2>2
<1> QED
  BY <1>4, <1>5 DEF NoLongRun, Trails

\* What is new and told once leaves the turn's messages told once.
LEMMA OnceGrows ==
  ASSUME NEW s, NEW x, NEW r, Grown(s, x, r), NEW t, OwnOnce(s, t),
         \A i, j \in 1 .. Len(x) : x[i] = x[j] => i = j,
         \A i \in 1 .. Len(x) : \A j \in 1 .. Len(s) : x[i] # s[j]
  PROVE  OwnOnce(r, t)
<1>1. /\ Len(s) \in Nat /\ Len(x) \in Nat
      /\ \A i \in 1 .. Len(s) : r[i] = s[i]
      /\ \A i \in 1 .. Len(x) : r[Len(s) + i] = x[i]
      /\ \A i \in 1 .. Len(r) : i \in 1 .. Len(s) \/ \E k \in 1 .. Len(x) : i = Len(s) + k
  BY InFront
<1> SUFFICES ASSUME NEW i \in 1 .. Len(r), NEW j \in 1 .. Len(r), r[i].about[1] = t, r[i] = r[j]
             PROVE  i = j
  BY DEF OwnOnce
<1>2. CASE i \in 1 .. Len(s) /\ j \in 1 .. Len(s)
  <2>1. r[i] = s[i] /\ r[j] = s[j]
    BY <1>1, <1>2
  <2> QED
    BY <1>2, <2>1 DEF OwnOnce
<1>3. ASSUME NEW k \in 1 .. Len(x), i = Len(s) + k PROVE i = j
  <2>1. r[i] = x[k]
    BY <1>1, <1>3
  <2>2. j \notin 1 .. Len(s)
    BY <1>1, <2>1
  <2>3. PICK m \in 1 .. Len(x) : j = Len(s) + m
    BY <1>1, <2>2
  <2>4. r[j] = x[m]
    BY <1>1, <2>3
  <2>5. k = m
    BY <2>1, <2>4
  <2> QED
    BY <1>3, <2>3, <2>5
<1>4. ASSUME NEW k \in 1 .. Len(x), j = Len(s) + k PROVE i = j
  <2>1. r[j] = x[k]
    BY <1>1, <1>4
  <2>2. i \notin 1 .. Len(s)
    BY <1>1, <2>1
  <2>3. PICK m \in 1 .. Len(x) : i = Len(s) + m
    BY <1>1, <2>2
  <2>4. r[i] = x[m]
    BY <1>1, <2>3
  <2>5. k = m
    BY <2>1, <2>4
  <2> QED
    BY <1>4, <2>3, <2>5
<1> QED
  BY <1>1, <1>2, <1>3, <1>4

Plain(x) == \A i \in 1 .. Len(x) : x[i].role # "tool" /\ x[i].calls = <<>>

\* Messages that neither call nor answer may stand anywhere behind.
LEMMA PlainBehind ==
  ASSUME NEW s, NEW x, NEW r, Grown(s, x, r), WellFormed(s), Plain(x)
  PROVE  WellFormed(r)
<1>1. /\ Len(s) \in Nat /\ Len(x) \in Nat /\ Len(r) \in Nat /\ Len(r) = Len(s) + Len(x)
      /\ DOMAIN s = 1 .. Len(s) /\ DOMAIN x = 1 .. Len(x) /\ DOMAIN r = 1 .. Len(r)
      /\ \A i \in 1 .. Len(s) : i \in 1 .. Len(r) /\ r[i] = s[i]
      /\ \A k \in 1 .. Len(x) : Len(s) + k \in 1 .. Len(r) /\ r[Len(s) + k] = x[k]
      /\ \A i \in 1 .. Len(r) : i \in 1 .. Len(s) \/ \E k \in 1 .. Len(x) : i = Len(s) + k
  BY InFront
<1> SUFFICES ASSUME NEW i \in 1 .. Len(r)
             PROVE  /\ \A k \in DOMAIN r[i].calls : i + k \in DOMAIN r /\ r[i + k] = Result(r[i].calls[k])
                    /\ r[i].role = "tool" =>
                         \E j \in 1 .. i - 1 : i - j \in DOMAIN r[j].calls /\ r[j].calls[i - j] = r[i].about
  BY <1>1 DEF WellFormed
<1>2. CASE i \in 1 .. Len(s)
  <2>1. /\ \A k \in DOMAIN s[i].calls : i + k \in 1 .. Len(s) /\ s[i + k] = Result(s[i].calls[k])
        /\ s[i].role = "tool" =>
             \E j \in 1 .. i - 1 : i - j \in DOMAIN s[j].calls /\ s[j].calls[i - j] = s[i].about
    BY <1>1, <1>2 DEF WellFormed
  <2>2. \A k \in DOMAIN r[i].calls : i + k \in DOMAIN r /\ r[i + k] = Result(r[i].calls[k])
    BY <1>1, <1>2, <2>1
  <2>3. \A j \in 1 .. i - 1 : r[j] = s[j]
    BY <1>1, <1>2
  <2> QED
    BY <1>1, <1>2, <2>1, <2>2, <2>3
<1>3. CASE i \notin 1 .. Len(s)
  <2>1. PICK k \in 1 .. Len(x) : i = Len(s) + k
    BY <1>1, <1>3
  <2>2. r[i].role # "tool" /\ r[i].calls = <<>>
    BY <1>1, <2>1 DEF Plain
  <2>3. DOMAIN r[i].calls = {}
    BY <2>2
  <2> QED
    BY <2>2, <2>3
<1> QED
  BY <1>2, <1>3

-----------------------------------------------------------------------------
(* The messages of a turn.                                                 *)

CallsIn(t) == {c \in Subjects : c[1] = t /\ c[4] \in Kinds}

\* The messages that speak for the turn as a whole.
LEMMA MembersMessages ==
  ASSUME NEW t \in Nat
  PROVE  /\ Update(t) \in Message /\ Summary(t) \in Message /\ Reprompt(t) \in Message
         /\ Update(t).role = "user" /\ Update(t).calls = <<>> /\ Update(t).about = <<t, 0, 0, "update">>
         /\ Summary(t).role = "user" /\ Summary(t).calls = <<>> /\ Summary(t).about = <<t, 0, 0, "summary">>
         /\ Reprompt(t).role = "assistant" /\ Reprompt(t).calls = <<>>
         /\ Reprompt(t).about = <<t, 0, 0, "reprompt">>
<1>1. /\ <<t, 0, 0, "update">> \in Subjects /\ <<t, 0, 0, "summary">> \in Subjects
      /\ <<t, 0, 0, "reprompt">> \in Subjects
  BY DEF Subjects, Whats
<1>2. <<>> \in Seq(Subjects)
  OBVIOUS
<1> HIDE DEF Subjects
<1> QED
  BY <1>1, <1>2 DEF Update, Summary, Reprompt, User, Assistant, Subject, Message

\* The result of a tool call, and the prompt for a parked one.
LEMMA CallsMessages ==
  ASSUME NEW c \in Subjects
  PROVE  /\ Result(c) \in Message /\ Result(c).role = "tool" /\ Result(c).calls = <<>> /\ Result(c).about = c
         /\ Prompt(c) \in Message /\ Prompt(c).role = "assistant" /\ Prompt(c).calls = <<>>
         /\ Prompt(c).about = c
<1>1. <<>> \in Seq(Subjects)
  OBVIOUS
<1> QED
  BY <1>1 DEF Result, Prompt, Assistant, Message

\* An answer of the model.
LEMMA AnswersMessage ==
  ASSUME NEW t \in Nat, NEW r \in Nat, NEW calls \in Seq(Subjects)
  PROVE  /\ Answer(t, r, calls) \in Message /\ Answer(t, r, calls).role = "assistant"
         /\ Answer(t, r, calls).calls = calls /\ Answer(t, r, calls).about = <<t, r, 0, "answer">>
<1>1. <<t, r, 0, "answer">> \in Subjects
  BY DEF Subjects, Whats
<1> HIDE DEF Subjects
<1> QED
  BY <1>1 DEF Answer, Assistant, Subject, Message

\* The messages of a batch: one for each item, in order (toModelMessages).
LEMMA BatchsMessages ==
  ASSUME NEW t \in Nat, NEW b \in Seq(Items)
  PROVE  /\ BatchMessages(t, b) \in Seq(Message) /\ Len(BatchMessages(t, b)) = Len(b)
         /\ \A i \in 1 .. Len(b) : /\ BatchMessages(t, b)[i].role = "user"
                                   /\ BatchMessages(t, b)[i].calls = <<>>
                                   /\ BatchMessages(t, b)[i].about = <<t, 0, i, "item">>
<1>1. <<>> \in Seq(Subjects)
  OBVIOUS
<1>2. ASSUME NEW i \in 1 .. Len(b) PROVE User(Subject(t, 0, i, "item")) \in Message
  <2>1. <<t, 0, i, "item">> \in Subjects
    BY DEF Subjects, Whats
  <2> HIDE DEF Subjects
  <2> QED
    BY <1>1, <2>1 DEF User, Subject, Message
<1>3. DOMAIN b = 1 .. Len(b) /\ Len(b) \in Nat
  OBVIOUS
<1>4. BatchMessages(t, b) = [i \in 1 .. Len(b) |-> User(Subject(t, 0, i, "item"))]
  BY <1>3 DEF BatchMessages
<1> HIDE DEF Message
<1>5. BatchMessages(t, b) \in Seq(Message) /\ Len(BatchMessages(t, b)) = Len(b)
  BY ONLY <1>2, <1>3, <1>4
<1>6. \A i \in 1 .. Len(b) : BatchMessages(t, b)[i] = User(Subject(t, 0, i, "item"))
  BY <1>4
<1>7. \A i \in 1 .. Len(b) :
        /\ User(Subject(t, 0, i, "item")).role = "user" /\ User(Subject(t, 0, i, "item")).calls = <<>>
        /\ User(Subject(t, 0, i, "item")).about = <<t, 0, i, "item">>
  BY ONLY DEF User, Subject
<1> QED
  BY ONLY <1>5, <1>6, <1>7

\* The tool calls of an answer: of its turn and its round, each at its place.
LEMMA CallsMade ==
  ASSUME NEW t \in Nat, NEW r \in Nat, NEW kinds \in Seq(Kinds)
  PROVE  /\ CallsOf(t, r, kinds) \in Seq(CallsIn(t)) /\ Len(CallsOf(t, r, kinds)) = Len(kinds)
         /\ \A k \in 1 .. Len(kinds) : CallsOf(t, r, kinds)[k] = <<t, r, k, kinds[k]>>
<1>1. DOMAIN kinds = 1 .. Len(kinds) /\ Len(kinds) \in Nat
  OBVIOUS
<1>2. ASSUME NEW k \in 1 .. Len(kinds) PROVE <<t, r, k, kinds[k]>> \in CallsIn(t)
  <2>1. kinds[k] \in Kinds
    OBVIOUS
  <2>2. <<t, r, k, kinds[k]>> \in Subjects
    BY <2>1 DEF Subjects, Whats
  <2> QED
    BY <2>1, <2>2 DEF CallsIn
<1>3. CallsOf(t, r, kinds) = [k \in 1 .. Len(kinds) |-> <<t, r, k, kinds[k]>>]
  BY <1>1 DEF CallsOf, Subject
<1> HIDE DEF CallsIn
<1>4. CallsOf(t, r, kinds) \in Seq(CallsIn(t)) /\ Len(CallsOf(t, r, kinds)) = Len(kinds)
  BY ONLY <1>1, <1>2, <1>3
<1> QED
  BY <1>3, <1>4

\* The results of some calls, and the prompts for them, one for each.
LEMMA ResultsMessages ==
  ASSUME NEW calls \in Seq(Subjects)
  PROVE  /\ Results(calls) \in Seq(Message) /\ Len(Results(calls)) = Len(calls)
         /\ Prompts(calls) \in Seq(Message) /\ Len(Prompts(calls)) = Len(calls)
         /\ \A k \in 1 .. Len(calls) : /\ calls[k] \in Subjects
                                       /\ Results(calls)[k] = Result(calls[k])
                                       /\ Prompts(calls)[k] = Prompt(calls[k])
<1>1. DOMAIN calls = 1 .. Len(calls) /\ Len(calls) \in Nat /\ \A k \in 1 .. Len(calls) : calls[k] \in Subjects
  OBVIOUS
<1>2. \A k \in 1 .. Len(calls) : Result(calls[k]) \in Message /\ Prompt(calls[k]) \in Message
  BY <1>1, CallsMessages
<1>3. /\ Results(calls) = [k \in 1 .. Len(calls) |-> Result(calls[k])]
      /\ Prompts(calls) = [k \in 1 .. Len(calls) |-> Prompt(calls[k])]
  BY <1>1 DEF Results, Prompts
<1>4. Results(calls) \in Seq(Message) /\ Len(Results(calls)) = Len(calls)
  BY ONLY <1>1, <1>2, <1>3
<1>5. Prompts(calls) \in Seq(Message) /\ Len(Prompts(calls)) = Len(calls)
  BY ONLY <1>1, <1>2, <1>3
<1> QED
  BY <1>1, <1>3, <1>4, <1>5

\* An answer of the model with the results of its calls right behind it.
LEMMA AnswerAndResults ==
  ASSUME NEW s \in Seq(Message), WellFormed(s), NEW t \in Nat, NEW n \in Nat, NEW calls \in Seq(Subjects)
  PROVE  WellFormed((s \o <<Answer(t, n, calls)>>) \o Results(calls))
<1> DEFINE a == Answer(t, n, calls)
           q == s \o <<a>>
           r == q \o Results(calls)
<1>1. a \in Message /\ a.role = "assistant" /\ a.calls = calls /\ <<a>> \in Seq(Message) /\ Len(<<a>>) = 1
      /\ <<a>>[1] = a
  BY AnswersMessage
<1>2. /\ Results(calls) \in Seq(Message) /\ Len(Results(calls)) = Len(calls) /\ Len(calls) \in Nat
      /\ DOMAIN calls = 1 .. Len(calls)
      /\ \A k \in 1 .. Len(calls) : Results(calls)[k] = Result(calls[k]) /\ calls[k] \in Subjects
  BY ResultsMessages
<1> HIDE DEF a
<1> DEFINE x == <<a>>
<1>0. Len(x) = 1 /\ x[1] = a
  OBVIOUS
<1>3. Grown(s, x, q)
  BY <1>1, Concatenated
<1>4. Grown(q, Results(calls), r)
  BY <1>2, <1>3, Concatenated DEF Grown
<1> HIDE DEF q, r, x
<1>5. /\ Len(s) \in Nat /\ Len(q) = Len(s) + 1 /\ DOMAIN s = 1 .. Len(s)
      /\ \A i \in 1 .. Len(s) : q[i] = s[i]
      /\ q[Len(s) + 1] = a
  <2>1. /\ Len(s) \in Nat /\ Len(q) = Len(s) + Len(x) /\ DOMAIN s = 1 .. Len(s)
        /\ \A i \in 1 .. Len(s) : q[i] = s[i]
        /\ \A k \in 1 .. Len(x) : q[Len(s) + k] = x[k]
    BY <1>3, InFront
  <2> QED
    BY <1>0, <2>1
<1>6. /\ Len(r) = Len(q) + Len(calls) /\ DOMAIN r = 1 .. Len(r)
      /\ \A i \in 1 .. Len(q) : r[i] = q[i]
      /\ \A k \in 1 .. Len(calls) : r[Len(q) + k] = Result(calls[k])
  <2>1. /\ Len(r) = Len(q) + Len(Results(calls)) /\ DOMAIN r = 1 .. Len(r)
        /\ \A i \in 1 .. Len(q) : r[i] = q[i]
        /\ \A k \in 1 .. Len(Results(calls)) : r[Len(q) + k] = Results(calls)[k]
    BY <1>4, InFront
  <2> QED
    BY <1>2, <2>1
<1> SUFFICES ASSUME NEW i \in 1 .. Len(r)
             PROVE  /\ \A k \in DOMAIN r[i].calls : i + k \in DOMAIN r /\ r[i + k] = Result(r[i].calls[k])
                    /\ r[i].role = "tool" =>
                         \E j \in 1 .. i - 1 : i - j \in DOMAIN r[j].calls /\ r[j].calls[i - j] = r[i].about
  BY <1>6 DEF WellFormed, r, q, x, a
<1>7. CASE i \in 1 .. Len(s)
  <2>1. /\ \A k \in DOMAIN s[i].calls : i + k \in 1 .. Len(s) /\ s[i + k] = Result(s[i].calls[k])
        /\ s[i].role = "tool" =>
             \E j \in 1 .. i - 1 : i - j \in DOMAIN s[j].calls /\ s[j].calls[i - j] = s[i].about
    BY <1>5, <1>7 DEF WellFormed
  <2>2. \A j \in 1 .. Len(s) : j \in 1 .. Len(r) /\ r[j] = s[j]
    BY <1>2, <1>5, <1>6
  <2>3. \A k \in DOMAIN r[i].calls : i + k \in DOMAIN r /\ r[i + k] = Result(r[i].calls[k])
    BY <1>6, <1>7, <2>1, <2>2
  <2>4. \A j \in 1 .. i - 1 : r[j] = s[j]
    BY <1>5, <1>7, <2>2
  <2> QED
    BY <1>7, <2>1, <2>2, <2>3, <2>4
<1>8. CASE i = Len(s) + 1
  <2>1. r[i] = a
    BY <1>5, <1>6, <1>8
  <2>2. \A k \in 1 .. Len(calls) : i + k \in 1 .. Len(r) /\ r[i + k] = Result(calls[k])
    BY <1>2, <1>5, <1>6, <1>8
  <2> QED
    BY <1>1, <1>2, <1>6, <2>1, <2>2
<1>9. CASE i > Len(s) + 1
  <2>1. PICK k \in 1 .. Len(calls) : i = Len(q) + k
    <3>1. i - Len(q) \in 1 .. Len(calls) /\ i = Len(q) + (i - Len(q))
      BY <1>2, <1>5, <1>6, <1>9
    <3> QED
      BY <3>1
  <2>2. r[i] = Result(calls[k])
    BY <1>6, <2>1
  <2>3. r[i].calls = <<>> /\ r[i].about = calls[k]
    BY <1>2, <2>2, CallsMessages
  <2>4. DOMAIN r[i].calls = {}
    BY <2>3
  <2>5. r[Len(s) + 1] = a /\ Len(s) + 1 \in 1 .. i - 1 /\ i - (Len(s) + 1) = k
    BY <1>5, <1>6, <1>9, <2>1
  <2> QED
    BY <1>1, <1>2, <2>3, <2>4, <2>5
<1> QED
  BY <1>5, <1>7, <1>8, <1>9

\* Where a turn begins, nothing called in front of it is answered behind.
LEMMA CutsApart ==
  ASSUME NEW s \in Seq(Message), WellFormed(s), NEW c \in 1 .. Len(s), c + 1 <= Len(s),
         s[c + 1].role = "user"
  PROVE  /\ \A i \in 1 .. c : \A k \in DOMAIN s[i].calls : i + k <= c
         /\ \A i \in c + 1 .. Len(s) : s[i].role = "tool" =>
              \E j \in c + 1 .. i - 1 : i - j \in DOMAIN s[j].calls /\ s[j].calls[i - j] = s[i].about
<1>1. /\ Len(s) \in Nat /\ DOMAIN s = 1 .. Len(s)
      /\ \A i \in 1 .. Len(s) : s[i].calls \in Seq(Subjects) /\ s[i] \in Message
  <2>1. \A i \in 1 .. Len(s) : s[i] \in Message
    OBVIOUS
  <2> QED
    BY <2>1 DEF Message
<1>2. ASSUME NEW i \in 1 .. c, NEW k \in DOMAIN s[i].calls PROVE i + k <= c
  <2> SUFFICES ASSUME i + k > c PROVE FALSE
    BY <1>1
  <2>1. DOMAIN s[i].calls = 1 .. Len(s[i].calls) /\ Len(s[i].calls) \in Nat
    BY <1>1
  <2>2. (c + 1) - i \in DOMAIN s[i].calls /\ i + ((c + 1) - i) = c + 1
    BY <1>1, <2>1
  <2>3. s[i + ((c + 1) - i)] = Result(s[i].calls[(c + 1) - i])
    <3>1. \A k1 \in DOMAIN s[i].calls : s[i + k1] = Result(s[i].calls[k1])
      <4>1. i \in DOMAIN s
        BY <1>1
      <4> QED
        BY <4>1, Zenon DEF WellFormed
    <3> QED
      BY ONLY <2>2, <3>1
  <2>4. s[c + 1].role = "tool"
    BY <2>2, <2>3 DEF Result
  <2> QED
    BY <2>4
<1>3. ASSUME NEW i \in c + 1 .. Len(s), s[i].role = "tool"
      PROVE  \E j \in c + 1 .. i - 1 : i - j \in DOMAIN s[j].calls /\ s[j].calls[i - j] = s[i].about
  <2>1. PICK j \in 1 .. i - 1 : i - j \in DOMAIN s[j].calls /\ s[j].calls[i - j] = s[i].about
    BY <1>1, <1>3 DEF WellFormed
  <2>2. ~(j <= c)
    <3> SUFFICES ASSUME j \in 1 .. c PROVE FALSE
      BY <1>1, <2>1
    <3>1. j + (i - j) <= c
      BY <1>2, <2>1
    <3> QED
      BY <1>1, <3>1
  <2>3. j \in c + 1 .. i - 1
    <3> DEFINE n == Len(s)
    <3> HIDE DEF n
    <3>1. n \in Nat /\ c \in 1 .. n /\ i \in c + 1 .. n /\ j \in 1 .. i - 1
      BY <1>1 DEF n
    <3> QED
      BY ONLY <2>2, <3>1
  <2> QED
    BY <2>1, <2>3
<1> QED
  BY <1>2, <1>3

-----------------------------------------------------------------------------
(* What the program is at each point of its path.                          *)

\* The steps: up to the router, the loop, behind it.
Early  == {"resolve", "digest", "classify", "redigest", "route", "logRoute"}
Loop   == {"model", "tool", "final"}
Behind == {"summarize", "embed", "remember", "log", "truncate"}
Late   == {"persist", "end"} \cup Behind

\* The program has its types, and calls to run or to prompt for only in the loop.
Typed(st, t) ==
  /\ st.pc \in {"load"} \cup Early \cup Loop \cup Late
  /\ st.msgs \in Seq(Message)
  /\ st.due \in Seq(CallsIn(t)) /\ st.parked \in Seq(CallsIn(t)) /\ st.rounds \in 0 .. MaxRounds
  /\ st.pc = "tool" <=> st.due # <<>>
  /\ st.pc \in Early \cup {"load", "model", "final"} => st.parked = <<>>
  /\ st.pc \in Early \cup {"load"} => st.rounds = 0
  /\ st.pc = "tool" => st.rounds # 0
  /\ st.pc = "model" => st.rounds # MaxRounds

\* What one round of the loop says at most: an answer, and a result for each call.
Round == 1 + MaxCalls

\* No run is too long, and none will be at the end of the loop.
Bounded(st) ==
  /\ NoLongRun(st.msgs)
  /\ st.pc \in Early \cup Loop => Trails(st.msgs, Len(st.due), st.rounds * Round)
  /\ st.pc = "tool" => Len(st.parked) + Len(st.due) <= MaxCalls

\* It ends with an answer, a prompt or a refined prompt of its own.
EndsOwn(st, t) ==
  /\ st.pc \in Late => LET s == st.msgs IN
       Len(s) > 0 /\ s[Len(s)].role = "assistant" /\ s[Len(s)].about[1] = t
  /\ st.pc \in Behind => Compacts(st.msgs) /\ st.msgs[Len(st.msgs)].about[4] # "reprompt"

\* The model accepts the transcript, with the results that are still due.
Shown(st) == WellFormed(st.msgs \o Results(st.due))

\* Each member has one place.
Distinct(s) == \A i, j \in 1 .. Len(s) : s[i] = s[j] => i = j

\* Its own messages are told once, and what it will tell it has not told.
Fresh(st, t) ==
  /\ OwnOnce(st.msgs, t) /\ Distinct(st.due) /\ Distinct(st.parked)
  /\ \A k \in 1 .. Len(st.due) : Result(st.due[k]) \notin ToSet(st.msgs) /\ st.due[k][2] = st.rounds
  /\ \A k \in 1 .. Len(st.parked) : Result(st.parked[k]) \in ToSet(st.msgs) /\ st.parked[k][4] = "confirm"

\* What the turn has said so far fits where it is.
SoFar(st, t) ==
  \A i \in 1 .. Len(st.msgs) :
    st.msgs[i].about[1] = t =>
      /\ st.msgs[i].about[4] # "summary"
      /\ st.pc \in Early \cup Loop => st.msgs[i].about[2] <= st.rounds
      /\ st.pc \in Early => st.msgs[i].role = "user"
      /\ st.pc \in Loop /\ st.msgs[i].role = "assistant" => st.msgs[i].about[4] = "answer"
      /\ st.pc \in {"resolve", "classify"} => st.msgs[i].about[4] # "update"
      /\ st.pc = "digest" /\ st.msgs[i].about[4] = "update" => i = Len(st.msgs)

\* The batch is told, and behind the loop the prompts for what was parked.
TellsAll(st, t, b) ==
  /\ st.pc # "load" => ToSet(BatchMessages(t, b)) \subseteq ToSet(st.msgs)
  /\ st.pc \in Late => \A k \in 1 .. Len(st.parked) : Prompt(st.parked[k]) \in ToSet(st.msgs)

\* All of this.
Fine(st, t, b) ==
  /\ Typed(st, t) /\ Bounded(st) /\ EndsOwn(st, t)
  /\ Shown(st) /\ Fresh(st, t) /\ SoFar(st, t) /\ TellsAll(st, t, b)

\* The model's answers are bounded, and so is what one turn can say on end.
LEMMA CallsBounded ==
  /\ MaxCalls \in Nat /\ \A r \in Responses : r \in Seq(Kinds) /\ Len(r) <= MaxCalls
  /\ Round \in Nat /\ LongestRun \in Nat
  /\ MaxRounds \in Nat /\ MaxRounds # 0 /\ MaxRounds * Round \in Nat
  /\ MaxRounds * Round + 1 <= LongestRun /\ MaxRounds * Round + MaxCalls <= LongestRun
<1> DEFINE Lens == {Len(r) : r \in Responses}
<1>1. MaxRounds \in Nat /\ MaxRounds # 0
  BY TurnConstants
<1>2. \A r \in Responses : r \in Seq(Kinds) /\ Len(r) \in Nat
  BY TurnConstants
<1>3. PICK n \in Lens : \A r \in Responses : Len(r) <= n
  BY TurnConstants
<1>4. MaxCalls \in Lens /\ \A r \in Responses : Len(r) <= MaxCalls
  BY <1>3 DEF MaxCalls
<1>5. MaxCalls \in Nat
  BY <1>2, <1>4
<1> HIDE DEF MaxCalls
<1>6. Round \in Nat /\ LongestRun = MaxRounds * Round + IF MaxCalls = 0 THEN 1 ELSE MaxCalls
  BY <1>5 DEF Round, LongestRun
<1>7. MaxRounds * Round \in Nat
  BY <1>1, <1>6
<1> QED
  BY <1>1, <1>2, <1>4, <1>5, <1>6, <1>7

\* Rounds so far, times what one round can say.
LEMMA RoundsBounded ==
  ASSUME NEW n \in 0 .. MaxRounds
  PROVE  /\ n * Round \in Nat /\ n * Round <= MaxRounds * Round
         /\ (n + 1) * Round = n * Round + Round /\ 0 * Round = 0
<1>1. Round \in Nat /\ MaxRounds \in Nat
  BY CallsBounded
<1> HIDE DEF Round
<1>2. n \in Nat /\ n * Round \in Nat /\ (n + 1) * Round = n * Round + Round /\ 0 * Round = 0
  BY <1>1
<1>3. n * Round <= MaxRounds * Round
  <2>1. PICK d \in Nat : MaxRounds = n + d
    <3>1. MaxRounds - n \in Nat /\ MaxRounds = n + (MaxRounds - n)
      BY <1>1
    <3> QED
      BY <3>1
  <2>2. MaxRounds * Round = n * Round + d * Round /\ d * Round \in Nat
    BY <1>1, <1>2, <2>1
  <2> QED
    BY <1>2, <2>2
<1> QED
  BY <1>2, <1>3

\* A program that only goes on to its next step, up to the first call of the model.
LEMMA EarlyGoesOn ==
  ASSUME NEW st, NEW new, NEW t \in Nat, NEW b, Fine(st, t, b), st.pc \in Early,
         new.msgs = st.msgs, new.due = st.due, new.parked = st.parked, new.rounds = st.rounds,
         new.pc \in (Early \ {"resolve"}) \cup {"model"},
         new.pc = "digest" => st.pc = "resolve",
         new.pc = "classify" => st.pc = "digest" /\ Last(st.msgs).about[4] # "update"
  PROVE  Fine(new, t, b)
<1>1. st.due = <<>> /\ st.rounds = 0 /\ st.parked = <<>>
  BY DEF Fine, Typed, Early
<1>2. Typed(new, t)
  BY <1>1, CallsBounded DEF Fine, Typed, Early, Loop
<1>3. Bounded(new) /\ EndsOwn(new, t) /\ Shown(new) /\ Fresh(new, t)
  BY DEF Fine, Bounded, EndsOwn, Shown, Fresh, Early, Late, Behind, Loop
<1>4. SoFar(new, t)
  <2>1. new.pc = "classify" => st.msgs[Len(st.msgs)].about[4] # "update"
    BY DEF Last
  <2> QED
    BY <2>1 DEF Fine, SoFar, Early, Loop
<1>5. TellsAll(new, t, b)
  BY DEF Fine, TellsAll, Early, Late, Behind
<1> QED
  BY <1>2, <1>3, <1>4, <1>5 DEF Fine

\* Behind the persist it only reads what it has.
LEMMA LateGoesOn ==
  ASSUME NEW st, NEW new, NEW t \in Nat, NEW b, Fine(st, t, b), st.pc \in Late,
         new.msgs = st.msgs, new.due = st.due, new.parked = st.parked, new.rounds = st.rounds,
         new.pc \in Late,
         new.pc \in Behind => st.pc \in Behind \/ (Compacts(st.msgs) /\ Last(st.msgs).about[4] # "reprompt")
  PROVE  Fine(new, t, b)
<1>1. Typed(new, t)
  BY DEF Fine, Typed, Early, Late, Behind, Loop
<1>2. Bounded(new)
  BY DEF Fine, Bounded, Early, Late, Behind, Loop
<1>3. EndsOwn(new, t)
  BY DEF Fine, EndsOwn, Last
<1>4. Shown(new) /\ Fresh(new, t)
  BY DEF Fine, Shown, Fresh
<1>5. SoFar(new, t)
  BY DEF Fine, SoFar, Early, Late, Behind, Loop
<1>6. TellsAll(new, t, b)
  BY DEF Fine, TellsAll, Late, Behind
<1> QED
  BY <1>1, <1>2, <1>3, <1>4, <1>5, <1>6 DEF Fine

\* With no call due there is no result to come.
LEMMA NothingDue ==
  ASSUME NEW s \in Seq(Message), NEW calls, calls = <<>>
  PROVE  s \o Results(calls) = s
<1>1. Results(calls) = <<>>
  BY DEF Results
<1>2. s \in Seq(Message)
  OBVIOUS
<1> HIDE DEF Message
<1> QED
  BY <1>1, <1>2

\* The start of a turn.
LEMMA StartIsFine ==
  ASSUME NEW t \in Nat, NEW b
  PROVE  Fine(Start, t, b)
<1>1. Typed(Start, t)
  BY CallsBounded DEF Typed, Start, Early
<1>2. Bounded(Start) /\ EndsOwn(Start, t) /\ SoFar(Start, t) /\ TellsAll(Start, t, b)
  <2>1. NoLongRun(<<>>)
    BY CallsBounded DEF NoLongRun
  <2> QED
    BY <2>1 DEF Bounded, EndsOwn, SoFar, TellsAll, Start, Early, Late, Behind, Loop
<1>3. Shown(Start)
  <2>1. <<>> \o Results(<<>>) = <<>>
    <3>1. <<>> \in Seq(Message)
      OBVIOUS
    <3> QED
      BY <3>1, NothingDue
  <2>2. WellFormed(<<>>)
    BY DEF WellFormed
  <2> QED
    BY <2>1, <2>2 DEF Shown, Start
<1>4. Fresh(Start, t)
  BY DEF Fresh, OwnOnce, Distinct, Start
<1> QED
  BY <1>1, <1>2, <1>3, <1>4 DEF Fine

-----------------------------------------------------------------------------
(* What each step adds to the transcript leaves it fine.                   *)

\* One message more.
LEMMA Appended ==
  ASSUME NEW s \in Seq(Message), NEW m \in Message
  PROVE  /\ Append(s, m) \in Seq(Message) /\ Len(s) \in Nat /\ Len(Append(s, m)) = Len(s) + 1
         /\ Append(s, m)[Len(s) + 1] = m
         /\ \A i \in 1 .. Len(s) : Append(s, m)[i] = s[i]
         /\ ToSet(Append(s, m)) = ToSet(s) \cup {m}
<1> DEFINE x == <<m>>
<1>1. x \in Seq(Message) /\ x # <<>> /\ Len(x) = 1 /\ x[1] = m /\ \A i \in 1 .. Len(x) : i = 1
  OBVIOUS
<1>2. /\ Append(s, m) \in Seq(Message) /\ Len(s) \in Nat /\ Len(Append(s, m)) = Len(s) + 1
      /\ Append(s, m)[Len(s) + 1] = m
      /\ \A i \in 1 .. Len(s) : Append(s, m)[i] = s[i]
  <2> DEFINE M == Message
  <2>1. s \in Seq(M) /\ m \in M /\ Len(s) \in Nat
    OBVIOUS
  <2> HIDE DEF M
  <2>2. /\ Append(s, m) \in Seq(M) /\ Len(Append(s, m)) = Len(s) + 1 /\ Append(s, m)[Len(s) + 1] = m
        /\ \A i \in 1 .. Len(s) : Append(s, m)[i] = s[i]
    BY <2>1, AppendProperties
  <2> QED
    BY <2>1, <2>2 DEF M
<1> HIDE DEF x
<1>3. Grown(s, x, Append(s, m))
  BY <1>1, <1>2 DEF Grown
<1>4. ToSet(x) = {m}
  <2>1. DOMAIN x = 1 .. 1
    BY <1>1
  <2> QED
    BY <1>1, <2>1 DEF ToSet
<1>5. ToSet(Append(s, m)) = ToSet(s) \cup {m}
  BY <1>3, <1>4, AllOf
<1> QED
  BY <1>2, <1>5

\* Appending one message is growing by it.
LEMMA AppendGrows ==
  ASSUME NEW s \in Seq(Message), NEW m \in Message
  PROVE  \E x \in Seq(Message) : /\ Grown(s, x, Append(s, m)) /\ x # <<>> /\ Len(x) = 1
                                 /\ \A i \in 1 .. Len(x) : i = 1 /\ x[i] = m
<1> DEFINE x == <<m>>
<1>1. x \in Seq(Message) /\ x # <<>> /\ Len(x) = 1 /\ x[1] = m /\ \A i \in 1 .. Len(x) : i = 1
  OBVIOUS
<1>2. Append(s, m) = s \o x
  <2> HIDE DEF Message
  <2> QED
    BY AppendIsConcat
<1> HIDE DEF x
<1>3. Grown(s, x, Append(s, m))
  BY <1>1, <1>2, Concatenated
<1> QED
  BY <1>1, <1>3

\* A message that was not there does not repeat one.
LEMMA OwnAppended ==
  ASSUME NEW s \in Seq(Message), NEW m \in Message,
         NEW t, OwnOnce(s, t), m \notin ToSet(s)
  PROVE  OwnOnce(Append(s, m), t)
<1>1. PICK x \in Seq(Message) : Grown(s, x, Append(s, m)) /\ \A i \in 1 .. Len(x) : i = 1 /\ x[i] = m
  BY AppendGrows
<1>2. \A i \in 1 .. Len(x) : \A j \in 1 .. Len(s) : x[i] # s[j]
  BY <1>1 DEF ToSet
<1>3. \A i, j \in 1 .. Len(x) : x[i] = x[j] => i = j
  BY <1>1
<1> QED
  BY <1>1, <1>2, <1>3, OnceGrows

\* A message that is no result and calls nothing can follow any well-formed transcript.
LEMMA PlainAppended ==
  ASSUME NEW s \in Seq(Message), NEW m \in Message,
         WellFormed(s), m.role # "tool", m.calls = <<>>
  PROVE  WellFormed(Append(s, m))
<1>1. PICK x \in Seq(Message) : Grown(s, x, Append(s, m)) /\ \A i \in 1 .. Len(x) : x[i] = m
  BY AppendGrows
<1>2. Plain(x)
  BY <1>1 DEF Plain
<1> QED
  BY <1>1, <1>2, PlainBehind

\* A member's message begins a new run.
LEMMA UserAppended ==
  ASSUME NEW s \in Seq(Message), NEW m \in Message,
         NoLongRun(s), m.role = "user"
  PROVE  NoLongRun(Append(s, m)) /\ Trails(Append(s, m), 0, 0)
<1>1. PICK x \in Seq(Message) : Grown(s, x, Append(s, m)) /\ x # <<>> /\ \A i \in 1 .. Len(x) : x[i] = m
  BY AppendGrows
<1>2. \A i \in 1 .. Len(x) : x[i].role = "user"
  BY <1>1
<1> QED
  BY <1>1, <1>2, UserEndsRun, CallsBounded

\* Any message makes the run longer by one at most.
LEMMA RunAppended ==
  ASSUME NEW s \in Seq(Message), NEW m \in Message, NoLongRun(s),
         NEW k \in Nat, NEW l \in Nat, NEW n \in Nat, Trails(s, l, n), l = 1 + k, n <= LongestRun
  PROVE  NoLongRun(Append(s, m)) /\ Trails(Append(s, m), k, n)
<1>1. PICK x \in Seq(Message) : Grown(s, x, Append(s, m)) /\ Len(x) = 1
  BY AppendGrows
<1>2. Trails(s, Len(x) + k, n)
  BY <1>1
<1> QED
  BY <1>1, <1>2, RunGrows, CallsBounded

\* What has no place in a transcript is not told by it.
LEMMA NotYetTold ==
  ASSUME NEW s \in Seq(Message), NEW m, \A i \in 1 .. Len(s) : s[i] # m
  PROVE  m \notin ToSet(s)
<1>1. DOMAIN s = 1 .. Len(s)
  OBVIOUS
<1> QED
  BY <1>1 DEF ToSet

\* The batch behind the transcript that was loaded.
LEMMA LoadIsFine ==
  ASSUME NEW st, NEW new, NEW t \in Nat, NEW b \in Seq(Items), b # <<>>, Fine(st, t, b), st.pc = "load",
         NEW c \in Seq(Message), WellFormed(c), NoLongRun(c), \A i \in 1 .. Len(c) : c[i].about[1] < t,
         new.msgs = c \o BatchMessages(t, b), new.due = st.due, new.parked = st.parked,
         new.rounds = st.rounds, new.pc \in {"resolve", "digest"}
  PROVE  Fine(new, t, b)
<1> DEFINE x == BatchMessages(t, b)
<1>1. st.due = <<>> /\ st.rounds = 0 /\ st.parked = <<>>
  BY DEF Fine, Typed, Early
<1>2. /\ x \in Seq(Message) /\ Len(x) = Len(b) /\ Len(b) \in Nat /\ Len(b) > 0
      /\ \A i \in 1 .. Len(b) : x[i].role = "user" /\ x[i].calls = <<>> /\ x[i].about = <<t, 0, i, "item">>
  <2>1. Len(b) \in Nat /\ Len(b) > 0
    OBVIOUS
  <2> QED
    BY <2>1, BatchsMessages
<1> HIDE DEF x
<1>3. Grown(c, x, new.msgs)
  BY <1>2, Concatenated DEF x
<1>4. /\ new.msgs \in Seq(Message)
      /\ \A i \in 1 .. Len(new.msgs) : i \in 1 .. Len(c) \/ \E k \in 1 .. Len(x) : i = Len(c) + k
      /\ \A i \in 1 .. Len(c) : new.msgs[i] = c[i]
      /\ \A k \in 1 .. Len(x) : new.msgs[Len(c) + k] = x[k]
  <2>1. new.msgs \in Seq(Message)
    BY <1>3 DEF Grown
  <2>2. /\ Len(c) \in Nat /\ Len(x) \in Nat /\ Len(new.msgs) \in Nat /\ Len(new.msgs) = Len(c) + Len(x)
        /\ DOMAIN c = 1 .. Len(c) /\ DOMAIN x = 1 .. Len(x) /\ DOMAIN new.msgs = 1 .. Len(new.msgs)
        /\ \A i \in 1 .. Len(c) : i \in 1 .. Len(new.msgs) /\ new.msgs[i] = c[i]
        /\ \A k \in 1 .. Len(x) : Len(c) + k \in 1 .. Len(new.msgs) /\ new.msgs[Len(c) + k] = x[k]
        /\ \A i \in 1 .. Len(new.msgs) : i \in 1 .. Len(c) \/ \E k \in 1 .. Len(x) : i = Len(c) + k
    BY ONLY <1>3, InFront
  <2> QED
    BY <2>1, <2>2
<1>5. \A i \in 1 .. Len(new.msgs) : new.msgs[i].about[1] = t =>
        new.msgs[i].role = "user" /\ \E k \in 1 .. Len(b) : new.msgs[i].about = <<t, 0, k, "item">>
  <2> SUFFICES ASSUME NEW i \in 1 .. Len(new.msgs), new.msgs[i].about[1] = t
               PROVE  /\ new.msgs[i].role = "user"
                      /\ \E k \in 1 .. Len(b) : new.msgs[i].about = <<t, 0, k, "item">>
    OBVIOUS
  <2>1. i \notin 1 .. Len(c)
    <3>1. \A j \in 1 .. Len(c) : c[j].about[1] # t
      <4>1. \A j \in 1 .. Len(c) : c[j].about[1] \in Nat
        <5>1. \A j \in 1 .. Len(c) : c[j] \in Message
          OBVIOUS
        <5> QED
          BY <5>1 DEF Message, Subjects
      <4> QED
        BY <4>1
    <3> QED
      BY <1>4, <3>1
  <2>2. PICK k \in 1 .. Len(x) : i = Len(c) + k
    BY <1>4, <2>1
  <2>3. k \in 1 .. Len(b) /\ new.msgs[i] = x[k]
    BY <1>2, <1>4, <2>2
  <2>4. x[k].role = "user" /\ x[k].about = <<t, 0, k, "item">>
    BY <1>2, <2>3
  <2> QED
    BY <2>3, <2>4
<1>6. Typed(new, t)
  <2>1. new.due = <<>> /\ new.parked = <<>> /\ new.rounds = 0
    BY <1>1
  <2> QED
    BY <1>4, <2>1, CallsBounded DEF Typed, Early
<1>7. Bounded(new)
  <2>1. NoLongRun(new.msgs) /\ Trails(new.msgs, 0, 0)
    <3>1. x # <<>> /\ \A i \in 1 .. Len(x) : x[i].role = "user"
      BY <1>2
    <3> QED
      BY <1>3, <3>1, UserEndsRun, CallsBounded
  <2>2. 0 * Round = 0 /\ Len(new.due) = 0
    BY <1>1, RoundsBounded, CallsBounded
  <2> QED
    BY <1>1, <2>1, <2>2 DEF Bounded
<1>8. EndsOwn(new, t)
  BY DEF EndsOwn, Late, Behind
<1>9. Shown(new)
  <2>1. Plain(x)
    BY <1>2 DEF Plain
  <2>2. WellFormed(new.msgs)
    BY <1>3, <2>1, PlainBehind
  <2>3. new.msgs \o Results(new.due) = new.msgs
    BY <1>1, <1>4, NothingDue
  <2> QED
    BY <2>2, <2>3 DEF Shown
<1>10. Fresh(new, t)
  <2>1. OwnOnce(c, t)
    <3>1. \A j \in 1 .. Len(c) : c[j].about[1] # t
      <4>1. \A j \in 1 .. Len(c) : c[j].about[1] \in Nat
        <5>1. \A j \in 1 .. Len(c) : c[j] \in Message
          OBVIOUS
        <5> QED
          BY <5>1 DEF Message, Subjects
      <4> QED
        BY <4>1
    <3> QED
      BY <3>1 DEF OwnOnce
  <2>2. \A i, j \in 1 .. Len(x) : x[i] = x[j] => i = j
    <3> SUFFICES ASSUME NEW i \in 1 .. Len(x), NEW j \in 1 .. Len(x), x[i] = x[j] PROVE i = j
      OBVIOUS
    <3>1. <<t, 0, i, "item">> = <<t, 0, j, "item">>
      BY <1>2
    <3> QED
      BY <3>1
  <2>3. \A i \in 1 .. Len(x) : \A j \in 1 .. Len(c) : x[i] # c[j]
    <3>1. \A i \in 1 .. Len(x) : x[i].about[1] = t
      BY <1>2
    <3>2. \A j \in 1 .. Len(c) : c[j].about[1] # t
      BY <1>2
    <3> QED
      BY <3>1, <3>2
  <2>4. OwnOnce(new.msgs, t)
    BY <1>3, <2>1, <2>2, <2>3, OnceGrows
  <2> QED
    BY <1>1, <2>4 DEF Fresh, Distinct
<1>11. SoFar(new, t)
  <2> SUFFICES ASSUME NEW i \in 1 .. Len(new.msgs), new.msgs[i].about[1] = t
               PROVE  /\ new.msgs[i].about[2] = 0 /\ new.msgs[i].about[4] = "item"
                      /\ new.msgs[i].role = "user"
    BY <1>1 DEF SoFar, Early, Loop
  <2>1. new.msgs[i].role = "user"
    BY <1>5
  <2>2. PICK k \in 1 .. Len(b) : new.msgs[i].about = <<t, 0, k, "item">>
    BY <1>5
  <2> QED
    BY <2>1, <2>2
<1>12. TellsAll(new, t, b)
  <2>1. ToSet(x) \subseteq ToSet(new.msgs)
    BY <1>3, AllOf
  <2> QED
    BY <2>1 DEF TellsAll, Late, Behind, x
<1> QED
  BY <1>6, <1>7, <1>8, <1>9, <1>10, <1>11, <1>12 DEF Fine

\* What was settled is told the model before it is asked.
LEMMA UpdateIsFine ==
  ASSUME NEW st, NEW new, NEW t \in Nat, NEW b, Fine(st, t, b), st.pc \in {"resolve", "classify"},
         new.msgs = Append(st.msgs, Update(t)), new.due = st.due, new.parked = st.parked,
         new.rounds = st.rounds, new.pc = IF st.pc = "resolve" THEN "digest" ELSE "redigest"
  PROVE  Fine(new, t, b)
<1> DEFINE m == Update(t)
<1>1. st.due = <<>> /\ st.rounds = 0 /\ st.parked = <<>> /\ st.msgs \in Seq(Message)
  BY DEF Fine, Typed, Early
<1>2. m \in Message /\ m.role = "user" /\ m.calls = <<>> /\ m.about = <<t, 0, 0, "update">>
  BY MembersMessages
<1> HIDE DEF m
<1>3. m \notin ToSet(st.msgs)
  <2>1. \A i \in 1 .. Len(st.msgs) : st.msgs[i].about[1] = t => st.msgs[i].about[4] # "update"
    BY DEF Fine, SoFar
  <2> QED
    BY <1>1, <1>2, <2>1, NotYetTold
<1>4. WellFormed(st.msgs) /\ NoLongRun(st.msgs) /\ OwnOnce(st.msgs, t)
  <2>1. st.msgs \o Results(st.due) = st.msgs
    BY <1>1, NothingDue
  <2> QED
    BY <2>1 DEF Fine, Shown, Bounded, Fresh
<1>5. /\ new.msgs \in Seq(Message) /\ Len(st.msgs) \in Nat /\ Len(new.msgs) = Len(st.msgs) + 1
      /\ new.msgs[Len(st.msgs) + 1] = m
      /\ \A i \in 1 .. Len(st.msgs) : new.msgs[i] = st.msgs[i]
      /\ ToSet(new.msgs) = ToSet(st.msgs) \cup {m}
      /\ OwnOnce(new.msgs, t) /\ WellFormed(new.msgs) /\ NoLongRun(new.msgs) /\ Trails(new.msgs, 0, 0)
  <2>1. new.msgs = Append(st.msgs, m) /\ m.role # "tool"
    BY <1>2 DEF m
  <2> HIDE DEF Message
  <2>2. OwnOnce(new.msgs, t)
    BY <1>1, <1>2, <1>3, <1>4, <2>1, OwnAppended
  <2>3. WellFormed(new.msgs)
    BY <1>1, <1>2, <1>4, <2>1, PlainAppended
  <2>4. NoLongRun(new.msgs) /\ Trails(new.msgs, 0, 0)
    BY <1>1, <1>2, <1>4, <2>1, UserAppended
  <2> QED
    BY <1>1, <1>2, <2>1, <2>2, <2>3, <2>4, Appended
<1>6. Typed(new, t)
  <2>1. new.due = <<>> /\ new.parked = <<>> /\ new.rounds = 0 /\ new.pc \in {"digest", "redigest"}
    BY <1>1
  <2> QED
    BY <1>5, <2>1, CallsBounded DEF Typed, Early
<1>7. Bounded(new)
  <2>1. 0 * Round = 0 /\ Len(new.due) = 0
    BY <1>1, RoundsBounded, CallsBounded
  <2> QED
    BY <1>1, <1>5, <2>1 DEF Bounded
<1>8. EndsOwn(new, t)
  BY DEF EndsOwn, Late, Behind
<1>9. Shown(new)
  <2>1. new.msgs \o Results(new.due) = new.msgs
    BY <1>1, <1>5, NothingDue
  <2> QED
    BY <1>5, <2>1 DEF Shown
<1>10. Fresh(new, t)
  BY <1>1, <1>5 DEF Fresh, Distinct
<1>11. SoFar(new, t)
  <2> SUFFICES ASSUME NEW i \in 1 .. Len(new.msgs), new.msgs[i].about[1] = t
               PROVE  /\ new.msgs[i].about[4] # "summary" /\ new.msgs[i].about[2] <= 0
                      /\ new.msgs[i].role = "user"
                      /\ new.pc = "digest" /\ new.msgs[i].about[4] = "update" => i = Len(new.msgs)
    BY <1>1 DEF SoFar, Early, Loop
  <2>1. CASE i \in 1 .. Len(st.msgs)
    <3>1. /\ st.msgs[i].about[4] # "summary" /\ st.msgs[i].about[2] <= 0 /\ st.msgs[i].role = "user"
          /\ st.msgs[i].about[4] # "update"
      BY <1>1, <1>5, <2>1 DEF Fine, SoFar, Early
    <3> QED
      BY <1>5, <2>1, <3>1
  <2>2. CASE i = Len(st.msgs) + 1
    BY <1>2, <1>5, <2>2
  <2> QED
    BY <1>5, <2>1, <2>2
<1>12. TellsAll(new, t, b)
  BY <1>5 DEF Fine, TellsAll, Late, Behind
<1> QED
  BY <1>6, <1>7, <1>8, <1>9, <1>10, <1>11, <1>12 DEF Fine

-----------------------------------------------------------------------------
(* The model answers.                                                      *)

\* The bound on the run may be stated later, and more loosely.
LEMMA LaterTrails ==
  ASSUME NEW s \in Seq(Message), NEW k \in Nat, NEW n \in Nat, NEW l \in Nat, NEW m \in Nat,
         l + n <= k + m, Trails(s, k, n)
  PROVE  Trails(s, l, m)
<1>1. PICK u \in 1 .. Len(s) : s[u].role = "user" /\ Len(s) + k <= u + n
  BY DEF Trails
<1>2. Len(s) \in Nat
  OBVIOUS
<1>3. Len(s) + l <= u + m
  BY <1>1, <1>2
<1> QED
  BY <1>1, <1>3 DEF Trails

\* The message a turn ends with.
LEMMA LastWordIsFine ==
  ASSUME NEW st, NEW new, NEW t \in Nat, NEW b, Fine(st, t, b), st.pc \in {"classify", "model", "final"},
         NEW m \in Message, m.role = "assistant", m.calls = <<>>, m.about[1] = t,
         m.about[4] # "summary", m \notin ToSet(st.msgs),
         new.msgs = Append(st.msgs, m), new.due = <<>>, new.parked = st.parked,
         new.rounds \in 0 .. MaxRounds, new.pc = "persist"
  PROVE  Fine(new, t, b)
<1>1. st.due = <<>> /\ st.parked = <<>> /\ st.msgs \in Seq(Message) /\ st.rounds \in 0 .. MaxRounds
  BY DEF Fine, Typed, Early
<1>2. WellFormed(st.msgs) /\ NoLongRun(st.msgs) /\ OwnOnce(st.msgs, t)
  <2>1. st.msgs \o Results(st.due) = st.msgs
    BY <1>1, NothingDue
  <2> QED
    BY <2>1 DEF Fine, Shown, Bounded, Fresh
<1> DEFINE n == st.rounds * Round + 1
<1>3. Trails(st.msgs, 1, n) /\ n \in Nat /\ n <= LongestRun
  <2>1. st.rounds * Round \in Nat /\ st.rounds * Round <= MaxRounds * Round
    BY <1>1, RoundsBounded
  <2>2. Len(st.due) = 0 /\ Trails(st.msgs, Len(st.due), st.rounds * Round)
    BY <1>1 DEF Fine, Bounded, Early, Loop
  <2> DEFINE v == st.rounds * Round
  <2>3. Trails(st.msgs, 0, v) /\ v \in Nat /\ n = v + 1
    BY <2>1, <2>2
  <2> DEFINE M == MaxRounds * Round
  <2>5. v <= M /\ M \in Nat /\ M + 1 <= LongestRun /\ LongestRun \in Nat
    BY <2>1, CallsBounded
  <2> HIDE DEF v, n, M
  <2>4. Trails(st.msgs, 1, n)
    BY <1>1, <2>3, LaterTrails
  <2> QED
    BY <2>3, <2>4, <2>5
<1> HIDE DEF n
<1>4. /\ new.msgs \in Seq(Message) /\ Len(st.msgs) \in Nat /\ Len(new.msgs) = Len(st.msgs) + 1
      /\ new.msgs[Len(st.msgs) + 1] = m
      /\ \A i \in 1 .. Len(st.msgs) : new.msgs[i] = st.msgs[i]
      /\ ToSet(new.msgs) = ToSet(st.msgs) \cup {m}
      /\ OwnOnce(new.msgs, t) /\ WellFormed(new.msgs) /\ NoLongRun(new.msgs)
  <2>1. 0 \in Nat /\ 1 \in Nat /\ 1 = 1 + 0
    OBVIOUS
  <2>2. new.msgs = Append(st.msgs, m) /\ m.role # "tool"
    OBVIOUS
  <2> HIDE DEF Message
  <2>3. NoLongRun(new.msgs)
    BY <1>1, <1>2, <1>3, <2>1, <2>2, RunAppended
  <2>4. OwnOnce(new.msgs, t)
    BY <1>1, <1>2, <2>2, OwnAppended
  <2>5. WellFormed(new.msgs)
    BY <1>1, <1>2, <2>2, PlainAppended
  <2> QED
    BY <1>1, <2>2, <2>3, <2>4, <2>5, Appended
<1>5. Typed(new, t)
  BY <1>1, <1>4 DEF Typed, Early, Late, Behind, Loop
<1>6. Bounded(new)
  BY <1>4 DEF Bounded, Early, Loop
<1>7. EndsOwn(new, t)
  BY <1>4 DEF EndsOwn, Behind
<1>8. Shown(new)
  <2>1. new.msgs \o Results(new.due) = new.msgs
    BY <1>4, NothingDue
  <2> QED
    BY <1>4, <2>1 DEF Shown
<1>9. Fresh(new, t)
  BY <1>1, <1>4 DEF Fresh, Distinct
<1>10. SoFar(new, t)
  <2> SUFFICES ASSUME NEW i \in 1 .. Len(new.msgs), new.msgs[i].about[1] = t
               PROVE  new.msgs[i].about[4] # "summary"
    BY DEF SoFar, Early, Loop
  <2>1. CASE i \in 1 .. Len(st.msgs)
    BY <1>4, <2>1 DEF Fine, SoFar
  <2>2. CASE i = Len(st.msgs) + 1
    BY <1>4, <2>2
  <2> QED
    BY <1>4, <2>1, <2>2
<1>11. TellsAll(new, t, b)
  BY <1>1, <1>4 DEF Fine, TellsAll
<1> QED
  BY <1>5, <1>6, <1>7, <1>8, <1>9, <1>10, <1>11 DEF Fine

\* An answer that calls tools.
LEMMA CallsAreFine ==
  ASSUME NEW st, NEW new, NEW t \in Nat, NEW b, Fine(st, t, b), st.pc = "model",
         NEW out \in Responses, out # <<>>,
         new.msgs = Append(st.msgs, Answer(t, st.rounds + 1, CallsOf(t, st.rounds + 1, out))),
         new.due = CallsOf(t, st.rounds + 1, out), new.parked = st.parked,
         new.rounds = st.rounds + 1, new.pc = "tool"
  PROVE  Fine(new, t, b)
<1> DEFINE n == st.rounds + 1
           calls == CallsOf(t, n, out)
           m == Answer(t, n, calls)
<1>1. /\ st.due = <<>> /\ st.parked = <<>> /\ st.msgs \in Seq(Message)
      /\ st.rounds \in 0 .. MaxRounds /\ st.rounds # MaxRounds
  BY DEF Fine, Typed
<1>2. n \in 1 .. MaxRounds /\ n \in Nat /\ out \in Seq(Kinds) /\ Len(out) \in Nat /\ Len(out) <= MaxCalls
      /\ Len(out) > 0
  <2>1. out \in Seq(Kinds) /\ Len(out) <= MaxCalls
    BY CallsBounded
  <2>2. Len(out) \in Nat /\ Len(out) > 0
    BY <2>1
  <2> QED
    BY <1>1, <2>1, <2>2, CallsBounded
<1> HIDE DEF n
<1>3. /\ calls \in Seq(CallsIn(t)) /\ Len(calls) = Len(out)
      /\ \A k \in 1 .. Len(out) : calls[k] = <<t, n, k, out[k]>>
  BY <1>2, CallsMade
<1>4. calls \in Seq(Subjects) /\ \A k \in 1 .. Len(calls) : calls[k] \in Subjects
  <2>1. CallsIn(t) \subseteq Subjects
    BY DEF CallsIn
  <2> HIDE DEF calls, Subjects
  <2>2. calls \in Seq(Subjects)
    BY <1>3, <2>1
  <2> QED
    BY <2>2
<1> HIDE DEF calls
<1>5. m \in Message /\ m.role = "assistant" /\ m.calls = calls /\ m.about = <<t, n, 0, "answer">>
  BY <1>2, <1>4, AnswersMessage
<1> HIDE DEF m
<1>6. \A i \in 1 .. Len(st.msgs) : st.msgs[i].about[1] = t => st.msgs[i].about[2] < n
  <2>1. \A i \in 1 .. Len(st.msgs) : st.msgs[i].about[1] = t => st.msgs[i].about[2] <= st.rounds
    BY DEF Fine, SoFar, Loop
  <2>2. \A i \in 1 .. Len(st.msgs) : st.msgs[i].about[2] \in Nat
    <3>1. \A i \in 1 .. Len(st.msgs) : st.msgs[i] \in Message
      BY <1>1
    <3> QED
      BY <3>1 DEF Message, Subjects
  <2> QED
    BY <1>1, <2>1, <2>2 DEF n
<1>7. m \notin ToSet(st.msgs)
  <2>1. \A i \in 1 .. Len(st.msgs) : st.msgs[i] # m
    BY <1>2, <1>5, <1>6
  <2> QED
    BY <1>1, <2>1, NotYetTold
<1>8. NoLongRun(st.msgs) /\ OwnOnce(st.msgs, t) /\ WellFormed(st.msgs)
  <2>1. st.msgs \o Results(st.due) = st.msgs
    BY <1>1, NothingDue
  <2> QED
    BY <2>1 DEF Fine, Shown, Bounded, Fresh
<1> DEFINE bound == n * Round
           l == 1 + Len(calls)
<1>9. Trails(st.msgs, l, bound) /\ bound \in Nat /\ bound <= LongestRun /\ l \in Nat
  <2>1. /\ st.rounds * Round \in Nat /\ n * Round = st.rounds * Round + Round
        /\ n * Round \in Nat /\ n * Round <= MaxRounds * Round
    BY <1>1, <1>2, RoundsBounded DEF n
  <2>2. Len(st.due) = 0 /\ Trails(st.msgs, Len(st.due), st.rounds * Round)
    BY <1>1 DEF Fine, Bounded, Early, Loop
  <2>3. 1 + Len(calls) \in Nat /\ 1 + Len(calls) <= Round /\ Round \in Nat
    BY <1>2, <1>3, CallsBounded DEF Round
  <2> DEFINE v == st.rounds * Round
  <2>5. Trails(st.msgs, 0, v) /\ v \in Nat /\ bound \in Nat /\ l \in Nat /\ l + v <= 0 + bound
    BY <2>1, <2>2, <2>3
  <2> HIDE DEF v, l, bound
  <2>4. Trails(st.msgs, l, bound)
    BY <1>1, <2>5, LaterTrails
  <2> QED
    BY <2>1, <2>3, <2>4, CallsBounded DEF l, bound
<1>10. new.msgs = Append(st.msgs, m) /\ new.due = calls /\ new.rounds = n
  BY DEF m, calls, n
<1>11. /\ new.msgs \in Seq(Message) /\ Len(st.msgs) \in Nat /\ Len(new.msgs) = Len(st.msgs) + 1
       /\ new.msgs[Len(st.msgs) + 1] = m
       /\ \A i \in 1 .. Len(st.msgs) : new.msgs[i] = st.msgs[i]
       /\ ToSet(new.msgs) = ToSet(st.msgs) \cup {m}
       /\ OwnOnce(new.msgs, t) /\ NoLongRun(new.msgs) /\ Trails(new.msgs, Len(calls), bound)
  <2>1. Len(calls) \in Nat
    BY <1>2, <1>3
  <2>2. l = 1 + Len(calls)
    OBVIOUS
  <2> HIDE DEF Message, l, bound
  <2>3. NoLongRun(new.msgs) /\ Trails(new.msgs, Len(calls), bound)
    BY <1>1, <1>5, <1>8, <1>9, <1>10, <2>1, <2>2, RunAppended
  <2>4. OwnOnce(new.msgs, t)
    BY <1>1, <1>5, <1>7, <1>8, <1>10, OwnAppended
  <2> QED
    BY <1>1, <1>5, <1>10, <2>3, <2>4, Appended
<1>12. Typed(new, t)
  <2>1. new.due # <<>>
    BY <1>2, <1>3, <1>10
  <2> QED
    BY <1>1, <1>2, <1>3, <1>10, <1>11, <2>1 DEF Typed, Early, Late, Behind, Loop
<1>13. Bounded(new)
  BY <1>1, <1>2, <1>3, <1>10, <1>11, CallsBounded DEF Bounded, Early, Loop
<1>14. EndsOwn(new, t)
  BY DEF EndsOwn, Late, Behind
<1>15. Shown(new)
  <2>1. WellFormed((st.msgs \o <<m>>) \o Results(calls))
    BY <1>1, <1>2, <1>4, <1>8, AnswerAndResults DEF m
  <2>2. new.msgs = st.msgs \o <<m>>
    <3> HIDE DEF Message
    <3> QED
      BY <1>1, <1>5, <1>10, AppendIsConcat
  <2> QED
    BY <1>10, <2>1, <2>2 DEF Shown
<1>16. \A k \in 1 .. Len(calls) : Result(calls[k]) \notin ToSet(new.msgs) /\ calls[k][2] = n
  <2> SUFFICES ASSUME NEW k \in 1 .. Len(calls)
               PROVE  Result(calls[k]) \notin ToSet(new.msgs) /\ calls[k][2] = n
    OBVIOUS
  <2>1. Result(calls[k]).about = <<t, n, k, out[k]>> /\ Result(calls[k]).role = "tool"
    BY <1>3, <1>4, CallsMessages
  <2>2. Result(calls[k]) # m
    BY <1>5, <2>1
  <2>3. ASSUME NEW i \in 1 .. Len(st.msgs), st.msgs[i] = Result(calls[k])
        PROVE  FALSE
    <3>1. st.msgs[i].about = <<t, n, k, out[k]>>
      BY <2>1, <2>3
    <3>2. st.msgs[i].about[1] = t /\ st.msgs[i].about[2] = n
      BY <3>1
    <3> QED
      BY <1>2, <1>6, <3>2
  <2>4. Result(calls[k]) \notin ToSet(st.msgs)
    BY <1>1, <2>3, NotYetTold
  <2> QED
    BY <1>3, <1>11, <2>2, <2>4
<1>17. Fresh(new, t)
  <2>1. Distinct(calls)
    BY <1>3 DEF Distinct
  <2> QED
    BY <1>1, <1>10, <1>11, <1>16, <2>1 DEF Fresh, Distinct
<1>18. SoFar(new, t)
  <2> SUFFICES ASSUME NEW i \in 1 .. Len(new.msgs), new.msgs[i].about[1] = t
               PROVE  /\ new.msgs[i].about[4] # "summary" /\ new.msgs[i].about[2] <= n
                      /\ new.msgs[i].role = "assistant" => new.msgs[i].about[4] = "answer"
    BY <1>10 DEF SoFar, Early, Loop
  <2>1. CASE i \in 1 .. Len(st.msgs)
    <3>1. /\ st.msgs[i].about[4] # "summary"
          /\ st.msgs[i].role = "assistant" => st.msgs[i].about[4] = "answer"
      BY <1>11, <2>1 DEF Fine, SoFar, Loop
    <3>2. st.msgs[i].about[2] <= n
      <4>1. st.msgs[i] \in Message
        BY <1>1, <2>1
      <4>2. st.msgs[i].about[2] \in Nat
        BY <4>1 DEF Message, Subjects
      <4>3. st.msgs[i].about[1] = t
        BY <1>11, <2>1
      <4> QED
        BY <1>2, <1>6, <2>1, <4>2, <4>3
    <3> QED
      BY <1>11, <2>1, <3>1, <3>2
  <2>2. CASE i = Len(st.msgs) + 1
    BY <1>2, <1>5, <1>11, <2>2
  <2> QED
    BY <1>11, <2>1, <2>2
<1>19. TellsAll(new, t, b)
  BY <1>11 DEF Fine, TellsAll, Late, Behind
<1> QED
  BY <1>12, <1>13, <1>14, <1>15, <1>17, <1>18, <1>19 DEF Fine

-----------------------------------------------------------------------------
(* A tool's result, and the prompts behind the last one.                   *)

\* A transcript of the loop: what else a message of the turn may be.
LoopSoFar(s, t, n) ==
  \A i \in 1 .. Len(s) : s[i].about[1] = t =>
    /\ s[i].about[4] # "summary" /\ s[i].about[2] <= n
    /\ s[i].role = "assistant" => s[i].about[4] = "answer"

\* The first call that is due is answered, at its place, and the others stay due.
LEMMA ResultIsTold ==
  ASSUME NEW st, NEW t \in Nat, NEW b, Fine(st, t, b), st.pc = "tool"
  PROVE  LET call    == Head(st.due)
             rest    == Tail(st.due)
             waiting == Waiting(st, call)
             s       == Append(st.msgs, Result(call))
         IN /\ call \in CallsIn(t) /\ rest \in Seq(CallsIn(t)) /\ waiting \in Seq(CallsIn(t))
            /\ s \in Seq(Message) /\ ToSet(s) = ToSet(st.msgs) \cup {Result(call)}
            /\ Result(call) \notin ToSet(st.msgs) /\ WellFormed(s \o Results(rest))
            /\ NoLongRun(s) /\ Trails(s, Len(rest), st.rounds * Round)
            /\ Len(waiting) + Len(rest) <= MaxCalls
            /\ OwnOnce(s, t) /\ Distinct(rest) /\ Distinct(waiting)
            /\ \A k \in 1 .. Len(rest) : Result(rest[k]) \notin ToSet(s) /\ rest[k][2] = st.rounds
            /\ \A k \in 1 .. Len(waiting) : Result(waiting[k]) \in ToSet(s) /\ waiting[k][4] = "confirm"
            /\ LoopSoFar(s, t, st.rounds)
<1> DEFINE call    == Head(st.due)
           rest    == Tail(st.due)
           waiting == Waiting(st, call)
           s       == Append(st.msgs, Result(call))
<1> DEFINE C == CallsIn(t)
           m == Result(call)
<1>1. /\ st.due \in Seq(C) /\ st.due # <<>> /\ st.parked \in Seq(C) /\ st.msgs \in Seq(Message)
      /\ st.rounds \in 0 .. MaxRounds
  BY DEF Fine, Typed
<1>2. /\ call \in C /\ rest \in Seq(C) /\ Len(rest) = Len(st.due) - 1 /\ call = st.due[1]
      /\ \A k \in 1 .. Len(rest) : rest[k] = st.due[k + 1]
      /\ Len(st.due) \in Nat /\ Len(rest) \in Nat /\ Len(st.due) > 0
  <2> HIDE DEF C
  <2>1. call \in C /\ rest \in Seq(C) /\ Len(rest) = Len(st.due) - 1 /\ call = st.due[1]
    BY <1>1
  <2>2. \A k \in 1 .. Len(rest) : rest[k] = st.due[k + 1]
    BY <1>1, HeadTailProperties
  <2>3. Len(st.due) \in Nat /\ Len(rest) \in Nat /\ Len(st.due) > 0
    BY <1>1, <2>1
  <2> QED
    BY <2>1, <2>2, <2>3
<1> HIDE DEF rest, call
<1>0. Len(st.due) = Len(rest) + 1 /\ Len(rest) \in Nat /\ Len(st.due) \in Nat
  BY ONLY <1>2
<1>3. C \subseteq Subjects /\ call \in Subjects
  BY <1>2 DEF CallsIn
<1>4. m \in Message /\ m.role = "tool" /\ m.calls = <<>> /\ m.about = call
  BY <1>3, CallsMessages
<1>5. /\ OwnOnce(st.msgs, t) /\ Distinct(st.due) /\ Distinct(st.parked)
      /\ \A k \in 1 .. Len(st.due) : Result(st.due[k]) \notin ToSet(st.msgs) /\ st.due[k][2] = st.rounds
      /\ \A k \in 1 .. Len(st.parked) : Result(st.parked[k]) \in ToSet(st.msgs) /\ st.parked[k][4] = "confirm"
  BY DEF Fine, Fresh
<1>6. m \notin ToSet(st.msgs) /\ call[2] = st.rounds
  BY <1>2, <1>5
<1> HIDE DEF m
<1>7. s = Append(st.msgs, m)
  BY DEF m, s
<1> HIDE DEF s, waiting
<1>8. /\ s \in Seq(Message) /\ Len(st.msgs) \in Nat /\ Len(s) = Len(st.msgs) + 1 /\ s[Len(st.msgs) + 1] = m
      /\ \A i \in 1 .. Len(st.msgs) : s[i] = st.msgs[i]
      /\ ToSet(s) = ToSet(st.msgs) \cup {m}
  BY <1>1, <1>4, <1>7, Appended
<1>9. OwnOnce(s, t)
  BY <1>1, <1>4, <1>5, <1>6, <1>7, OwnAppended
<1>10. NoLongRun(s) /\ Trails(s, Len(rest), st.rounds * Round)
  <2> DEFINE n == st.rounds * Round
             l == Len(st.due)
             k == Len(rest)
  <2>1. n \in Nat /\ n <= LongestRun
    <3>1. st.rounds * Round \in Nat /\ st.rounds * Round <= MaxRounds * Round
      BY <1>1, RoundsBounded
    <3> QED
      BY <3>1, CallsBounded
  <2>2. NoLongRun(st.msgs) /\ Trails(st.msgs, l, n)
    BY DEF Fine, Bounded, Loop
  <2>3. k \in Nat /\ l \in Nat /\ l = 1 + k
    BY <1>2
  <2> HIDE DEF n, l, k
  <2>4. NoLongRun(s) /\ Trails(s, k, n)
    BY <1>1, <1>4, <1>7, <2>1, <2>2, <2>3, RunAppended
  <2> QED
    BY <2>4 DEF n, k
<1>11. waiting \in Seq(C) /\ Len(waiting) + Len(rest) <= MaxCalls
  <2>1. Len(st.parked) + Len(st.due) <= MaxCalls /\ Len(st.parked) \in Nat
    <3>1. Len(st.parked) + Len(st.due) <= MaxCalls
      BY DEF Fine, Bounded
    <3>2. Len(st.parked) \in Nat
      BY <1>1
    <3> QED
      BY <3>1, <3>2
  <2>2. CASE call[4] = "confirm"
    <3>1. waiting = Append(st.parked, call)
      BY <2>2 DEF waiting, Waiting
    <3> HIDE DEF C
    <3>2. waiting \in Seq(C) /\ Len(waiting) = Len(st.parked) + 1
      BY <1>1, <1>2, <3>1, AppendProperties
    <3>3. MaxCalls \in Nat
      BY CallsBounded
    <3>4. Len(waiting) + Len(rest) <= MaxCalls
      <4> DEFINE nw == Len(waiting)  np == Len(st.parked)  nd == Len(st.due)  nr == Len(rest)
      <4>1. nd = nr + 1 /\ nr \in Nat /\ np \in Nat /\ np + nd <= MaxCalls /\ MaxCalls \in Nat /\ nw = np + 1
        BY ONLY <1>0, <2>1, <3>2, <3>3
      <4> HIDE DEF nw, np, nd, nr
      <4>2. nw + nr <= MaxCalls
        BY ONLY <4>1
      <4> QED
        BY ONLY <4>2 DEF nw, nr
    <3> QED
      BY ONLY <3>2, <3>4
  <2>3. CASE call[4] # "confirm"
    <3>1. waiting = st.parked
      BY <2>3 DEF waiting, Waiting
    <3>3. MaxCalls \in Nat
      BY CallsBounded
    <3>4. Len(waiting) + Len(rest) <= MaxCalls
      <4> DEFINE nw == Len(waiting)  np == Len(st.parked)  nd == Len(st.due)  nr == Len(rest)
      <4>1. nd = nr + 1 /\ nr \in Nat /\ np \in Nat /\ np + nd <= MaxCalls /\ MaxCalls \in Nat /\ nw = np
        BY ONLY <1>0, <2>1, <3>1, <3>3
      <4> HIDE DEF nw, np, nd, nr
      <4>2. nw + nr <= MaxCalls
        BY ONLY <4>1
      <4> QED
        BY ONLY <4>2 DEF nw, nr
    <3> QED
      BY ONLY <1>1, <3>1, <3>4
  <2> QED
    BY <2>2, <2>3
<1>12. /\ Distinct(waiting)
       /\ \A k \in 1 .. Len(waiting) : Result(waiting[k]) \in ToSet(s) /\ waiting[k][4] = "confirm"
  <2>1. CASE call[4] = "confirm"
    <3>1. waiting = Append(st.parked, call)
      BY <2>1 DEF waiting, Waiting
    <3>2. /\ Len(waiting) = Len(st.parked) + 1 /\ Len(st.parked) \in Nat
          /\ \A i \in 1 .. Len(st.parked) : waiting[i] = st.parked[i]
          /\ waiting[Len(st.parked) + 1] = call
      <4> HIDE DEF C
      <4> QED
        BY <1>1, <1>2, <3>1, AppendProperties
    <3>3. \A k \in 1 .. Len(waiting) : k \in 1 .. Len(st.parked) \/ k = Len(st.parked) + 1
      BY <3>2
    <3>4. \A k \in 1 .. Len(st.parked) : st.parked[k] # call
      BY <1>5, <1>6 DEF m
    <3>5. Distinct(waiting)
      <4>1. SUFFICES ASSUME NEW i \in 1 .. Len(waiting), NEW j \in 1 .. Len(waiting), waiting[i] = waiting[j]
                     PROVE  i = j
        BY DEF Distinct
      <4>2. CASE i \in 1 .. Len(st.parked) /\ j \in 1 .. Len(st.parked)
        BY <1>5, <3>2, <4>1, <4>2 DEF Distinct
      <4>3. CASE i = Len(st.parked) + 1 /\ j \in 1 .. Len(st.parked)
        BY <3>2, <3>4, <4>1, <4>3
      <4>4. CASE j = Len(st.parked) + 1 /\ i \in 1 .. Len(st.parked)
        BY <3>2, <3>4, <4>1, <4>4
      <4> QED
        BY <3>3, <4>2, <4>3, <4>4
    <3>6. ASSUME NEW k \in 1 .. Len(waiting)
          PROVE  Result(waiting[k]) \in ToSet(s) /\ waiting[k][4] = "confirm"
      <4>1. CASE k \in 1 .. Len(st.parked)
        BY <1>5, <1>8, <3>2, <4>1
      <4>2. CASE k = Len(st.parked) + 1
        BY <1>8, <2>1, <3>2, <4>2 DEF m
      <4> QED
        BY <3>3, <4>1, <4>2
    <3> QED
      BY <3>5, <3>6
  <2>2. CASE call[4] # "confirm"
    BY <1>5, <1>8, <2>2 DEF waiting, Waiting
  <2> QED
    BY <2>1, <2>2
<1>13. \A k \in 1 .. Len(rest) : k + 1 \in 1 .. Len(st.due) /\ k + 1 # 1
  BY <1>2
<1>14. Distinct(rest)
  <2>1. SUFFICES ASSUME NEW i \in 1 .. Len(rest), NEW j \in 1 .. Len(rest), rest[i] = rest[j] PROVE i = j
    BY DEF Distinct
  <2>2. i + 1 = j + 1
    BY <1>2, <1>5, <1>13, <2>1 DEF Distinct
  <2> QED
    BY <2>2
<1>15. \A k \in 1 .. Len(rest) : Result(rest[k]) \notin ToSet(s) /\ rest[k][2] = st.rounds
  <2> SUFFICES ASSUME NEW k \in 1 .. Len(rest)
               PROVE  Result(rest[k]) \notin ToSet(s) /\ rest[k][2] = st.rounds
    OBVIOUS
  <2>1. rest[k] = st.due[k + 1] /\ k + 1 \in 1 .. Len(st.due) /\ 1 \in 1 .. Len(st.due)
    BY <1>2, <1>13
  <2>2. rest[k] # call
    BY <1>2, <1>5, <1>13, <2>1 DEF Distinct
  <2>3. rest[k] \in Subjects
    BY <1>2, <1>3, <2>1, <1>1
  <2>4. Result(rest[k]) # m
    BY <1>4, <2>2, <2>3, CallsMessages
  <2> QED
    BY <1>5, <1>8, <2>1, <2>4
<1>16. WellFormed(s \o Results(rest))
  <2>1. WellFormed(st.msgs \o Results(st.due))
    BY DEF Fine, Shown
  <2>2. /\ st.due \in Seq(Subjects) /\ rest \in Seq(Subjects)
    <3> HIDE DEF C, Subjects
    <3> QED
      BY <1>1, <1>2, <1>3
  <2>3. /\ Results(st.due) \in Seq(Message) /\ Len(Results(st.due)) = Len(st.due)
        /\ \A k \in 1 .. Len(st.due) : Results(st.due)[k] = Result(st.due[k])
        /\ Results(rest) \in Seq(Message) /\ Len(Results(rest)) = Len(rest)
        /\ \A k \in 1 .. Len(rest) : Results(rest)[k] = Result(rest[k])
    BY <2>2, ResultsMessages
  <2> DEFINE p == Results(st.due)
             q == Results(rest)
             f == st.msgs \o p
             g == s \o q
  <2>4. Grown(st.msgs, p, f) /\ Grown(s, q, g)
    BY <1>1, <1>8, <2>3, Concatenated
  <2>5. p \in Seq(Message) /\ q \in Seq(Message) /\ Len(p) = Len(st.due) /\ Len(q) = Len(rest)
        /\ p[1] = m /\ \A k \in 1 .. Len(rest) : q[k] = p[k + 1]
    BY <1>2, <1>13, <2>3 DEF m
  <2> HIDE DEF p, q, f, g
  <2>6. /\ f \in Seq(Message) /\ g \in Seq(Message) /\ Len(f) = Len(st.msgs) + Len(st.due)
        /\ Len(g) = Len(s) + Len(rest)
        /\ \A i \in 1 .. Len(st.msgs) : f[i] = st.msgs[i]
        /\ \A k \in 1 .. Len(st.due) : f[Len(st.msgs) + k] = p[k]
        /\ \A i \in 1 .. Len(s) : g[i] = s[i]
        /\ \A k \in 1 .. Len(rest) : g[Len(s) + k] = q[k]
    BY <2>4, <2>5 DEF Grown
  <2>10. Len(s) = Len(st.msgs) + 1 /\ Len(st.msgs) \in Nat
    BY <1>8
  <2>11. Len(f) = Len(st.msgs) + Len(st.due) /\ Len(g) = Len(s) + Len(rest)
    BY <2>6
  <2>7. Len(f) = Len(g)
    <3> DEFINE nf == Len(f)  ng == Len(g)  ns == Len(s)
               nm == Len(st.msgs)  nd == Len(st.due)  nr == Len(rest)
    <3>1. nd = nr + 1 /\ nr \in Nat /\ ns = nm + 1 /\ nm \in Nat /\ nf = nm + nd /\ ng = ns + nr
      BY ONLY <1>0, <2>10, <2>11
    <3> HIDE DEF nf, ng, ns, nm, nd, nr
    <3>2. nf = ng
      BY ONLY <3>1
    <3> QED
      BY ONLY <3>2 DEF nf, ng
  <2>8. ASSUME NEW i \in 1 .. Len(f) PROVE f[i] = g[i]
    <3>1. CASE i \in 1 .. Len(st.msgs)
      <4>1. i \in 1 .. Len(s)
        BY ONLY <2>10, <3>1
      <4>2. g[i] = s[i] /\ f[i] = st.msgs[i]
        BY <2>6, <3>1, <4>1
      <4> QED
        BY <1>8, <3>1, <4>2
    <3>2. CASE i = Len(st.msgs) + 1
      <4>2. i \in 1 .. Len(s) /\ 1 \in 1 .. Len(st.due)
        BY ONLY <1>0, <2>10, <3>2
      <4>1. f[i] = p[1] /\ g[i] = s[i]
        BY <2>6, <3>2, <4>2
      <4> QED
        BY <1>8, <2>5, <3>2, <4>1
    <3>3. CASE i > Len(st.msgs) + 1
      <4> DEFINE k == i - Len(s)
      <4>1. k \in 1 .. Len(rest) /\ i = Len(s) + k /\ k + 1 \in 1 .. Len(st.due) /\ i = Len(st.msgs) + (k + 1)
        <5> DEFINE nf == Len(f)  ns == Len(s)  nm == Len(st.msgs)  nd == Len(st.due)  nr == Len(rest)
        <5>1. /\ nd = nr + 1 /\ nr \in Nat /\ ns = nm + 1 /\ nm \in Nat /\ nf = nm + nd
              /\ i \in 1 .. nf /\ i > nm + 1
          BY ONLY <1>0, <2>10, <2>11, <3>3, i \in 1 .. Len(f)
        <5> HIDE DEF nf, ns, nm, nd, nr
        <5>2. i - ns \in 1 .. nr /\ i = ns + (i - ns) /\ (i - ns) + 1 \in 1 .. nd /\ i = nm + ((i - ns) + 1)
          BY ONLY <5>1
        <5> QED
          BY ONLY <5>2 DEF ns, nm, nd, nr
      <4> HIDE DEF k
      <4>2. g[i] = q[k] /\ f[i] = p[k + 1]
        BY <2>6, <4>1
      <4> QED
        BY <2>5, <4>1, <4>2
    <3> QED
      BY <1>8, <2>6, <3>1, <3>2, <3>3
  <2>9. f = g
    <3> HIDE DEF Message
    <3> QED
      BY <2>6, <2>7, <2>8, SeqEqual
  <2> QED
    BY <2>1, <2>9 DEF f, g, p, q
<1>17. LoopSoFar(s, t, st.rounds)
  <2> SUFFICES ASSUME NEW i \in 1 .. Len(s), s[i].about[1] = t
               PROVE  /\ s[i].about[4] # "summary" /\ s[i].about[2] <= st.rounds
                      /\ s[i].role = "assistant" => s[i].about[4] = "answer"
    BY DEF LoopSoFar
  <2>1. CASE i \in 1 .. Len(st.msgs)
    BY <1>8, <2>1 DEF Fine, SoFar, Loop
  <2>2. CASE i = Len(st.msgs) + 1
    <3>1. s[i].about = call /\ s[i].role = "tool"
      BY <1>4, <1>8, <2>2
    <3>2. call[4] \in Kinds /\ call[2] <= st.rounds
      BY <1>1, <1>2, <1>6, CallsBounded DEF CallsIn
    <3> QED
      BY <3>1, <3>2 DEF Kinds
  <2> QED
    BY <1>8, <2>1, <2>2
<1> QED
  BY <1>2, <1>6, <1>8, <1>9, <1>10, <1>11, <1>12, <1>14, <1>15, <1>16, <1>17 DEF m, call, rest, waiting, s

-----------------------------------------------------------------------------
(* The tool call.                                                          *)

\* A tool call leaves the program as it should be, also behind the last one, where
\* the parked calls are prompted for (runTool and the closing prompts).
LEMMA ToolIsFine ==
  ASSUME NEW st, NEW new, NEW t \in Nat, NEW b, Fine(st, t, b), st.pc = "tool",
         NEW out, out = Head(st.due),
         new.due = Tail(st.due), new.parked = Waiting(st, out), new.rounds = st.rounds,
         new.msgs = IF Tail(st.due) # <<>> THEN Append(st.msgs, Result(out))
                    ELSE Append(st.msgs, Result(out)) \o Prompts(Waiting(st, out)),
         new.pc = IF Tail(st.due) # <<>> THEN "tool"
                  ELSE IF Waiting(st, out) # <<>> THEN "persist"
                  ELSE IF st.rounds = MaxRounds THEN "final" ELSE "model"
  PROVE  Fine(new, t, b)
<1> DEFINE call    == Head(st.due)
           rest    == Tail(st.due)
           waiting == Waiting(st, call)
           s       == Append(st.msgs, Result(call))
           C       == CallsIn(t)
<1>1. /\ call \in C /\ rest \in Seq(C) /\ waiting \in Seq(C)
      /\ s \in Seq(Message) /\ ToSet(s) = ToSet(st.msgs) \cup {Result(call)}
      /\ WellFormed(s \o Results(rest))
      /\ NoLongRun(s) /\ Trails(s, Len(rest), st.rounds * Round)
      /\ Len(waiting) + Len(rest) <= MaxCalls
      /\ OwnOnce(s, t) /\ Distinct(rest) /\ Distinct(waiting)
      /\ \A k \in 1 .. Len(rest) : Result(rest[k]) \notin ToSet(s) /\ rest[k][2] = st.rounds
      /\ \A k \in 1 .. Len(waiting) : Result(waiting[k]) \in ToSet(s) /\ waiting[k][4] = "confirm"
      /\ LoopSoFar(s, t, st.rounds)
  BY ResultIsTold
<1>2. /\ new.due = rest /\ new.parked = waiting /\ new.rounds = st.rounds
      /\ new.msgs = IF rest # <<>> THEN s ELSE s \o Prompts(waiting)
      /\ new.pc = IF rest # <<>> THEN "tool"
                  ELSE IF waiting # <<>> THEN "persist"
                  ELSE IF st.rounds = MaxRounds THEN "final" ELSE "model"
  OBVIOUS
<1>3. /\ st.rounds \in 0 .. MaxRounds /\ st.rounds # 0
      /\ ToSet(BatchMessages(t, b)) \subseteq ToSet(st.msgs)
  BY DEF Fine, Typed, TellsAll
<1> HIDE DEF call, rest, waiting, s
<1>4. ToSet(BatchMessages(t, b)) \subseteq ToSet(s)
  BY <1>1, <1>3
<1>5. CASE rest # <<>> \/ waiting = <<>>
  <2>1. new.msgs = s
    <3>1. CASE rest # <<>>
      BY <1>2, <3>1
    <3>2. CASE rest = <<>> /\ waiting = <<>>
      <4>1. Prompts(waiting) = <<>>
        BY <3>2 DEF Prompts
      <4>2. s \o <<>> = s
        BY <1>1
      <4> QED
        BY <1>2, <3>2, <4>1, <4>2
    <3> QED
      BY <1>5, <3>1, <3>2
  <2>2. new.pc = IF rest # <<>> THEN "tool" ELSE IF st.rounds = MaxRounds THEN "final" ELSE "model"
    BY ONLY <1>2, <1>5
  <2>3. Typed(new, t)
    BY ONLY <1>1, <1>2, <1>3, <1>5, <2>1, <2>2 DEF Typed, Early, Late, Behind, Loop
  <2>4. Bounded(new)
    BY ONLY <1>1, <1>2, <2>1, <2>2 DEF Bounded, Early, Loop
  <2>5. EndsOwn(new, t)
    BY ONLY <2>2 DEF EndsOwn, Late, Behind
  <2>6. Shown(new)
    BY ONLY <1>1, <1>2, <2>1 DEF Shown
  <2>7. Fresh(new, t)
    BY ONLY <1>1, <1>2, <2>1 DEF Fresh
  <2>8. SoFar(new, t)
    BY ONLY <1>1, <1>2, <2>1, <2>2 DEF SoFar, LoopSoFar, Early, Loop
  <2>9. TellsAll(new, t, b)
    BY ONLY <1>4, <2>1, <2>2 DEF TellsAll, Late, Behind
  <2> QED
    BY ONLY <2>3, <2>4, <2>5, <2>6, <2>7, <2>8, <2>9 DEF Fine
<1>6. CASE rest = <<>> /\ waiting # <<>>
  <2> DEFINE x == Prompts(waiting)
             r == s \o x
  <2>1. new.pc = "persist" /\ new.msgs = r /\ new.due = <<>> /\ new.parked = waiting
        /\ new.rounds = st.rounds
    BY ONLY <1>2, <1>6
  <2>2. waiting \in Seq(Subjects) /\ Len(waiting) \in Nat /\ Len(waiting) > 0
    <3>1. C \subseteq Subjects
      BY DEF CallsIn
    <3> HIDE DEF C, Subjects
    <3>2. waiting \in Seq(Subjects)
      BY <1>1, <3>1
    <3> QED
      BY ONLY <1>6, <3>2
  <2>3. /\ x \in Seq(Message) /\ Len(x) = Len(waiting)
        /\ \A k \in 1 .. Len(waiting) : /\ waiting[k] \in Subjects
                                        /\ x[k] = Prompt(waiting[k])
    BY ONLY <2>2, ResultsMessages
  <2>4. \A k \in 1 .. Len(x) : /\ x[k].role = "assistant" /\ x[k].calls = <<>> /\ x[k].about = waiting[k]
                               /\ waiting[k][1] = t /\ waiting[k][4] = "confirm"
    <3>1. \A k \in 1 .. Len(waiting) : waiting[k] \in C
      BY ONLY <1>1
    <3>2. \A k \in 1 .. Len(waiting) : waiting[k][1] = t /\ waiting[k][4] = "confirm"
      BY ONLY <1>1, <3>1 DEF CallsIn
    <3> QED
      BY ONLY <2>3, <3>2, CallsMessages
  <2>5. Grown(s, x, r)
    BY <1>1, <2>3, Concatenated
  <2> HIDE DEF x, r
  <2>6. ToSet(r) = ToSet(s) \cup ToSet(x)
    BY ONLY <2>5, AllOf
  <2>7. /\ Len(s) \in Nat /\ Len(x) \in Nat /\ Len(r) \in Nat /\ Len(r) = Len(s) + Len(x)
        /\ DOMAIN s = 1 .. Len(s) /\ DOMAIN x = 1 .. Len(x) /\ DOMAIN r = 1 .. Len(r)
        /\ \A i \in 1 .. Len(s) : i \in 1 .. Len(r) /\ r[i] = s[i]
        /\ \A k \in 1 .. Len(x) : Len(s) + k \in 1 .. Len(r) /\ r[Len(s) + k] = x[k]
        /\ \A i \in 1 .. Len(r) : i \in 1 .. Len(s) \/ \E k \in 1 .. Len(x) : i = Len(s) + k
    BY ONLY <2>5, InFront
  <2>8. r \in Seq(Message)
    BY ONLY <2>5 DEF Grown
  <2>9. Typed(new, t)
    BY ONLY <1>1, <1>3, <2>1, <2>8 DEF Typed, Early, Late, Behind, Loop
  <2>10. Bounded(new)
    <3> DEFINE n == st.rounds * Round + MaxCalls
               v == st.rounds * Round
               l == Len(x) + 0
    <3>1. v \in Nat /\ v <= MaxRounds * Round
      BY ONLY <1>3, RoundsBounded
    <3>2. n \in Nat /\ n <= LongestRun /\ LongestRun \in Nat /\ MaxCalls \in Nat /\ n = v + MaxCalls
      BY ONLY <3>1, CallsBounded
    <3>3. Trails(s, 0, v)
      <4>1. Len(rest) = 0
        BY ONLY <1>6
      <4> QED
        BY ONLY <1>1, <4>1
    <3>4. Len(x) <= MaxCalls
      <4>1. Len(rest) = 0
        BY ONLY <1>6
      <4> QED
        BY ONLY <1>1, <2>2, <2>3, <4>1
    <3> HIDE DEF n, v
    <3>5. l \in Nat /\ l + v <= 0 + n
      BY ONLY <2>7, <3>1, <3>2, <3>4
    <3> HIDE DEF l
    <3>6. Trails(s, l, n)
      BY ONLY <1>1, <3>1, <3>2, <3>3, <3>5, LaterTrails
    <3>7. Trails(s, Len(x) + 0, n)
      BY ONLY <3>6 DEF l
    <3>8. NoLongRun(r)
      BY ONLY <1>1, <2>5, <3>2, <3>7, RunGrows
    <3> QED
      BY ONLY <2>1, <3>8 DEF Bounded, Early, Loop
  <2>11. EndsOwn(new, t)
    <3>1. Len(r) > 0 /\ Len(x) \in 1 .. Len(x) /\ Len(r) = Len(s) + Len(x)
      BY ONLY <2>2, <2>3, <2>7
    <3>2. r[Len(r)] = x[Len(x)]
      BY ONLY <2>7, <3>1
    <3>3. r[Len(r)].role = "assistant" /\ r[Len(r)].about[1] = t
      BY ONLY <2>4, <3>1, <3>2
    <3> QED
      BY ONLY <2>1, <3>1, <3>3 DEF EndsOwn, Behind
  <2>12. Shown(new)
    <3>1. WellFormed(s)
      <4>1. s \o Results(rest) = s
        BY ONLY <1>1, <1>6, NothingDue
      <4> QED
        BY ONLY <1>1, <4>1
    <3>2. Plain(x)
      BY ONLY <2>4 DEF Plain
    <3>3. WellFormed(r)
      BY ONLY <2>5, <3>1, <3>2, PlainBehind
    <3>4. r \o Results(new.due) = r
      BY ONLY <2>1, <2>8, NothingDue
    <3> QED
      BY ONLY <2>1, <3>3, <3>4 DEF Shown
  <2>13. Fresh(new, t)
    <3>1. \A i, j \in 1 .. Len(x) : x[i] = x[j] => i = j
      <4> SUFFICES ASSUME NEW i \in 1 .. Len(x), NEW j \in 1 .. Len(x), x[i] = x[j] PROVE i = j
        OBVIOUS
      <4>1. x[i].about = waiting[i] /\ x[j].about = waiting[j]
        BY ONLY <2>4, i \in 1 .. Len(x), j \in 1 .. Len(x)
      <4>2. waiting[i] = waiting[j]
        BY ONLY <4>1, x[i] = x[j]
      <4> QED
        BY <1>1, <2>3, <4>2 DEF Distinct
    <3>2. \A i \in 1 .. Len(x) : \A j \in 1 .. Len(s) : x[i] # s[j]
      <4> SUFFICES ASSUME NEW i \in 1 .. Len(x), NEW j \in 1 .. Len(s), x[i] = s[j] PROVE FALSE
        OBVIOUS
      <4>1. x[i].about[1] = t /\ x[i].role = "assistant" /\ x[i].about[4] = "confirm"
        BY ONLY <2>4, i \in 1 .. Len(x)
      <4> QED
        BY <1>1, <4>1 DEF LoopSoFar
    <3>3. OwnOnce(r, t)
      BY ONLY <1>1, <2>5, <3>1, <3>2, OnceGrows
    <3> QED
      BY ONLY <1>1, <2>1, <2>6, <3>3 DEF Fresh, Distinct
  <2>14. SoFar(new, t)
    <3> SUFFICES ASSUME NEW i \in 1 .. Len(r), r[i].about[1] = t PROVE r[i].about[4] # "summary"
      BY <2>1 DEF SoFar, Early, Loop
    <3>1. CASE i \in 1 .. Len(s)
      BY <1>1, <2>7, <3>1 DEF LoopSoFar
    <3>2. ASSUME NEW k \in 1 .. Len(x), i = Len(s) + k PROVE r[i].about[4] # "summary"
      <4>1. r[i] = x[k]
        BY ONLY <2>7, <3>2
      <4> QED
        BY ONLY <2>4, <4>1, k \in 1 .. Len(x)
    <3> QED
      BY <2>7, <3>1, <3>2
  <2>15. TellsAll(new, t, b)
    <3>1. \A k \in 1 .. Len(waiting) : Prompt(waiting[k]) \in ToSet(x)
      BY ONLY <2>3, <2>7 DEF ToSet
    <3> QED
      BY ONLY <1>4, <2>1, <2>6, <3>1 DEF TellsAll
  <2> QED
    BY ONLY <2>9, <2>10, <2>11, <2>12, <2>13, <2>14, <2>15 DEF Fine
<1> QED
  BY ONLY <1>5, <1>6

-----------------------------------------------------------------------------
(* What is stored, and what the program at the end of its path has to do   *)
(* with it.                                                                *)

\* What is stored.
World == [ctx |-> ctx, pending |-> pending, effects |-> effects, memory |-> memory, heads |-> heads]

\* All that is stored of what was said, and all that is told with what the program says.
RecordOf(w)  == ToSet(w.ctx) \cup UNION {ToSet(w.heads[u]) : u \in Turns}
Told(st, w)  == RecordOf(w) \cup ToSet(st.msgs)

\* The transcript is what was loaded, and behind it what the turn said.
Since(c, s, t) ==
  /\ Len(c) <= Len(s) /\ \A i \in 1 .. Len(c) : s[i] = c[i]
  /\ \A i \in 1 .. Len(s) : i > Len(c) => s[i].about[1] = t

\* The transcript and the heads, and how far the program has come with them.
Stored(st, w, t) ==
  /\ w.ctx \in Seq(Message) /\ DOMAIN w.heads = Turns /\ \A u \in Turns : w.heads[u] \in Seq(Message)
  /\ NoLongRun(w.ctx) /\ WellFormed(w.ctx) /\ \A u \in Turns : WellFormed(w.heads[u])
  /\ \A i \in 1 .. Len(w.ctx) :
       w.ctx[i].about[1] <= t /\ (st.pc \notin Behind \cup {"end"} => w.ctx[i].about[1] < t)
  /\ \A u \in Turns : w.heads[u] # <<>> => u < t \/ (u = t /\ st.pc \in {"truncate", "end"})
  /\ \A u \in Turns : \A i \in 1 .. Len(w.heads[u]) : w.heads[u][i].about[1] <= u
  /\ st.pc \in Early \cup Loop \cup {"persist"} => Since(w.ctx, st.msgs, t)
  /\ st.pc \in Behind => w.ctx = st.msgs
  /\ st.pc \in {"log", "truncate"} => t \in w.memory
  /\ st.pc = "truncate" => w.heads[t] = SubSeq(st.msgs, 1, CutOf(st.msgs))

\* No message has two places, in the transcript and the heads of the turns in U.
Once(w, U) ==
  /\ Distinct(w.ctx)
  /\ \A u \in U : Distinct(w.heads[u]) /\ ToSet(w.ctx) \cap ToSet(w.heads[u]) = {}
  /\ \A u, v \in U : u # v => ToSet(w.heads[u]) \cap ToSet(w.heads[v]) = {}

\* A summary stands for a head that is logged and remembered.
RecallsAll(w) ==
  \A m \in RecordOf(w) : m.about[4] = "summary" =>
    m.about[1] \in Turns /\ m.about[1] \in w.memory /\ w.heads[m.about[1]] # <<>>

\* Only at the truncation is a head both in the transcript and in the log.
Recorded(st, w, t) ==
  /\ RecallsAll(w)
  /\ Once(w, IF st.pc = "truncate" THEN Turns \ {t} ELSE Turns)

\* The last word is an answer of turn t.
OwnEnd(c, t) ==
  \E i \in 1 .. Len(c) : /\ c[i].role = "assistant" /\ c[i].about[1] = t
                         /\ \A j \in i + 1 .. Len(c) : c[j].role # "assistant"

\* At the end the turn has the last word, and the transcript is short.
Ended(st, w, t) ==
  st.pc = "end" =>
    /\ OwnEnd(w.ctx, t)
    /\ Len(w.ctx) > 0
    /\ w.ctx[Len(w.ctx)].about[4] # "reprompt" =>
         Len(w.ctx) <= Threshold \/ Len(w.ctx) <= 1 + Keep + LongestRun

\* What was done, and when.
Effects == [call : Subjects, in : Nat]

\* What was done was done once and is told, and so is what awaits approval.
Done(st, w, t, inp) ==
  /\ w.effects \in Seq(Effects) /\ w.pending \subseteq Subjects
  /\ \A i, j \in 1 .. Len(w.effects) : w.effects[i].call = w.effects[j].call => i = j
  /\ \A i \in 1 .. Len(w.effects) :
       /\ w.effects[i].call \notin w.pending /\ Result(w.effects[i].call) \in Told(st, w)
       /\ w.effects[i].call[4] = "auto" \/ Update(w.effects[i].in) \in Told(st, w)
  /\ \A a \in w.pending :
       /\ a[4] = "confirm" /\ Result(a) \in Told(st, w)
       /\ Prompt(a) \in Told(st, w) \/ a \in ToSet(st.parked)
  /\ \A u \in 1 .. t : u < t => ToSet(BatchMessages(u, inp[u])) \subseteq RecordOf(w)
  /\ st.pc \in Behind \cup {"end"} => ToSet(st.msgs) \subseteq RecordOf(w)

\* All of this.
Held(st, w, t, inp) ==
  Stored(st, w, t) /\ Recorded(st, w, t) /\ Ended(st, w, t) /\ Done(st, w, t, inp)

\* What is done goes on being told.
LEMMA DoneGrows ==
  ASSUME NEW st, NEW w, NEW new, NEW v, NEW t, NEW inp, Done(st, w, t, inp),
         RecordOf(w) \subseteq RecordOf(v), Told(st, w) \subseteq Told(new, v),
         \A a \in v.pending :
           \/ /\ a \in w.pending
              /\ a \in ToSet(st.parked) => a \in ToSet(new.parked) \/ Prompt(a) \in Told(new, v)
           \/ /\ a \in Subjects /\ a[4] = "confirm" /\ Result(a) \in Told(new, v)
              /\ Prompt(a) \in Told(new, v) \/ a \in ToSet(new.parked)
              /\ \A i \in 1 .. Len(v.effects) : v.effects[i].call # a,
         \/ v.effects = w.effects
         \/ \E e \in Effects :
              /\ v.effects = Append(w.effects, e)
              /\ e.call \notin v.pending /\ Result(e.call) \in Told(new, v)
              /\ e.call[4] = "auto" \/ Update(e.in) \in Told(new, v)
              /\ \A i \in 1 .. Len(w.effects) : w.effects[i].call # e.call,
         new.pc \in Behind \cup {"end"} => ToSet(new.msgs) \subseteq RecordOf(v)
  PROVE  Done(new, v, t, inp)
<1>1. v.pending \subseteq Subjects
  BY DEF Done
<1>2. ASSUME NEW a \in v.pending
      PROVE  /\ a[4] = "confirm" /\ Result(a) \in Told(new, v)
             /\ Prompt(a) \in Told(new, v) \/ a \in ToSet(new.parked)
  BY DEF Done
<1>3. \A u \in 1 .. t : u < t => ToSet(BatchMessages(u, inp[u])) \subseteq RecordOf(v)
  BY DEF Done
<1>4. \A i \in 1 .. Len(w.effects) :
        /\ w.effects[i].call \notin v.pending /\ Result(w.effects[i].call) \in Told(new, v)
        /\ w.effects[i].call[4] = "auto" \/ Update(w.effects[i].in) \in Told(new, v)
  <2> SUFFICES ASSUME NEW i \in 1 .. Len(w.effects)
               PROVE  /\ w.effects[i].call \notin v.pending /\ Result(w.effects[i].call) \in Told(new, v)
                      /\ w.effects[i].call[4] = "auto" \/ Update(w.effects[i].in) \in Told(new, v)
    OBVIOUS
  <2>1. /\ w.effects[i].call \notin w.pending /\ Result(w.effects[i].call) \in Told(new, v)
        /\ w.effects[i].call[4] = "auto" \/ Update(w.effects[i].in) \in Told(new, v)
    BY DEF Done
  <2>2. w.effects \in Seq(Effects)
    BY DEF Done
  <2>3. \E j \in 1 .. Len(v.effects) : v.effects[j] = w.effects[i]
    <3>1. CASE v.effects = w.effects
      BY <3>1
    <3>2. ASSUME NEW e \in Effects, v.effects = Append(w.effects, e)
          PROVE  \E j \in 1 .. Len(v.effects) : v.effects[j] = w.effects[i]
      <4>1. i \in 1 .. Len(v.effects) /\ v.effects[i] = w.effects[i]
        BY <2>2, <3>2, AppendProperties
      <4> QED
        BY <4>1
    <3> QED
      BY <3>1, <3>2
  <2> QED
    BY <2>1, <2>3
<1>5. /\ v.effects \in Seq(Effects)
      /\ \A i, j \in 1 .. Len(v.effects) : v.effects[i].call = v.effects[j].call => i = j
      /\ \A i \in 1 .. Len(v.effects) :
           /\ v.effects[i].call \notin v.pending /\ Result(v.effects[i].call) \in Told(new, v)
           /\ v.effects[i].call[4] = "auto" \/ Update(v.effects[i].in) \in Told(new, v)
  <2>1. CASE v.effects = w.effects
    BY <1>4, <2>1 DEF Done
  <2>2. ASSUME NEW e \in Effects, v.effects = Append(w.effects, e),
               e.call \notin v.pending, Result(e.call) \in Told(new, v),
               e.call[4] = "auto" \/ Update(e.in) \in Told(new, v),
               \A i \in 1 .. Len(w.effects) : w.effects[i].call # e.call
        PROVE  /\ v.effects \in Seq(Effects)
               /\ \A i, j \in 1 .. Len(v.effects) : v.effects[i].call = v.effects[j].call => i = j
               /\ \A i \in 1 .. Len(v.effects) :
                    /\ v.effects[i].call \notin v.pending /\ Result(v.effects[i].call) \in Told(new, v)
                    /\ v.effects[i].call[4] = "auto" \/ Update(v.effects[i].in) \in Told(new, v)
    <3>1. w.effects \in Seq(Effects)
          /\ \A i, j \in 1 .. Len(w.effects) : w.effects[i].call = w.effects[j].call => i = j
      BY DEF Done
    <3>2. /\ v.effects \in Seq(Effects) /\ Len(v.effects) = Len(w.effects) + 1 /\ Len(w.effects) \in Nat
          /\ \A i \in 1 .. Len(w.effects) : v.effects[i] = w.effects[i]
          /\ v.effects[Len(w.effects) + 1] = e
      <4>1. Len(w.effects) \in Nat
        BY <3>1
      <4> QED
        BY <2>2, <3>1, <4>1, AppendProperties
    <3>3. \A i \in 1 .. Len(v.effects) : i \in 1 .. Len(w.effects) \/ i = Len(w.effects) + 1
      BY ONLY <3>2
    <3>4. \A i, j \in 1 .. Len(v.effects) : v.effects[i].call = v.effects[j].call => i = j
      BY ONLY <2>2, <3>1, <3>2, <3>3
    <3>5. \A i \in 1 .. Len(v.effects) :
            /\ v.effects[i].call \notin v.pending /\ Result(v.effects[i].call) \in Told(new, v)
            /\ v.effects[i].call[4] = "auto" \/ Update(v.effects[i].in) \in Told(new, v)
      BY ONLY <1>4, <2>2, <3>2, <3>3
    <3> QED
      BY ONLY <3>2, <3>4, <3>5
  <2> QED
    BY <2>1, <2>2
<1> QED
  BY <1>1, <1>2, <1>3, <1>5 DEF Done

-----------------------------------------------------------------------------
(* The cut.                                                                *)

\* A set of numbers has a least one.
LEMMA LeastOf ==
  ASSUME NEW S \in SUBSET Nat, NEW n \in S
  PROVE  \E m \in S : \A k \in S : m <= k
<1>1. PICK x \in S : \A y \in S : ~(<<y, x>> \in OpToRel(<, Nat))
  BY NatLessThanWellFounded, WFMin
<1>2. x \in Nat /\ \A y \in S : y \in Nat
  OBVIOUS
<1>3. \A y \in S : ~(y < x)
  BY <1>1, <1>2 DEF OpToRel
<1>4. \A y \in S : x <= y
  BY ONLY <1>2, <1>3
<1> QED
  BY ONLY <1>4, x \in S

\* The cut is the last boundary of a turn that leaves Keep messages.
LEMMA CutIsLast ==
  ASSUME NEW s \in Seq(Message), Compacts(s)
  PROVE  /\ CutOf(s) \in 1 .. Len(s) /\ CutOf(s) + Keep <= Len(s) /\ s[CutOf(s) + 1].role = "user"
         /\ \A j \in Cuts(s) : j <= CutOf(s)
<1> DEFINE n == Len(s)
           C == Cuts(s)
           S == {n - j : j \in C}
<1>1. n \in Nat /\ Keep \in Nat /\ Keep >= 1
  BY TurnConstants
<1>2. C = {i \in 1 .. n - Keep : s[i + 1].role = "user"} /\ C # {}
  BY DEF Compacts, Cuts
<1> HIDE DEF n, C
<1>3. \A j \in C : j \in 1 .. n /\ j + Keep <= n /\ s[j + 1].role = "user"
  BY ONLY <1>1, <1>2
<1>4. PICK c \in C : TRUE
  BY <1>2
<1>5. n - c \in S /\ S \in SUBSET Nat
  BY ONLY <1>1, <1>3, <1>4
<1> HIDE DEF S
<1>6. PICK m \in S : \A k \in S : m <= k
  BY ONLY <1>5, LeastOf
<1>7. PICK d \in C : m = n - d
  BY <1>6 DEF S
<1>8. \A j \in C : n - d <= n - j
  BY <1>6, <1>7 DEF S
<1>9. d \in C /\ \A j \in C : j <= d
  BY ONLY <1>1, <1>3, <1>7, <1>8
<1>10. CutOf(s) \in C /\ \A j \in C : j <= CutOf(s)
  BY <1>9 DEF CutOf, C
<1> QED
  BY <1>3, <1>10 DEF n, C

\* Between the cut and the messages that are kept no turn begins.
LEMMA BehindCut ==
  ASSUME NEW s \in Seq(Message), Compacts(s), NoLongRun(s)
  PROVE  Len(s) - CutOf(s) <= Keep + LongestRun
<1> DEFINE c == CutOf(s)
           n == Len(s)
           K == Keep
           L == LongestRun
           C == Cuts(s)
<1>1. /\ c \in 1 .. n /\ c + K <= n /\ s[c + 1].role = "user" /\ \A j \in C : j <= c
  BY CutIsLast
<1>2. n \in Nat /\ K \in Nat /\ K >= 1 /\ L \in Nat
  BY TurnConstants, CallsBounded
<1>3. C = {i \in 1 .. n - K : s[i + 1].role = "user"}
  BY DEF Cuts
<1>4. \A i, j \in 0 .. n : i <= j /\ (\A k \in i + 1 .. j : s[k].role # "user") => j - i <= L
  BY DEF NoLongRun
<1> HIDE DEF c, n, K, L, C
<1>5. \A i \in 1 .. n : i + K <= n /\ s[i + 1].role = "user" => i <= c
  <2>1. \A i \in 1 .. n : i + K <= n /\ s[i + 1].role = "user" => i \in C
    BY ONLY <1>2, <1>3
  <2> QED
    BY ONLY <1>1, <2>1
<1> SUFFICES n - c <= K + L
  BY DEF c, n, K, L
<1>6. CASE c + K = n
  BY ONLY <1>2, <1>1, <1>6
<1>7. CASE c + K < n
  <2> DEFINE i == c + 1
             j == (n - K) + 1
  <2>1. i \in 0 .. n /\ j \in 0 .. n /\ i <= j
    BY ONLY <1>1, <1>2, <1>7
  <2>2. \A k \in i + 1 .. j : k - 1 \in 1 .. n /\ (k - 1) + K <= n /\ k - 1 > c /\ (k - 1) + 1 = k
    BY ONLY <1>1, <1>2, <1>7
  <2> HIDE DEF i, j
  <2>3. ASSUME NEW k \in i + 1 .. j PROVE s[k].role # "user"
    <3>1. k - 1 \in 1 .. n /\ (k - 1) + K <= n /\ k - 1 > c /\ (k - 1) + 1 = k
      BY <2>2
    <3> DEFINE h == k - 1
    <3> HIDE DEF h
    <3>2. h \in 1 .. n /\ h + K <= n /\ ~(h <= c)
      BY ONLY <1>1, <1>2, <3>1 DEF h
    <3>3. s[h + 1].role # "user"
      BY ONLY <1>5, <3>2
    <3> QED
      BY ONLY <3>1, <3>3 DEF h
  <2>4. j - i <= L
    BY ONLY <1>4, <2>1, <2>3
  <2> QED
    BY ONLY <1>1, <1>2, <1>7, <2>4 DEF i, j
<1> QED
  BY ONLY <1>1, <1>2, <1>6, <1>7

\* A transcript that is too long has a boundary to cut at.
LEMMA ShortWithoutCut ==
  ASSUME NEW s \in Seq(Message), NoLongRun(s), ~Compacts(s)
  PROVE  Len(s) <= Threshold \/ Len(s) <= 1 + Keep + LongestRun
<1> DEFINE n == Len(s)
           K == Keep
           L == LongestRun
<1>1. n \in Nat /\ K \in Nat /\ K >= 1 /\ L \in Nat /\ Threshold \in Nat
  BY TurnConstants, CallsBounded
<1>2. n <= Threshold \/ Cuts(s) = {}
  BY <1>1 DEF Compacts
<1>3. ASSUME Cuts(s) = {}, n > K
      PROVE  n <= 1 + K + L
  <2>1. \A i \in 1 .. n : i + K <= n => s[i + 1].role # "user"
    <3>1. \A i \in 1 .. n : i + K <= n /\ s[i + 1].role = "user" => i \in Cuts(s)
      BY <1>1 DEF Cuts
    <3> QED
      BY <1>3, <3>1
  <2> DEFINE j == (n - K) + 1
  <2>2. 1 \in 0 .. n /\ j \in 0 .. n /\ 1 <= j
    BY <1>1, <1>3
  <2>3. \A k \in 1 + 1 .. j : k - 1 \in 1 .. n /\ (k - 1) + K <= n /\ (k - 1) + 1 = k
    BY <1>1, <1>3
  <2>4. \A k \in 1 + 1 .. j : s[k].role # "user"
    BY <1>1, <2>1, <2>3
  <2> HIDE DEF j
  <2>5. j - 1 <= L
    BY <2>2, <2>4 DEF NoLongRun
  <2> QED
    BY <1>1, <1>3, <2>5 DEF j
<1> QED
  BY <1>1, <1>2, <1>3

\* What is cut off, and what stays behind the summary.
HeadOf(s)    == SubSeq(s, 1, CutOf(s))
Short(s, t) == <<Summary(t)>> \o SubSeq(s, CutOf(s) + 1, Len(s))

\* Both have messages, at known places.
LEMMA CutParts ==
  ASSUME NEW s \in Seq(Message), Compacts(s), NEW t \in Nat
  PROVE  /\ HeadOf(s) \in Seq(Message) /\ Len(HeadOf(s)) = CutOf(s)
         /\ \A i \in 1 .. CutOf(s) : i \in 1 .. Len(s) /\ HeadOf(s)[i] = s[i]
         /\ Short(s, t) \in Seq(Message) /\ Len(Short(s, t)) = 1 + (Len(s) - CutOf(s))
         /\ Short(s, t)[1] = Summary(t)
         /\ \A i \in 1 .. Len(Short(s, t)) :
              i = 1 \/ (CutOf(s) + (i - 1) \in 1 .. Len(s) /\ Short(s, t)[i] = s[CutOf(s) + (i - 1)])
         /\ \A i \in CutOf(s) + 1 .. Len(s) :
              (i - CutOf(s)) + 1 \in 1 .. Len(Short(s, t)) /\ Short(s, t)[(i - CutOf(s)) + 1] = s[i]
<1> DEFINE c == CutOf(s)
           n == Len(s)
           h == SubSeq(s, 1, c)
           y == SubSeq(s, c + 1, n)
           x == <<Summary(t)>>
           r == x \o y
<1>1. c \in 1 .. n /\ c + Keep <= n /\ n \in Nat /\ Keep \in Nat /\ Keep >= 1
  BY CutIsLast, TurnConstants
<1> HIDE DEF c
<1>2. c + 1 <= n
  BY <1>1
<1>3. h \in Seq(Message) /\ Len(h) = c /\ \A i \in 1 .. c : h[i] = s[i]
  BY <1>1
<1>4. y \in Seq(Message) /\ Len(y) = n - c /\ \A i \in 1 .. n - c : y[i] = s[c + i]
  BY <1>1
<1>5. x \in Seq(Message) /\ Len(x) = 1 /\ x[1] = Summary(t)
  BY MembersMessages
<1> HIDE DEF h, y, x
<1>6. Grown(x, y, r)
  BY <1>4, <1>5, Concatenated
<1> HIDE DEF r
<1>7. /\ r \in Seq(Message) /\ Len(r) = Len(x) + Len(y)
      /\ \A i \in 1 .. Len(x) : r[i] = x[i]
      /\ \A k \in 1 .. Len(y) : r[Len(x) + k] = y[k]
  BY ONLY <1>6 DEF Grown
<1> HIDE DEF n
<1>8. /\ r \in Seq(Message) /\ Len(r) = 1 + (n - c) /\ r[1] = Summary(t)
      /\ \A k \in 1 .. n - c : r[1 + k] = s[c + k]
  <2>1. r \in Seq(Message) /\ Len(r) = 1 + (n - c)
    BY ONLY <1>4, <1>5, <1>7
  <2>2. r[1] = x[1]
    BY ONLY <1>5, <1>7
  <2>3. \A k \in 1 .. n - c : r[1 + k] = y[k]
    BY ONLY <1>4, <1>5, <1>7
  <2> QED
    BY ONLY <1>4, <1>5, <2>1, <2>2, <2>3
<1>9. \A i \in 1 .. Len(r) : i = 1 \/ (c + (i - 1) \in 1 .. n /\ r[i] = s[c + (i - 1)])
  <2> SUFFICES ASSUME NEW i \in 1 .. Len(r), i # 1 PROVE c + (i - 1) \in 1 .. n /\ r[i] = s[c + (i - 1)]
    OBVIOUS
  <2>1. i - 1 \in 1 .. n - c /\ 1 + (i - 1) = i /\ c + (i - 1) \in 1 .. n
    BY <1>1, <1>8
  <2>2. r[1 + (i - 1)] = s[c + (i - 1)]
    BY <1>8, <2>1
  <2> QED
    BY <2>1, <2>2
<1>10. \A i \in c + 1 .. n : (i - c) + 1 \in 1 .. Len(r) /\ r[(i - c) + 1] = s[i]
  <2> SUFFICES ASSUME NEW i \in c + 1 .. n PROVE (i - c) + 1 \in 1 .. Len(r) /\ r[(i - c) + 1] = s[i]
    OBVIOUS
  <2>1. i - c \in 1 .. n - c /\ 1 + (i - c) = (i - c) + 1 /\ c + (i - c) = i /\ (i - c) + 1 \in 1 .. Len(r)
    BY <1>1, <1>8
  <2>2. r[1 + (i - c)] = s[c + (i - c)]
    BY <1>8, <2>1
  <2> QED
    BY <2>1, <2>2
<1>11. \A i \in 1 .. c : i \in 1 .. n /\ h[i] = s[i]
  BY <1>1, <1>3
<1> QED
  BY <1>3, <1>8, <1>9, <1>10, <1>11 DEF HeadOf, Short, h, r, x, y, c, n

-----------------------------------------------------------------------------
(* A step that happens now: what it may return, and what it does in the    *)
(* store.                                                                  *)

\* What becomes of approvals and effects where an action settles (Settle), ...
Settled(out, t, w, v) ==
  IF Silent(out) THEN v.pending = w.pending /\ v.effects = w.effects
  ELSE /\ v.pending = IF out[2] \in {"refined", "told"} THEN w.pending ELSE w.pending \ {out[1]}
       /\ v.effects = IF out[2] = "executed" THEN Append(w.effects, [call |-> out[1], in |-> t])
                      ELSE w.effects

\* ... and where a tool runs (RunTool).
Ran(call, t, w, v) ==
  /\ v.effects = IF call[4] = "auto" THEN Append(w.effects, [call |-> call, in |-> t]) ELSE w.effects
  /\ v.pending = IF call[4] = "confirm" THEN w.pending \cup {call} ELSE w.pending

\* What comes of an approval; one that is settled or refined was pending.
Outcomes == {"executed", "denied", "refined", "told", "unclear"}
Settling(out, waiting) ==
  out = <<>> \/ \E a : \E x \in Outcomes : out = <<a, x>> /\ (x \in {"executed", "refined"} => a \in waiting)

\* What a step may return.
Returns(st, out, w) ==
  /\ st.pc = "load" => out = w.ctx
  /\ st.pc \in {"resolve", "classify"} => Settling(out, w.pending)
  /\ st.pc = "resolve" => ~Refined(out)
  /\ st.pc = "model" => out \in Responses
  /\ st.pc = "tool" => out = Head(st.due)

\* What it does in the store.
Does(st, out, t, w, v) ==
  /\ v.ctx = IF st.pc = "persist" THEN st.msgs
             ELSE IF st.pc = "truncate" THEN Short(st.msgs, t) ELSE w.ctx
  /\ v.memory = IF st.pc = "remember" THEN w.memory \cup {t} ELSE w.memory
  /\ v.heads = IF st.pc = "log" /\ w.heads[t] = <<>> THEN [w.heads EXCEPT ![t] = HeadOf(st.msgs)]
               ELSE w.heads
  /\ IF st.pc \in {"resolve", "classify"} THEN Settled(out, t, w, v)
     ELSE IF st.pc = "tool" THEN Ran(out, t, w, v)
     ELSE v.pending = w.pending /\ v.effects = w.effects

\* The parts of the program behind a step.
LEMMA AfterIs ==
  ASSUME NEW st, NEW out, NEW t, NEW b
  PROVE  LET new == After(st, out, t, b) IN
         /\ new.pc = NextPc(st, out, t, b) /\ new.msgs = NextMsgs(st, out, t, b)
         /\ new.due = IF st.pc = "model" THEN CallsOf(t, st.rounds + 1, out)
                      ELSE IF st.pc = "tool" THEN Tail(st.due) ELSE st.due
         /\ new.parked = IF st.pc = "tool" THEN Waiting(st, out) ELSE st.parked
         /\ new.rounds = IF st.pc = "model" THEN st.rounds + 1 ELSE st.rounds
<1> QED
  BY DEF After

\* The program stays what it should be, whatever a step returns.
LEMMA FineGoesOn ==
  ASSUME NEW st, NEW w, NEW t \in Nat, NEW b \in Seq(Items), b # <<>>, NEW out,
         Fine(st, t, b), Stored(st, w, t), Returns(st, out, w), st.pc # "end"
  PROVE  Fine(After(st, out, t, b), t, b)
<1> DEFINE new == After(st, out, t, b)
<1>1. /\ new.pc = NextPc(st, out, t, b) /\ new.msgs = NextMsgs(st, out, t, b)
      /\ new.due = IF st.pc = "model" THEN CallsOf(t, st.rounds + 1, out)
                   ELSE IF st.pc = "tool" THEN Tail(st.due) ELSE st.due
      /\ new.parked = IF st.pc = "tool" THEN Waiting(st, out) ELSE st.parked
      /\ new.rounds = IF st.pc = "model" THEN st.rounds + 1 ELSE st.rounds
  BY AfterIs
<1>2. Typed(st, t) /\ SoFar(st, t)
  BY DEF Fine
<1> HIDE DEF new
<1> SUFFICES Fine(new, t, b)
  BY DEF new
<1>3. CASE st.pc = "load"
  <2>1. /\ w.ctx \in Seq(Message) /\ NoLongRun(w.ctx) /\ WellFormed(w.ctx)
        /\ \A i \in 1 .. Len(w.ctx) : w.ctx[i].about[1] < t
    BY <1>3 DEF Stored, Behind
  <2>2. /\ new.msgs = w.ctx \o BatchMessages(t, b) /\ new.pc \in {"resolve", "digest"}
        /\ new.due = st.due /\ new.parked = st.parked /\ new.rounds = st.rounds
    BY <1>1, <1>3 DEF NextPc, NextMsgs, Returns
  <2> QED
    BY <1>3, <2>1, <2>2, LoadIsFine
<1>4. CASE st.pc \in Early \ {"classify", "resolve"} \/ (st.pc \in {"classify", "resolve"} /\ Silent(out))
  <2>1. /\ new.msgs = st.msgs /\ new.due = st.due /\ new.parked = st.parked /\ new.rounds = st.rounds
        /\ new.pc \in (Early \ {"resolve"}) \cup {"model"} /\ (new.pc = "digest" => st.pc = "resolve")
        /\ (new.pc = "classify" => st.pc = "digest" /\ Last(st.msgs).about[4] # "update")
    BY <1>1, <1>4 DEF NextPc, NextMsgs, Updated, Refined, Silent, Early
  <2>2. st.pc \in Early
    BY <1>4 DEF Early
  <2> QED
    BY <2>1, <2>2, EarlyGoesOn
<1>5. CASE st.pc \in {"classify", "resolve"} /\ ~Silent(out) /\ ~Refined(out)
  <2>1. /\ new.msgs = Append(st.msgs, Update(t)) /\ new.due = st.due /\ new.parked = st.parked
        /\ new.rounds = st.rounds /\ new.pc = IF st.pc = "resolve" THEN "digest" ELSE "redigest"
    BY <1>1, <1>5 DEF NextPc, NextMsgs, Updated, Silent
  <2> QED
    BY <1>5, <2>1, UpdateIsFine
<1>6. CASE st.pc = "classify" /\ Refined(out)
  <2>1. /\ new.msgs = Append(st.msgs, Reprompt(t)) /\ new.due = st.due /\ new.parked = st.parked
        /\ new.rounds = st.rounds /\ new.pc = "persist"
    BY <1>1, <1>6 DEF NextPc, NextMsgs
  <2>2. st.due = <<>> /\ st.msgs \in Seq(Message) /\ st.rounds \in 0 .. MaxRounds
    BY <1>2, <1>6 DEF Typed
  <2>3. /\ Reprompt(t) \in Message /\ Reprompt(t).role = "assistant" /\ Reprompt(t).calls = <<>>
        /\ Reprompt(t).about = <<t, 0, 0, "reprompt">>
    BY MembersMessages
  <2>4. \A i \in 1 .. Len(st.msgs) : st.msgs[i] # Reprompt(t)
    <3>1. \A i \in 1 .. Len(st.msgs) : st.msgs[i].about[1] = t => st.msgs[i].role = "user"
      BY <1>2, <1>6 DEF SoFar, Early
    <3> QED
      BY <2>3, <3>1
  <2>5. Reprompt(t) \notin ToSet(st.msgs)
    BY <2>2, <2>4, NotYetTold
  <2>6. Reprompt(t).about[1] = t /\ Reprompt(t).about[4] # "summary"
    BY <2>3
  <2>7. 0 <= st.rounds /\ new.rounds \in 0 .. MaxRounds /\ new.due = <<>>
    BY <2>1, <2>2
  <2> QED
    BY <1>6, <2>1, <2>3, <2>5, <2>6, <2>7, LastWordIsFine
<1>7. CASE st.pc \in {"model", "final"}
  <2> DEFINE n == st.rounds + 1
             m == Answer(t, n, <<>>)
  <2>1. st.due = <<>> /\ st.msgs \in Seq(Message) /\ st.rounds \in 0 .. MaxRounds
        /\ (st.pc = "model" => st.rounds # MaxRounds)
    BY <1>2, <1>7 DEF Typed
  <2>2. n \in Nat /\ (st.pc = "model" => n \in 0 .. MaxRounds)
    <3> DEFINE k == st.rounds
    <3>1. k \in 0 .. MaxRounds /\ (st.pc = "model" => k # MaxRounds) /\ n = k + 1
      BY <2>1
    <3>2. MaxRounds \in Nat
      BY CallsBounded
    <3> HIDE DEF k, n
    <3> QED
      BY ONLY <3>1, <3>2
  <2>3. m \in Message /\ m.role = "assistant" /\ m.calls = <<>> /\ m.about = <<t, n, 0, "answer">>
    <3>1. <<>> \in Seq(Subjects)
      OBVIOUS
    <3> QED
      BY <2>2, <3>1, AnswersMessage
  <2> HIDE DEF m
  <2>4. \A i \in 1 .. Len(st.msgs) : st.msgs[i] # m
    <3>1. \A i \in 1 .. Len(st.msgs) : st.msgs[i].about[1] = t => st.msgs[i].about[2] <= st.rounds
      BY <1>2, <1>7 DEF SoFar, Loop
    <3>2. ~(n <= st.rounds)
      BY <2>1
    <3> QED
      BY <2>3, <3>1, <3>2
  <2>5. m \notin ToSet(st.msgs)
    BY <2>1, <2>4, NotYetTold
  <2>0. m.about[1] = t /\ m.about[4] # "summary"
    BY <2>3
  <2>6. CASE st.pc = "model" /\ out = <<>>
    <3>1. CallsOf(t, n, out) = <<>>
      BY <2>6 DEF CallsOf
    <3>2. /\ new.msgs = Append(st.msgs, m) /\ new.due = <<>> /\ new.parked = st.parked
          /\ new.rounds = n /\ new.pc = "persist"
      BY <1>1, <2>6, <3>1 DEF NextPc, NextMsgs, m
    <3>3. new.rounds \in 0 .. MaxRounds
      BY <2>2, <2>6, <3>2
    <3> QED
      BY <2>0, <2>3, <2>5, <2>6, <3>2, <3>3, LastWordIsFine
  <2>7. CASE st.pc = "final"
    <3>1. /\ new.msgs = Append(st.msgs, m) /\ new.due = <<>> /\ new.parked = st.parked
          /\ new.rounds = st.rounds /\ new.pc = "persist"
      BY <1>1, <2>1, <2>7 DEF NextPc, NextMsgs, m
    <3> QED
      BY <2>0, <2>1, <2>3, <2>5, <2>7, <3>1, LastWordIsFine
  <2>8. CASE st.pc = "model" /\ out # <<>>
    <3>1. /\ new.msgs = Append(st.msgs, Answer(t, n, CallsOf(t, n, out)))
          /\ new.due = CallsOf(t, n, out) /\ new.parked = st.parked
          /\ new.rounds = n /\ new.pc = "tool" /\ out \in Responses
      BY <1>1, <2>8 DEF NextPc, NextMsgs, Returns
    <3> QED
      BY <2>8, <3>1, CallsAreFine
  <2> QED
    BY <1>7, <2>6, <2>7, <2>8
<1>8. CASE st.pc = "tool"
  <2>1. /\ out = Head(st.due) /\ new.due = Tail(st.due) /\ new.parked = Waiting(st, out)
        /\ new.rounds = st.rounds
        /\ new.msgs = IF Tail(st.due) # <<>> THEN Append(st.msgs, Result(out))
                      ELSE Append(st.msgs, Result(out)) \o Prompts(Waiting(st, out))
        /\ new.pc = IF Tail(st.due) # <<>> THEN "tool"
                    ELSE IF Waiting(st, out) # <<>> THEN "persist"
                    ELSE IF st.rounds = MaxRounds THEN "final" ELSE "model"
    BY <1>1, <1>8 DEF NextPc, NextMsgs, Returns
  <2> QED
    BY <1>8, <2>1, ToolIsFine
<1>9. CASE st.pc \in Late
  <2>1. /\ new.msgs = st.msgs /\ new.due = st.due /\ new.parked = st.parked /\ new.rounds = st.rounds
        /\ new.pc \in Late
        /\ new.pc \in Behind => st.pc \in Behind \/ (Compacts(st.msgs) /\ Last(st.msgs).about[4] # "reprompt")
    BY <1>1, <1>9 DEF NextPc, NextMsgs, Late, Behind
  <2> QED
    BY <1>9, <2>1, LateGoesOn
<1> QED
  BY <1>2, <1>3, <1>4, <1>5, <1>6, <1>7, <1>8, <1>9 DEF Typed, Returns, Early, Loop

-----------------------------------------------------------------------------
(* What the turn says behind what was loaded.                              *)

\* A transcript that has grown by messages of the turn.
LEMMA SinceGrows ==
  ASSUME NEW s, NEW x, NEW r, Grown(s, x, r), NEW t, \A i \in 1 .. Len(x) : x[i].about[1] = t
  PROVE  Since(s, r, t)
<1>1. /\ Len(s) \in Nat /\ Len(x) \in Nat /\ Len(r) \in Nat /\ Len(r) = Len(s) + Len(x)
      /\ \A i \in 1 .. Len(s) : r[i] = s[i]
      /\ \A k \in 1 .. Len(x) : r[Len(s) + k] = x[k]
      /\ \A i \in 1 .. Len(r) : i \in 1 .. Len(s) \/ \E k \in 1 .. Len(x) : i = Len(s) + k
  BY InFront
<1>2. Len(s) <= Len(r)
  BY ONLY <1>1
<1>3. ASSUME NEW i \in 1 .. Len(r), i > Len(s) PROVE r[i].about[1] = t
  <2>1. PICK k \in 1 .. Len(x) : i = Len(s) + k
    BY ONLY <1>1, <1>3
  <2>2. r[i] = x[k]
    BY ONLY <1>1, <2>1
  <2> QED
    BY <2>2
<1> QED
  BY <1>1, <1>2, <1>3 DEF Since

\* The same for one message.
LEMMA SinceAppended ==
  ASSUME NEW s \in Seq(Message), NEW m \in Message, NEW t, m.about[1] = t
  PROVE  Since(s, Append(s, m), t)
<1>1. PICK x \in Seq(Message) : Grown(s, x, Append(s, m)) /\ \A i \in 1 .. Len(x) : i = 1 /\ x[i] = m
  BY AppendGrows
<1> QED
  BY <1>1, SinceGrows

\* What a turn says now and what it says next.
LEMMA SinceGoesOn ==
  ASSUME NEW c, NEW s, NEW r, NEW t, Len(c) \in Nat, Len(s) \in Nat, Len(r) \in Nat,
         Since(c, s, t), Since(s, r, t)
  PROVE  Since(c, r, t)
<1> DEFINE k == Len(c)
           l == Len(s)
           n == Len(r)
<1> HIDE DEF k, l, n
<1>1. /\ k \in Nat /\ l \in Nat /\ n \in Nat /\ k <= l /\ l <= n
      /\ \A i \in 1 .. k : s[i] = c[i]
      /\ \A i \in 1 .. l : i > k => s[i].about[1] = t
      /\ \A i \in 1 .. l : r[i] = s[i]
      /\ \A i \in 1 .. n : i > l => r[i].about[1] = t
  BY DEF Since, k, l, n
<1>2. k <= n /\ \A i \in 1 .. k : r[i] = c[i]
  BY ONLY <1>1
<1>3. ASSUME NEW i \in 1 .. n, i > k PROVE r[i].about[1] = t
  <2>1. CASE i > l
    BY ONLY <1>1, <2>1
  <2>2. CASE ~(i > l)
    <3>1. i \in 1 .. l
      BY ONLY <1>1, <2>2
    <3>2. r[i] = s[i] /\ s[i].about[1] = t
      BY ONLY <1>1, <1>3, <3>1
    <3> QED
      BY ONLY <3>2
  <2> QED
    BY <2>1, <2>2
<1> QED
  BY <1>2, <1>3 DEF Since, k, l, n

\* Nothing is lost from it.
LEMMA SinceTells ==
  ASSUME NEW s \in Seq(Message), NEW r \in Seq(Message), NEW t, Since(s, r, t)
  PROVE  ToSet(s) \subseteq ToSet(r)
<1>1. DOMAIN s = 1 .. Len(s) /\ DOMAIN r = 1 .. Len(r) /\ Len(s) \in Nat /\ Len(r) \in Nat
  OBVIOUS
<1>2. \A i \in 1 .. Len(s) : i \in 1 .. Len(r) /\ r[i] = s[i]
  BY <1>1 DEF Since
<1> QED
  BY <1>1, <1>2 DEF ToSet

\* Up to its persist a turn only adds what is its own.
LEMMA SaysItsOwn ==
  ASSUME NEW st, NEW t \in Nat, NEW b \in Seq(Items), b # <<>>, NEW out, NEW w,
         Fine(st, t, b), Returns(st, out, w), st.pc \in Early \cup Loop,
         Fine(After(st, out, t, b), t, b)
  PROVE  LET new == After(st, out, t, b) IN
         /\ new.msgs \in Seq(Message) /\ Since(st.msgs, new.msgs, t)
         /\ ToSet(st.msgs) \subseteq ToSet(new.msgs)
         /\ new.pc \in Early \cup Loop \cup {"persist"}
<1> DEFINE new == After(st, out, t, b)
           s == st.msgs
           r == new.msgs
<1>1. /\ new.pc = NextPc(st, out, t, b) /\ r = NextMsgs(st, out, t, b)
  BY AfterIs
<1>2. s \in Seq(Message) /\ r \in Seq(Message) /\ st.rounds \in Nat
  <2>1. Typed(st, t) /\ Typed(new, t)
    BY DEF Fine
  <2> HIDE DEF new
  <2>2. s \in Seq(Message) /\ r \in Seq(Message) /\ st.rounds \in 0 .. MaxRounds
    BY <2>1 DEF Typed
  <2> QED
    BY <2>2
<1> HIDE DEF new, s, r
<1>3. new.pc \in Early \cup Loop \cup {"persist"}
  BY <1>1 DEF NextPc, Early, Loop
<1>4. Since(s, r, t)
  <2>1. CASE r = s
    <3>1. Len(s) \in Nat /\ \A i \in 1 .. Len(s) : ~(i > Len(s))
      BY <1>2
    <3> QED
      BY <2>1, <3>1 DEF Since
  <2>2. ASSUME NEW m \in Message, m.about[1] = t, r = Append(s, m) PROVE Since(s, r, t)
    BY <1>2, <2>2, SinceAppended
  <2>3. CASE st.pc \in Early
    <3>1. r = s \/ r = Append(s, Update(t)) \/ r = Append(s, Reprompt(t))
      BY <1>1, <2>3 DEF NextMsgs, Early, Updated, s
    <3>2. Update(t) \in Message /\ Reprompt(t) \in Message
          /\ Update(t).about = <<t, 0, 0, "update">> /\ Reprompt(t).about = <<t, 0, 0, "reprompt">>
      BY MembersMessages
    <3>3. Update(t).about[1] = t /\ Reprompt(t).about[1] = t
      BY <3>2
    <3> QED
      BY <2>1, <2>2, <3>1, <3>2, <3>3
  <2>4. CASE st.pc \in {"model", "final"}
    <3> DEFINE n == st.rounds + 1
    <3>1. PICK calls \in Seq(Subjects) : r = Append(s, Answer(t, n, calls))
      <4>1. CASE st.pc = "final"
        <5>1. <<>> \in Seq(Subjects) /\ r = Append(s, Answer(t, n, <<>>))
          BY <1>1, <4>1 DEF NextMsgs, s
        <5> QED
          BY <5>1
      <4>2. CASE st.pc = "model"
        <5>1. r = Append(s, Answer(t, n, CallsOf(t, n, out))) /\ out \in Seq(Kinds) /\ n \in Nat
          <6>1. r = Append(s, Answer(t, n, CallsOf(t, n, out))) /\ out \in Responses
            BY <1>1, <4>2 DEF NextMsgs, Returns, s
          <6>2. n \in Nat
            BY <1>2
          <6> QED
            BY <6>1, <6>2, CallsBounded
        <5>2. CallsOf(t, n, out) \in Seq(CallsIn(t))
          BY <5>1, CallsMade
        <5>3. CallsIn(t) \subseteq Subjects
          BY DEF CallsIn
        <5>4. CallsOf(t, n, out) \in Seq(Subjects)
          BY <5>2, <5>3
        <5> QED
          BY <5>1, <5>4
      <4> QED
        BY <2>4, <4>1, <4>2
    <3>2. Answer(t, n, calls) \in Message /\ Answer(t, n, calls).about = <<t, n, 0, "answer">>
      BY <1>2, AnswersMessage
    <3>3. Answer(t, n, calls).about[1] = t
      BY <3>2
    <3> QED
      BY <2>2, <3>1, <3>2, <3>3
  <2>5. CASE st.pc = "tool"
    <3> DEFINE call == Head(st.due)
               wait == Waiting(st, call)
               q    == Append(s, Result(call))
               C    == CallsIn(t)
    <3>1. call \in C /\ wait \in Seq(C) /\ q \in Seq(Message)
      BY <2>5, ResultIsTold DEF s
    <3>2. r = q \/ r = q \o Prompts(wait)
      BY <1>1, <2>5 DEF NextMsgs, Returns, s
    <3> HIDE DEF call, wait
    <3>3. C \subseteq Subjects /\ call \in Subjects /\ call[1] = t
      BY <3>1 DEF CallsIn
    <3>4. Result(call) \in Message /\ Result(call).about[1] = t
      BY <3>3, CallsMessages
    <3>5. Since(s, q, t)
      BY <1>2, <3>4, SinceAppended
    <3>6. CASE r = q
      BY <3>5, <3>6
    <3>7. CASE r = q \o Prompts(wait)
      <4> DEFINE x == Prompts(wait)
      <4>1. wait \in Seq(Subjects) /\ \A k \in 1 .. Len(wait) : wait[k] \in C
        BY <3>1, <3>3
      <4>2. /\ x \in Seq(Message) /\ Len(x) = Len(wait)
            /\ \A k \in 1 .. Len(wait) : wait[k] \in Subjects /\ x[k] = Prompt(wait[k])
        BY <4>1, ResultsMessages
      <4>3. \A k \in 1 .. Len(x) : x[k].about[1] = t
        <5> SUFFICES ASSUME NEW k \in 1 .. Len(wait) PROVE x[k].about[1] = t
          BY <4>2
        <5>1. wait[k] \in Subjects /\ x[k] = Prompt(wait[k]) /\ wait[k][1] = t
          BY <4>1, <4>2 DEF CallsIn
        <5>2. Prompt(wait[k]).about = wait[k]
          BY <5>1, CallsMessages
        <5> QED
          BY <5>1, <5>2
      <4> HIDE DEF x, q
      <4>4. Grown(q, x, r)
        BY <3>1, <3>7, <4>2, Concatenated DEF x
      <4>5. Since(q, r, t)
        BY <4>3, <4>4, SinceGrows
      <4>6. Len(s) \in Nat /\ Len(q) \in Nat /\ Len(r) \in Nat
        BY <1>2, <3>1
      <4> QED
        BY <3>5, <4>5, <4>6, SinceGoesOn
    <3> QED
      BY <3>2, <3>6, <3>7
  <2> QED
    BY <2>3, <2>4, <2>5 DEF Loop
<1>5. ToSet(s) \subseteq ToSet(r)
  BY <1>2, <1>4, SinceTells
<1> QED
  BY <1>2, <1>3, <1>4, <1>5 DEF new, s, r

-----------------------------------------------------------------------------
(* What is stored stays in order: up to the persist, and at it.            *)

Keeps(new, v, t) == Stored(new, v, t) /\ Recorded(new, v, t) /\ Ended(new, v, t)

\* A step that only says something keeps what is stored in order.
LEMMA TellingKeeps ==
  ASSUME NEW st, NEW w, NEW new, NEW v, NEW t \in Nat, Stored(st, w, t), Recorded(st, w, t),
         st.pc \in {"load"} \cup Early \cup Loop, new.pc \in Early \cup Loop \cup {"persist"},
         v.ctx = w.ctx, v.heads = w.heads, v.memory = w.memory,
         Since(w.ctx, new.msgs, t)
  PROVE  Keeps(new, v, t)
<1>1. st.pc \notin Behind \cup {"end", "truncate"} /\ new.pc \notin Behind \cup {"end", "truncate"}
      /\ new.pc \notin {"log", "truncate"}
  BY DEF Early, Loop, Behind
<1>2. Stored(new, v, t)
  BY <1>1 DEF Stored
<1>3. Recorded(new, v, t)
  BY <1>1 DEF Recorded, RecallsAll, RecordOf, Once
<1> QED
  BY <1>1, <1>2, <1>3 DEF Keeps, Ended

\* So does the load,
LEMMA LoadKeeps ==
  ASSUME NEW st, NEW w, NEW t \in Nat, NEW b \in Seq(Items), b # <<>>, NEW v,
         Stored(st, w, t), Recorded(st, w, t), st.pc = "load", NEW out, Returns(st, out, w),
         v.ctx = w.ctx, v.heads = w.heads, v.memory = w.memory
  PROVE  Keeps(After(st, out, t, b), v, t)
<1> DEFINE new == After(st, out, t, b)
           c == w.ctx
           x == BatchMessages(t, b)
<1>1. new.pc \in Early /\ new.msgs = c \o x
  <2>1. new.pc = NextPc(st, out, t, b) /\ new.msgs = NextMsgs(st, out, t, b)
    BY AfterIs
  <2> QED
    BY <2>1 DEF NextPc, NextMsgs, Returns, Early
<1>2. c \in Seq(Message)
  BY DEF Stored
<1>3. x \in Seq(Message) /\ Len(x) = Len(b) /\ \A i \in 1 .. Len(b) : x[i].about = <<t, 0, i, "item">>
  BY BatchsMessages
<1>4. \A i \in 1 .. Len(x) : x[i].about[1] = t
  BY <1>3
<1> HIDE DEF new, c, x
<1>5. Since(c, new.msgs, t)
  <2>1. Grown(c, x, new.msgs)
    BY <1>1, <1>2, <1>3, Concatenated
  <2> QED
    BY <1>4, <2>1, SinceGrows
<1> QED
  BY <1>1, <1>5, TellingKeeps DEF new, c

\* and every step from there to the end of the loop.
LEMMA SayingKeeps ==
  ASSUME NEW st, NEW w, NEW t \in Nat, NEW b \in Seq(Items), b # <<>>, NEW v,
         Fine(st, t, b), Stored(st, w, t), Recorded(st, w, t), st.pc \in Early \cup Loop,
         NEW out, Returns(st, out, w), Fine(After(st, out, t, b), t, b),
         v.ctx = w.ctx, v.heads = w.heads, v.memory = w.memory
  PROVE  Keeps(After(st, out, t, b), v, t)
<1> DEFINE new == After(st, out, t, b)
           c == w.ctx
<1>1. /\ new.msgs \in Seq(Message) /\ Since(st.msgs, new.msgs, t)
      /\ new.pc \in Early \cup Loop \cup {"persist"}
  BY SaysItsOwn
<1>2. c \in Seq(Message) /\ st.msgs \in Seq(Message) /\ Since(c, st.msgs, t)
  BY DEF Stored, Fine, Typed
<1>3. Len(c) \in Nat /\ Len(st.msgs) \in Nat /\ Len(new.msgs) \in Nat
  BY <1>1, <1>2
<1> HIDE DEF new, c
<1>4. Since(c, new.msgs, t)
  BY <1>1, <1>2, <1>3, SinceGoesOn
<1> QED
  BY <1>1, <1>4, TellingKeeps DEF new, c

\* A transcript is in it as often as what was loaded, and its own once.
LEMMA SinceDistinct ==
  ASSUME NEW c \in Seq(Message), NEW s \in Seq(Message), NEW t \in Nat, Since(c, s, t),
         \A i \in 1 .. Len(c) : c[i].about[1] < t, Distinct(c), OwnOnce(s, t)
  PROVE  /\ Distinct(s)
         /\ \A i \in 1 .. Len(s) : s[i].about[1] <= t /\ (s[i].about[1] = t \/ s[i] \in ToSet(c))
<1> DEFINE k == Len(c)
           n == Len(s)
<1>0. \A i \in 1 .. n : s[i].about[1] \in Nat
  <2>1. \A i \in 1 .. n : s[i] \in Message
    OBVIOUS
  <2>2. \A m \in Message : m.about[1] \in Nat
    BY DEF Message, Subjects
  <2> QED
    BY ONLY <2>1, <2>2
<1>1. /\ k \in Nat /\ n \in Nat /\ k <= n /\ DOMAIN c = 1 .. k
      /\ \A i \in 1 .. k : s[i] = c[i]
      /\ \A i \in 1 .. n : i > k => s[i].about[1] = t
  BY DEF Since
<1> HIDE DEF k, n
<1>2. ASSUME NEW i \in 1 .. n
      PROVE  \/ i \in 1 .. k /\ s[i] = c[i] /\ c[i].about[1] < t
             \/ s[i].about[1] = t
  <2>1. CASE i > k
    BY <1>1, <2>1
  <2>2. CASE ~(i > k)
    <3>1. i \in 1 .. k
      BY ONLY <1>1, <2>2
    <3> QED
      BY <1>1, <3>1 DEF k
  <2> QED
    BY <2>1, <2>2
<1>3. ASSUME NEW i \in 1 .. n, NEW j \in 1 .. n, s[i] = s[j] PROVE i = j
  <2>1. CASE s[i].about[1] = t
    BY <1>3, <2>1 DEF OwnOnce, n
  <2>2. CASE s[i].about[1] # t
    <3>1. i \in 1 .. k /\ j \in 1 .. k /\ c[i] = c[j]
      BY <1>2, <1>3, <2>2
    <3> QED
      BY <3>1 DEF Distinct, k
  <2> QED
    BY <2>1, <2>2
<1>4. ASSUME NEW i \in 1 .. n PROVE s[i].about[1] <= t /\ (s[i].about[1] = t \/ s[i] \in ToSet(c))
  <2>1. CASE s[i].about[1] = t
    BY <2>1
  <2>2. CASE s[i].about[1] # t
    <3>1. i \in 1 .. k /\ s[i] = c[i] /\ c[i].about[1] < t
      BY <1>2, <2>2
    <3>2. s[i].about[1] < t /\ s[i].about[1] \in Nat
      BY <1>0, <3>1 DEF n
    <3>3. s[i] \in ToSet(c)
      BY <1>1, <3>1 DEF ToSet
    <3>4. s[i].about[1] <= t
      BY ONLY <3>2, t \in Nat
    <3> QED
      BY <3>3, <3>4
  <2> QED
    BY <2>1, <2>2
<1> QED
  BY <1>3, <1>4 DEF Distinct, n

-----------------------------------------------------------------------------
(* What is stored stays in order: the record, and the persist.             *)

\* What the record holds.
LEMMA InRecord ==
  ASSUME NEW w, NEW m
  PROVE  m \in RecordOf(w) <=> m \in ToSet(w.ctx) \/ \E u \in Turns : m \in ToSet(w.heads[u])
<1> QED
  BY DEF RecordOf

\* Turns are numbered.
LEMMA TurnIsNat == Turns \subseteq Nat
<1> QED
  BY DEF Turns

\* What a log of an earlier turn holds is older than the turn.
LEMMA HeadsAreOlder ==
  ASSUME NEW st, NEW w, NEW t \in Turns, Stored(st, w, t), st.pc \notin {"truncate", "end"}
  PROVE  /\ \A u \in Turns : \A m \in ToSet(w.heads[u]) : u < t /\ m.about[1] < t
         /\ w.heads[t] = <<>>
<1>1. ASSUME NEW u \in Turns, NEW m \in ToSet(w.heads[u]) PROVE u < t /\ m.about[1] < t
  <2>1. w.heads[u] \in Seq(Message) /\ (w.heads[u] # <<>> => u < t)
        /\ \A i \in 1 .. Len(w.heads[u]) : w.heads[u][i].about[1] <= u
    BY DEF Stored
  <2>2. DOMAIN w.heads[u] = 1 .. Len(w.heads[u])
    BY <2>1
  <2>3. PICK i \in 1 .. Len(w.heads[u]) : m = w.heads[u][i]
    BY <1>1, <2>2 DEF ToSet
  <2>4. w.heads[u] # <<>>
    BY <2>3
  <2>5. u < t /\ m.about[1] <= u
    BY <2>1, <2>3, <2>4
  <2>6. m.about[1] \in Nat
    <3>1. m \in Message
      BY <2>1, <2>3
    <3> QED
      BY <3>1 DEF Message, Subjects
  <2>7. u \in Nat /\ t \in Nat
    BY TurnIsNat
  <2> QED
    BY ONLY <2>5, <2>6, <2>7
<1>2. w.heads[t] = <<>>
  <2>1. w.heads[t] # <<>> => t < t
    BY DEF Stored
  <2>2. t \in Nat
    BY TurnIsNat
  <2> QED
    BY ONLY <2>1, <2>2
<1> QED
  BY <1>1, <1>2

\* The persist: the transcript that was built becomes the one that is stored.
LEMMA PersistKeeps ==
  ASSUME NEW st, NEW w, NEW t \in Turns, NEW b, Fine(st, t, b), Stored(st, w, t), Recorded(st, w, t),
         st.pc = "persist", NEW new, NEW v, new.msgs = st.msgs,
         new.pc = IF Last(st.msgs).about[4] # "reprompt" /\ Compacts(st.msgs) THEN "summarize" ELSE "end",
         v.ctx = st.msgs, v.heads = w.heads, v.memory = w.memory
  PROVE  Keeps(new, v, t) /\ RecordOf(w) \subseteq RecordOf(v)
<1> DEFINE s == st.msgs
           c == w.ctx
           n == Len(s)
<1>0. t \in Nat
  BY TurnIsNat
<1>1. s \in Seq(Message) /\ st.due = <<>> /\ NoLongRun(s) /\ OwnOnce(s, t)
      /\ n > 0 /\ s[n].role = "assistant" /\ s[n].about[1] = t
  BY DEF Fine, Typed, Bounded, Fresh, EndsOwn, Late
<1>2. WellFormed(s)
  <2>1. s \o Results(st.due) = s
    BY <1>1, NothingDue
  <2> QED
    BY <2>1 DEF Fine, Shown
<1>3. /\ c \in Seq(Message) /\ Since(c, s, t) /\ \A i \in 1 .. Len(c) : c[i].about[1] < t
  BY DEF Stored, Behind
<1>4. /\ Distinct(c)
      /\ \A u \in Turns : Distinct(w.heads[u]) /\ ToSet(c) \cap ToSet(w.heads[u]) = {}
      /\ \A u1, u2 \in Turns : u1 # u2 => ToSet(w.heads[u1]) \cap ToSet(w.heads[u2]) = {}
      /\ RecallsAll(w)
  BY DEF Recorded, Once
<1>5. /\ \A u \in Turns : \A m \in ToSet(w.heads[u]) : u < t /\ m.about[1] < t
  BY HeadsAreOlder
<1> HIDE DEF s, c
<1>6. /\ Distinct(s)
      /\ \A i \in 1 .. n : s[i].about[1] <= t /\ (s[i].about[1] = t \/ s[i] \in ToSet(c))
  BY ONLY <1>0, <1>1, <1>3, <1>4, SinceDistinct
<1>7. DOMAIN s = 1 .. n /\ n \in Nat
  BY <1>1
<1>8. ToSet(c) \subseteq ToSet(s)
  BY <1>1, <1>3, SinceTells
<1> HIDE DEF n
<1>9. \A m \in ToSet(s) : m.about[1] = t \/ m \in ToSet(c)
  BY <1>6, <1>7 DEF ToSet
<1>10. Stored(new, v, t)
  <2>1. new.pc \in {"summarize", "end"}
    OBVIOUS
  <2>2. v.ctx = s /\ new.msgs = s
    BY DEF s
  <2>3. DOMAIN w.heads = Turns /\ \A u \in Turns : w.heads[u] \in Seq(Message)
        /\ WellFormed(w.heads[u]) /\ (w.heads[u] # <<>> => u < t)
        /\ \A i \in 1 .. Len(w.heads[u]) : w.heads[u][i].about[1] <= u
    BY DEF Stored
  <2>4. \A i \in 1 .. Len(s) : s[i].about[1] <= t
    BY <1>6 DEF n
  <2> QED
    BY <1>1, <1>2, <2>1, <2>2, <2>3, <2>4 DEF Stored, Early, Loop, Behind
<1>11. RecordOf(w) \subseteq RecordOf(v)
  BY <1>8, InRecord DEF s, c
<1>12. Recorded(new, v, t)
  <2>1. v.ctx = s
    BY DEF s
  <2>2. \A u \in Turns : ToSet(s) \cap ToSet(w.heads[u]) = {}
    <3>1. ASSUME NEW u \in Turns, NEW m \in ToSet(s), m \in ToSet(w.heads[u]) PROVE FALSE
      <4>1. m.about[1] < t
        BY <1>5, <3>1
      <4>2. m.about[1] # t
        BY ONLY <4>1, <1>0
      <4>3. m \in ToSet(c)
        BY <1>9, <4>2
      <4> QED
        BY <1>4, <3>1, <4>3
    <3> QED
      BY <3>1
  <2>3. Once(v, Turns)
    BY <1>4, <1>6, <2>1, <2>2 DEF Once
  <2>4. RecallsAll(v)
    <3> SUFFICES ASSUME NEW m \in RecordOf(v), m.about[4] = "summary"
                 PROVE  m.about[1] \in Turns /\ m.about[1] \in v.memory /\ v.heads[m.about[1]] # <<>>
      BY DEF RecallsAll
    <3>1. m \in RecordOf(w)
      <4>1. CASE m \in ToSet(s)
        <5>1. PICK i \in 1 .. n : m = s[i]
          BY <1>7, <4>1 DEF ToSet
        <5>2. m.about[1] # t
          BY <5>1 DEF Fine, SoFar, s, n
        <5>3. m \in ToSet(c)
          BY <1>9, <4>1, <5>2
        <5> QED
          BY <5>3, InRecord DEF c
      <4>2. CASE m \notin ToSet(s)
        <5>1. PICK u \in Turns : m \in ToSet(v.heads[u])
          BY <2>1, <4>2, InRecord
        <5> QED
          BY <5>1, InRecord
      <4> QED
        BY <4>1, <4>2
    <3> QED
      BY <1>4, <3>1 DEF RecallsAll
  <2> QED
    BY <2>3, <2>4 DEF Recorded
<1>13. Ended(new, v, t)
  <2> SUFFICES ASSUME new.pc = "end" PROVE Ended(new, v, t)
    BY DEF Ended
  <2>1. v.ctx = s
    BY DEF s
  <2>2. OwnEnd(s, t)
    <3>1. n \in 1 .. n /\ \A j \in n + 1 .. n : FALSE
      BY ONLY <1>1, <1>7
    <3> QED
      BY <1>1, <3>1 DEF OwnEnd, n
  <2>3. s[n].about[4] # "reprompt" => ~Compacts(s)
    BY DEF Last, s, n
  <2>4. s[n].about[4] # "reprompt" => n <= Threshold \/ n <= 1 + Keep + LongestRun
    BY <1>1, <2>3, ShortWithoutCut DEF n
  <2> QED
    BY <1>1, <2>1, <2>2, <2>4 DEF Ended, n
<1> QED
  BY <1>10, <1>11, <1>12, <1>13 DEF Keeps

-----------------------------------------------------------------------------
(* What is stored stays in order: the compaction.                          *)

\* Up to the memory: the summary is made and remembered, and nothing else changes.
LEMMA CallingOutKeeps ==
  ASSUME NEW st, NEW w, NEW t \in Turns, Stored(st, w, t), Recorded(st, w, t),
         st.pc \in {"summarize", "embed", "remember"}, NEW new, NEW v, new.msgs = st.msgs,
         new.pc = IF st.pc = "summarize" THEN "embed" ELSE IF st.pc = "embed" THEN "remember" ELSE "log",
         v.ctx = w.ctx, v.heads = w.heads,
         v.memory = IF st.pc = "remember" THEN w.memory \cup {t} ELSE w.memory
  PROVE  Keeps(new, v, t)
<1>1. /\ new.pc \in {"embed", "remember", "log"}
      /\ (new.pc = "log" => t \in v.memory) /\ w.memory \subseteq v.memory
  OBVIOUS
<1>2. Stored(new, v, t)
  BY <1>1 DEF Stored, Early, Loop, Behind
<1>3. Recorded(new, v, t)
  BY <1>1 DEF Recorded, RecallsAll, RecordOf, Once
<1> QED
  BY <1>1, <1>2, <1>3 DEF Keeps, Ended

\* The head of a transcript, up to where a turn begins.
LEMMA HeadShown ==
  ASSUME NEW s \in Seq(Message), Compacts(s), WellFormed(s)
  PROVE  WellFormed(HeadOf(s))
<1> DEFINE c == CutOf(s)
           n == Len(s)
           h == HeadOf(s)
<1>1. /\ c \in 1 .. n /\ c + Keep <= n /\ s[c + 1].role = "user" /\ n \in Nat /\ Keep \in Nat /\ Keep >= 1
  BY CutIsLast, TurnConstants
<1>2. /\ h \in Seq(Message) /\ Len(h) = c /\ \A i \in 1 .. c : i \in 1 .. n /\ h[i] = s[i]
  BY 0 \in Nat, CutParts
<1>3. DOMAIN s = 1 .. n /\ DOMAIN h = 1 .. Len(h)
  BY <1>2
<1> HIDE DEF c, h, n
<1>4. c \in Nat /\ c + 1 <= n
  BY ONLY <1>1
<1>5. \A i \in 1 .. c : \A k \in DOMAIN s[i].calls : i + k <= c
  BY <1>1, <1>4, CutsApart DEF n
<1> SUFFICES ASSUME NEW i \in 1 .. c
             PROVE  /\ \A k \in DOMAIN h[i].calls : i + k \in DOMAIN h /\ h[i + k] = Result(h[i].calls[k])
                    /\ h[i].role = "tool" =>
                         \E j \in 1 .. i - 1 : i - j \in DOMAIN h[j].calls /\ h[j].calls[i - j] = h[i].about
  BY <1>2, <1>3 DEF WellFormed, h
<1>6. h[i] = s[i] /\ i \in 1 .. n
  BY <1>2
<1>7. /\ \A k \in DOMAIN s[i].calls : i + k \in 1 .. n /\ s[i + k] = Result(s[i].calls[k])
      /\ s[i].role = "tool" =>
           \E j \in 1 .. i - 1 : i - j \in DOMAIN s[j].calls /\ s[j].calls[i - j] = s[i].about
  BY <1>3, <1>6 DEF WellFormed
<1>8. ASSUME NEW k \in DOMAIN h[i].calls PROVE i + k \in DOMAIN h /\ h[i + k] = Result(h[i].calls[k])
  <2>1. k \in DOMAIN s[i].calls
    BY <1>6
  <2>2. i + k \in 1 .. n /\ i + k <= c /\ s[i + k] = Result(s[i].calls[k])
    BY <1>5, <1>7, <2>1
  <2>3. i + k \in 1 .. c
    BY <2>2
  <2> QED
    BY <1>2, <1>3, <1>6, <2>2, <2>3
<1>9. \A j \in 1 .. i - 1 : j \in 1 .. c
  BY <1>4
<1>10. \A j \in 1 .. i - 1 : h[j] = s[j]
  BY <1>2, <1>9
<1> QED
  BY <1>6, <1>7, <1>8, <1>10

\* What is kept, behind its summary.
LEMMA ShortShown ==
  ASSUME NEW s \in Seq(Message), Compacts(s), WellFormed(s), NEW t \in Nat
  PROVE  WellFormed(Short(s, t))
<1> DEFINE c == CutOf(s)
           n == Len(s)
           r == Short(s, t)
           l == Len(r)
<1>1. /\ c \in 1 .. n /\ c + Keep <= n /\ s[c + 1].role = "user" /\ n \in Nat /\ Keep \in Nat /\ Keep >= 1
  BY CutIsLast, TurnConstants
<1>2. /\ r \in Seq(Message) /\ l = 1 + (n - c) /\ r[1] = Summary(t)
      /\ \A i \in 1 .. l : i = 1 \/ (c + (i - 1) \in 1 .. n /\ r[i] = s[c + (i - 1)])
      /\ \A i \in c + 1 .. n : (i - c) + 1 \in 1 .. l /\ r[(i - c) + 1] = s[i]
  BY CutParts
<1>3. DOMAIN s = 1 .. n /\ DOMAIN r = 1 .. l
  BY <1>2
<1> HIDE DEF c, r, n, l
<1>4. c \in Nat /\ c + 1 <= n /\ l \in Nat
  BY ONLY <1>1, <1>2
<1>5. \A i \in c + 1 .. n : s[i].role = "tool" =>
        \E j \in c + 1 .. i - 1 : i - j \in DOMAIN s[j].calls /\ s[j].calls[i - j] = s[i].about
  BY <1>1, <1>4, CutsApart DEF n
<1>6. Summary(t).role = "user" /\ Summary(t).calls = <<>>
  BY MembersMessages
<1> SUFFICES ASSUME NEW i \in 1 .. l
             PROVE  /\ \A k \in DOMAIN r[i].calls : i + k \in DOMAIN r /\ r[i + k] = Result(r[i].calls[k])
                    /\ r[i].role = "tool" =>
                         \E j \in 1 .. i - 1 : i - j \in DOMAIN r[j].calls /\ r[j].calls[i - j] = r[i].about
  BY <1>3 DEF WellFormed, r
<1>7. CASE i = 1
  <2>1. r[i].role = "user" /\ r[i].calls = <<>>
    BY <1>2, <1>6, <1>7
  <2>2. DOMAIN r[i].calls = {}
    BY <2>1
  <2> QED
    BY <2>1, <2>2
<1>8. CASE i # 1
  <2> DEFINE p == c + (i - 1)
  <2>1. p \in 1 .. n /\ r[i] = s[p]
    BY <1>2, <1>8
  <2>2. p \in c + 1 .. n /\ (p - c) + 1 = i
    BY ONLY <1>2, <1>4, <1>8, <2>1, i \in 1 .. l
  <2> HIDE DEF p
  <2>3. /\ \A k \in DOMAIN s[p].calls : p + k \in 1 .. n /\ s[p + k] = Result(s[p].calls[k])
    BY <1>3, <2>1 DEF WellFormed
  <2>4. \A k \in DOMAIN s[p].calls : k \in Nat /\ k >= 1
    <3>1. s[p] \in Message
      BY <2>1 DEF n
    <3>2. s[p].calls \in Seq(Subjects)
      BY <3>1 DEF Message
    <3> QED
      BY <3>2
  <2>5. ASSUME NEW k \in DOMAIN r[i].calls PROVE i + k \in DOMAIN r /\ r[i + k] = Result(r[i].calls[k])
    <3>1. k \in DOMAIN s[p].calls /\ k \in Nat /\ k >= 1
      BY <2>1, <2>4
    <3>2. p + k \in 1 .. n /\ s[p + k] = Result(s[p].calls[k])
      BY <2>3, <3>1
    <3>3. p + k \in c + 1 .. n /\ ((p + k) - c) + 1 = i + k
      BY ONLY <1>4, <2>2, <3>1, <3>2
    <3> DEFINE q == p + k
    <3> HIDE DEF q
    <3>4. q \in c + 1 .. n /\ (q - c) + 1 = i + k /\ s[q] = Result(s[p].calls[k])
      BY ONLY <3>2, <3>3 DEF q
    <3>5. i + k \in 1 .. l /\ r[i + k] = s[q]
      BY ONLY <1>2, <3>4
    <3> QED
      BY <1>3, <2>1, <3>4, <3>5
  <2>6. ASSUME r[i].role = "tool"
        PROVE  \E j \in 1 .. i - 1 : i - j \in DOMAIN r[j].calls /\ r[j].calls[i - j] = r[i].about
    <3>1. PICK m \in c + 1 .. p - 1 : p - m \in DOMAIN s[m].calls /\ s[m].calls[p - m] = s[p].about
      BY <1>5, <2>1, <2>2, <2>6
    <3> DEFINE j == (m - c) + 1
    <3>2. m \in c + 1 .. n /\ j \in 1 .. i - 1 /\ i - j = p - m
      BY ONLY <1>1, <1>4, <2>2, m \in c + 1 .. p - 1
    <3>3. r[j] = s[m]
      BY ONLY <1>2, <3>2
    <3> HIDE DEF j
    <3>4. i - j \in DOMAIN r[j].calls /\ r[j].calls[i - j] = r[i].about
      BY ONLY <2>1, <3>1, <3>2, <3>3
    <3> QED
      BY <3>2, <3>4
  <2> QED
    BY <2>5, <2>6
<1> QED
  BY <1>7, <1>8

-----------------------------------------------------------------------------
(* What is stored stays in order: the log of the compaction.               *)

\* The log: the head is stored a second time, until the truncation.
LEMMA LogKeeps ==
  ASSUME NEW st, NEW w, NEW t \in Turns, NEW b, Fine(st, t, b), Stored(st, w, t), Recorded(st, w, t),
         st.pc = "log", NEW new, NEW v, new.msgs = st.msgs, new.pc = "truncate",
         v.ctx = w.ctx, v.memory = w.memory,
         w.heads[t] = <<>> =>
           /\ DOMAIN v.heads = DOMAIN w.heads
           /\ \A u \in DOMAIN w.heads : v.heads[u] = IF u = t THEN HeadOf(st.msgs) ELSE w.heads[u]
  PROVE  Keeps(new, v, t) /\ RecordOf(v) = RecordOf(w)
<1> DEFINE s == st.msgs
           h == HeadOf(s)
           n == Len(s)
           c == CutOf(s)
<1>1. s \in Seq(Message) /\ w.ctx = s /\ Compacts(s) /\ WellFormed(s) /\ NoLongRun(s) /\ t \in Nat
  BY TurnIsNat DEF Fine, Typed, EndsOwn, Stored, Behind, Late
<1>2. /\ h \in Seq(Message) /\ Len(h) = c /\ c \in 1 .. n /\ \A i \in 1 .. c : i \in 1 .. n /\ h[i] = s[i]
  BY <1>1, CutParts, CutIsLast
<1>3. WellFormed(h)
  BY <1>1, HeadShown
<1>4. w.heads[t] = <<>>
  BY HeadsAreOlder
<1>5. DOMAIN s = 1 .. n /\ DOMAIN h = 1 .. c
  BY <1>1, <1>2
<1>6. /\ DOMAIN w.heads = Turns /\ \A u \in Turns : w.heads[u] \in Seq(Message)
      /\ \A u \in Turns : WellFormed(w.heads[u])
      /\ \A u \in Turns : w.heads[u] # <<>> => u < t
      /\ \A u \in Turns : \A i \in 1 .. Len(w.heads[u]) : w.heads[u][i].about[1] <= u
      /\ \A i \in 1 .. n : s[i].about[1] <= t
      /\ t \in w.memory
  <2>1. \A i \in 1 .. Len(w.ctx) : w.ctx[i].about[1] <= t
    BY DEF Stored
  <2>2. \A u \in Turns : w.heads[u] # <<>> => u < t
    BY DEF Stored
  <2> QED
    BY <1>1, <2>1, <2>2 DEF Stored
<1> HIDE DEF s, n, c, h
<1>7. /\ DOMAIN v.heads = DOMAIN w.heads
      /\ \A u \in DOMAIN w.heads : v.heads[u] = IF u = t THEN h ELSE w.heads[u]
  BY <1>4 DEF h, s
<1>8. /\ DOMAIN v.heads = Turns /\ v.heads[t] = h /\ \A u \in Turns : u # t => v.heads[u] = w.heads[u]
  BY ONLY <1>6, <1>7
<1>9. ToSet(h) \subseteq ToSet(s)
  BY <1>2, <1>5 DEF ToSet
<1>10. Stored(new, v, t)
  <2>1. \A u \in Turns : v.heads[u] \in Seq(Message) /\ WellFormed(v.heads[u])
    BY <1>2, <1>3, <1>6, <1>8
  <2>2. \A u \in Turns : v.heads[u] # <<>> => u < t \/ (u = t /\ new.pc \in {"truncate", "end"})
    BY <1>6, <1>8
  <2>3. \A u \in Turns : \A i \in 1 .. Len(v.heads[u]) : v.heads[u][i].about[1] <= u
    <3>1. \A i \in 1 .. Len(h) : h[i].about[1] <= t
      BY <1>2, <1>6
    <3> QED
      BY <1>6, <1>8, <3>1
  <2>4. v.ctx = s /\ new.msgs = s /\ \A i \in 1 .. Len(s) : s[i].about[1] <= t
    BY <1>1, <1>6 DEF s, n
  <2>5. v.heads[t] = SubSeq(s, 1, CutOf(s))
    BY <1>8 DEF h, HeadOf
  <2> QED
    BY <1>1, <1>6, <1>8, <2>1, <2>2, <2>3, <2>4, <2>5 DEF Stored, Early, Loop, Behind
<1>11. RecordOf(v) = RecordOf(w)
  <2>1. ASSUME NEW m \in RecordOf(v) PROVE m \in RecordOf(w)
    <3>1. CASE m \in ToSet(s)
      BY <1>1, <3>1, InRecord
    <3>2. CASE m \notin ToSet(s)
      <4>1. PICK u \in Turns : m \in ToSet(v.heads[u])
        BY <1>1, <2>1, <3>2, InRecord
      <4>2. u # t
        BY <1>8, <1>9, <3>2, <4>1
      <4>3. m \in ToSet(w.heads[u])
        BY <1>8, <4>1, <4>2
      <4> QED
        BY <4>3, InRecord
    <3> QED
      BY <3>1, <3>2
  <2>2. ASSUME NEW m \in RecordOf(w) PROVE m \in RecordOf(v)
    <3>1. CASE m \in ToSet(s)
      BY <1>1, <3>1, InRecord
    <3>2. CASE m \notin ToSet(s)
      <4>1. PICK u \in Turns : m \in ToSet(w.heads[u])
        BY <1>1, <2>2, <3>2, InRecord
      <4>2. ToSet(<<>>) = {}
        BY DEF ToSet
      <4>3. u # t
        BY <1>4, <4>1, <4>2
      <4>4. m \in ToSet(v.heads[u])
        BY <1>8, <4>1, <4>3
      <4> QED
        BY <4>4, InRecord
    <3> QED
      BY <3>1, <3>2
  <2> QED
    BY <2>1, <2>2
<1>12. Recorded(new, v, t)
  <2>1. RecallsAll(v)
    <3>1. ASSUME NEW m \in RecordOf(v), m.about[4] = "summary"
          PROVE  m.about[1] \in Turns /\ m.about[1] \in v.memory /\ v.heads[m.about[1]] # <<>>
      <4>1. m.about[1] \in Turns /\ m.about[1] \in w.memory /\ w.heads[m.about[1]] # <<>>
        BY <1>11, <3>1 DEF Recorded, RecallsAll
      <4> QED
        BY <1>4, <1>8, <4>1
    <3> QED
      BY <3>1 DEF RecallsAll
  <2>2. Once(v, Turns \ {t})
    <3>1. Once(w, Turns)
      BY DEF Recorded
    <3> QED
      BY <1>8, <3>1 DEF Once
  <2> QED
    BY <2>1, <2>2 DEF Recorded
<1> QED
  BY <1>10, <1>11, <1>12 DEF Keeps, Ended

\* A run in what is kept was one before.
LEMMA ShortRuns ==
  ASSUME NEW s \in Seq(Message), Compacts(s), NoLongRun(s), NEW t \in Nat
  PROVE  NoLongRun(Short(s, t))
<1> DEFINE c == CutOf(s)
           n == Len(s)
           r == Short(s, t)
           l == Len(r)
           L == LongestRun
<1>1. /\ c \in 1 .. n /\ c + Keep <= n /\ n \in Nat /\ Keep \in Nat /\ L \in Nat
  BY CutIsLast, TurnConstants, CallsBounded
<1>2. /\ l = 1 + (n - c) /\ r[1] = Summary(t)
      /\ \A i \in c + 1 .. n : (i - c) + 1 \in 1 .. l /\ r[(i - c) + 1] = s[i]
  BY CutParts
<1>3. Summary(t).role = "user"
  BY MembersMessages
<1>4. \A i, j \in 0 .. n : i <= j /\ (\A k \in i + 1 .. j : s[k].role # "user") => j - i <= L
  BY DEF NoLongRun
<1> SUFFICES ASSUME NEW i \in 0 .. l, NEW j \in 0 .. l, i <= j, \A k \in i + 1 .. j : r[k].role # "user"
             PROVE  j - i <= L
  BY DEF NoLongRun
<1> HIDE DEF c, n, r, l, L
<1>5. c \in Nat /\ c <= n /\ i \in Nat /\ j \in Nat /\ l \in Nat
  BY ONLY <1>1, <1>2, i \in 0 .. l, j \in 0 .. l
<1>6. CASE i = j
  BY ONLY <1>1, <1>5, <1>6
<1>7. CASE i # j
  <2>1. i # 0
    <3>1. i = 0 => 1 \in i + 1 .. j
      BY ONLY <1>5, <1>7, i <= j
    <3> QED
      BY <1>2, <1>3, <3>1
  <2> DEFINE p == c + (i - 1)
             q == c + (j - 1)
  <2>2. p \in 0 .. n /\ q \in 0 .. n /\ p <= q /\ q - p = j - i
    BY ONLY <1>1, <1>2, <1>5, <2>1, i <= j, i \in 0 .. l, j \in 0 .. l
  <2>3. ASSUME NEW k \in p + 1 .. q PROVE s[k].role # "user"
    <3>1. k \in c + 1 .. n /\ (k - c) + 1 \in i + 1 .. j
      BY ONLY <1>1, <1>5, <2>1, <2>2, k \in p + 1 .. q
    <3>2. r[(k - c) + 1] = s[k]
      BY ONLY <1>2, <3>1
    <3> QED
      BY <3>1, <3>2
  <2> HIDE DEF p, q
  <2>4. q - p <= L
    BY ONLY <1>4, <2>2, <2>3
  <2> QED
    BY ONLY <2>2, <2>4
<1> QED
  BY <1>6, <1>7

-----------------------------------------------------------------------------
(* What is stored stays in order: the truncation.                          *)

\* The truncation: the head gives way to its summary, and the log alone holds it.
LEMMA TruncateKeeps ==
  ASSUME NEW st, NEW w, NEW t \in Turns, NEW b, Fine(st, t, b), Stored(st, w, t), Recorded(st, w, t),
         st.pc = "truncate", NEW new, NEW v, new.msgs = st.msgs, new.pc = "end",
         v.ctx = Short(st.msgs, t), v.memory = w.memory, v.heads = w.heads
  PROVE  Keeps(new, v, t) /\ RecordOf(w) \subseteq RecordOf(v)
<1> DEFINE s == st.msgs
           h == HeadOf(s)
           n == Len(s)
           c == CutOf(s)
           r == Short(s, t)
           l == Len(r)
           sum == Summary(t)
<1>0. t \in Nat
  BY TurnIsNat
<1>1. /\ s \in Seq(Message) /\ w.ctx = s /\ Compacts(s) /\ WellFormed(s) /\ NoLongRun(s)
      /\ n > 0 /\ s[n].role = "assistant" /\ s[n].about[1] = t
  BY DEF Fine, Typed, EndsOwn, Stored, Behind, Late
<1>2. /\ w.heads[t] = h /\ t \in w.memory /\ DOMAIN w.heads = Turns
      /\ \A u \in Turns : w.heads[u] \in Seq(Message) /\ WellFormed(w.heads[u])
      /\ \A u \in Turns : w.heads[u] # <<>> => u < t \/ u = t
      /\ \A u \in Turns : \A i \in 1 .. Len(w.heads[u]) : w.heads[u][i].about[1] <= u
  BY DEF Stored, HeadOf
<1>3. \A i \in 1 .. n : s[i].about[1] <= t
  BY <1>1 DEF Stored
<1>4. /\ Distinct(s) /\ RecallsAll(w)
      /\ \A u \in Turns : u # t => Distinct(w.heads[u]) /\ ToSet(s) \cap ToSet(w.heads[u]) = {}
      /\ \A u1, u2 \in Turns : u1 # u2 /\ u1 # t /\ u2 # t =>
           ToSet(w.heads[u1]) \cap ToSet(w.heads[u2]) = {}
  BY <1>1 DEF Recorded, Once
<1>5. /\ c \in 1 .. n /\ c + Keep <= n /\ n \in Nat /\ Keep \in Nat /\ Keep >= 1
  BY <1>1, CutIsLast, TurnConstants
<1>6. /\ h \in Seq(Message) /\ Len(h) = c /\ \A i \in 1 .. c : i \in 1 .. n /\ h[i] = s[i]
      /\ r \in Seq(Message) /\ l = 1 + (n - c) /\ r[1] = sum
      /\ \A i \in 1 .. l : i = 1 \/ (c + (i - 1) \in 1 .. n /\ r[i] = s[c + (i - 1)])
      /\ \A i \in c + 1 .. n : (i - c) + 1 \in 1 .. l /\ r[(i - c) + 1] = s[i]
  BY <1>0, <1>1, CutParts
<1>7. sum \in Message /\ sum.about = <<t, 0, 0, "summary">>
  BY <1>0, MembersMessages
<1>8. sum.about[1] = t /\ sum.about[4] = "summary"
  BY <1>7
<1>9. \A i \in 1 .. n : s[i] # sum
  BY <1>8 DEF Fine, SoFar
<1>10. WellFormed(r) /\ NoLongRun(r) /\ n - c <= Keep + LongestRun /\ LongestRun \in Nat
  BY <1>0, <1>1, ShortShown, ShortRuns, BehindCut, CallsBounded
<1>11. DOMAIN s = 1 .. n /\ DOMAIN h = 1 .. c /\ DOMAIN r = 1 .. l
  BY <1>1, <1>6
<1>12. v.ctx = r /\ v.heads = w.heads /\ v.memory = w.memory /\ new.pc = "end"
  OBVIOUS
<1> HIDE DEF s, n, c, h, r, l, sum
<1>13. c \in Nat /\ l \in Nat /\ c + 1 <= n
  BY ONLY <1>5, <1>6
<1>14. ASSUME NEW m \in ToSet(r)
       PROVE  m = sum \/ \E p \in c + 1 .. n : m = s[p]
  <2>1. PICK i \in 1 .. l : m = r[i]
    BY <1>11, <1>14 DEF ToSet
  <2>2. CASE i = 1
    BY <1>6, <2>1, <2>2
  <2>3. CASE i # 1
    <3>1. c + (i - 1) \in 1 .. n /\ r[i] = s[c + (i - 1)]
      BY <1>6, <2>3
    <3>2. c + (i - 1) \in c + 1 .. n
      BY ONLY <1>13, <2>3, <3>1, i \in 1 .. l
    <3> QED
      BY <2>1, <3>1, <3>2
  <2> QED
    BY <2>2, <2>3
<1>15. ToSet(h) \subseteq ToSet(s) /\ \A m \in ToSet(h) : \E i \in 1 .. c : m = s[i]
  BY <1>6, <1>11 DEF ToSet
<1>16. ToSet(s) \subseteq ToSet(h) \cup ToSet(r)
  <2> SUFFICES ASSUME NEW i \in 1 .. n PROVE s[i] \in ToSet(h) \cup ToSet(r)
    BY <1>11 DEF ToSet
  <2>1. CASE i \in 1 .. c
    <3>1. h[i] = s[i]
      BY <1>6, <2>1
    <3> QED
      BY <1>11, <2>1, <3>1 DEF ToSet
  <2>2. CASE i \notin 1 .. c
    <3>1. i \in c + 1 .. n
      BY ONLY <1>5, <2>2, i \in 1 .. n
    <3>2. (i - c) + 1 \in 1 .. l /\ r[(i - c) + 1] = s[i]
      BY <1>6, <3>1
    <3> QED
      BY <1>11, <3>2 DEF ToSet
  <2> QED
    BY <2>1, <2>2
<1>17. Stored(new, v, t)
  <2>1. \A i \in 1 .. l : r[i].about[1] <= t
    <3> SUFFICES ASSUME NEW i \in 1 .. l PROVE r[i].about[1] <= t
      OBVIOUS
    <3>1. CASE i = 1
      BY <1>0, <1>6, <1>8, <3>1
    <3>2. CASE i # 1
      <4>1. c + (i - 1) \in 1 .. n /\ r[i] = s[c + (i - 1)]
        BY <1>6, <3>2
      <4> QED
        BY <1>3, <4>1
    <3> QED
      BY <3>1, <3>2
  <2> QED
    BY <1>2, <1>6, <1>10, <1>12, <2>1 DEF Stored, Early, Loop, Behind, l
<1>18. RecordOf(w) \subseteq RecordOf(v)
  <2>1. ToSet(h) \subseteq RecordOf(v)
    BY <1>2, <1>12, InRecord
  <2>2. ToSet(r) \subseteq RecordOf(v)
    BY <1>12, InRecord
  <2>3. \A u \in Turns : ToSet(w.heads[u]) \subseteq RecordOf(v)
    BY <1>12, InRecord
  <2> QED
    BY <1>1, <1>16, <2>1, <2>2, <2>3, InRecord
<1>19. \A u \in Turns : u # t => sum \notin ToSet(w.heads[u])
  <2> SUFFICES ASSUME NEW u \in Turns, u # t, sum \in ToSet(w.heads[u]) PROVE FALSE
    OBVIOUS
  <2>1. DOMAIN w.heads[u] = 1 .. Len(w.heads[u])
    BY <1>2
  <2>2. PICK i \in 1 .. Len(w.heads[u]) : sum = w.heads[u][i]
    BY <2>1 DEF ToSet
  <2>3. w.heads[u] # <<>>
    BY <2>2
  <2>4. u < t /\ t <= u
    BY <1>2, <1>8, <2>2, <2>3
  <2>5. u \in Nat
    BY TurnIsNat
  <2> QED
    BY ONLY <1>0, <2>4, <2>5
<1>20. sum \notin ToSet(s)
  BY <1>9, <1>11 DEF ToSet
<1>21. Once(v, Turns)
  <2>1. Distinct(r)
    <3> SUFFICES ASSUME NEW i \in 1 .. l, NEW j \in 1 .. l, r[i] = r[j] PROVE i = j
      BY DEF Distinct, l
    <3>1. CASE i = 1 /\ j = 1
      BY <3>1
    <3>2. CASE i = 1 /\ j # 1
      <4>1. c + (j - 1) \in 1 .. n /\ r[j] = s[c + (j - 1)]
        BY <1>6, <3>2
      <4> QED
        BY <1>6, <1>9, <3>2, <4>1
    <3>3. CASE i # 1 /\ j = 1
      <4>1. c + (i - 1) \in 1 .. n /\ r[i] = s[c + (i - 1)]
        BY <1>6, <3>3
      <4> QED
        BY <1>6, <1>9, <3>3, <4>1
    <3>4. CASE i # 1 /\ j # 1
      <4>1. /\ c + (i - 1) \in 1 .. n /\ r[i] = s[c + (i - 1)]
            /\ c + (j - 1) \in 1 .. n /\ r[j] = s[c + (j - 1)]
        BY <1>6, <3>4
      <4>2. c + (i - 1) = c + (j - 1)
        BY <1>4, <4>1 DEF Distinct, n
      <4> QED
        BY ONLY <1>13, <4>2, i \in 1 .. l, j \in 1 .. l
    <3> QED
      BY <3>1, <3>2, <3>3, <3>4
  <2>2. Distinct(h)
    <3> SUFFICES ASSUME NEW i \in 1 .. c, NEW j \in 1 .. c, h[i] = h[j] PROVE i = j
      BY <1>6 DEF Distinct
    <3>1. i \in 1 .. n /\ j \in 1 .. n /\ s[i] = s[j]
      BY <1>6
    <3> QED
      BY <1>4, <3>1 DEF Distinct, n
  <2>3. ASSUME NEW m \in ToSet(r), m \in ToSet(h) PROVE FALSE
    <3>1. PICK i \in 1 .. c : m = s[i]
      BY <1>15, <2>3
    <3>2. m # sum
      BY <1>15, <1>20, <2>3
    <3>3. PICK p \in c + 1 .. n : m = s[p]
      BY <1>14, <3>2
    <3>4. i \in 1 .. n /\ p \in 1 .. n /\ i # p
      BY ONLY <1>5, <1>13, i \in 1 .. c, p \in c + 1 .. n
    <3> QED
      BY <1>4, <3>1, <3>3, <3>4 DEF Distinct, n
  <2>4. ASSUME NEW u \in Turns, u # t, NEW m \in ToSet(r), m \in ToSet(w.heads[u]) PROVE FALSE
    <3>1. m # sum
      BY <1>19, <2>4
    <3>2. PICK p \in c + 1 .. n : m = s[p]
      BY <1>14, <3>1
    <3>3. p \in 1 .. n
      BY ONLY <1>5, <1>13, p \in c + 1 .. n
    <3>4. m \in ToSet(s)
      BY <1>11, <3>2, <3>3 DEF ToSet
    <3> QED
      BY <1>4, <2>4, <3>4
  <2>5. \A u \in Turns : Distinct(w.heads[u]) /\ ToSet(r) \cap ToSet(w.heads[u]) = {}
    BY <1>2, <1>4, <2>2, <2>3, <2>4
  <2>6. \A u \in Turns : u # t => ToSet(h) \cap ToSet(w.heads[u]) = {}
    BY <1>4, <1>15
  <2>7. \A u1, u2 \in Turns : u1 # u2 => ToSet(w.heads[u1]) \cap ToSet(w.heads[u2]) = {}
    BY <1>2, <1>4, <2>6
  <2> QED
    BY <1>12, <2>1, <2>5, <2>7 DEF Once
<1>22. RecallsAll(v)
  <2> SUFFICES ASSUME NEW m \in RecordOf(v), m.about[4] = "summary"
               PROVE  m.about[1] \in Turns /\ m.about[1] \in v.memory /\ v.heads[m.about[1]] # <<>>
    BY DEF RecallsAll
  <2>1. CASE m = sum
    <3>1. h # <<>>
      BY <1>5, <1>6
    <3> QED
      BY <1>2, <1>8, <1>12, <2>1, <3>1
  <2>2. CASE m # sum
    <3>1. m \in RecordOf(w)
      <4>1. CASE m \in ToSet(r)
        <5>1. PICK p \in c + 1 .. n : m = s[p]
          BY <1>14, <2>2, <4>1
        <5>2. p \in 1 .. n
          BY ONLY <1>5, <1>13, p \in c + 1 .. n
        <5>3. m \in ToSet(s)
          BY <1>11, <5>1, <5>2 DEF ToSet
        <5> QED
          BY <1>1, <5>3, InRecord
      <4>2. CASE m \notin ToSet(r)
        BY <1>12, <4>2, InRecord
      <4> QED
        BY <4>1, <4>2
    <3> QED
      BY <1>4, <1>12, <3>1 DEF RecallsAll
  <2> QED
    BY <2>1, <2>2
<1>23. Recorded(new, v, t)
  BY <1>12, <1>21, <1>22 DEF Recorded
<1>24. Ended(new, v, t)
  <2>1. l \in 1 .. l /\ l = (n - c) + 1 /\ n \in c + 1 .. n /\ \A j \in l + 1 .. l : FALSE
    BY ONLY <1>5, <1>6, <1>13
  <2>2. r[l] = s[n]
    BY <1>6, <2>1
  <2>3. OwnEnd(r, t)
    BY <1>1, <2>1, <2>2 DEF OwnEnd, l
  <2>4. l > 0 /\ l <= (1 + Keep) + LongestRun
    BY ONLY <1>5, <1>6, <1>10, <2>1
  <2> QED
    BY <1>12, <2>3, <2>4 DEF Ended, l
<1> QED
  BY <1>17, <1>18, <1>23, <1>24 DEF Keeps

-----------------------------------------------------------------------------
(* What is stored stays in order, and is told, whatever a step does.       *)

\* What is stored stays in order, whatever a step does.
LEMMA KeepsGoesOn ==
  ASSUME NEW st, NEW w, NEW t \in Turns, NEW b \in Seq(Items), b # <<>>, NEW out, NEW v,
         Fine(st, t, b), Stored(st, w, t), Recorded(st, w, t), Returns(st, out, w),
         Does(st, out, t, w, v), st.pc # "end", Fine(After(st, out, t, b), t, b)
  PROVE  Keeps(After(st, out, t, b), v, t) /\ RecordOf(w) \subseteq RecordOf(v)
<1> DEFINE new == After(st, out, t, b)
<1>0. t \in Nat
  BY TurnIsNat
<1>1. new.pc = NextPc(st, out, t, b) /\ new.msgs = NextMsgs(st, out, t, b)
  BY AfterIs
<1>2. st.pc \in {"load"} \cup Early \cup Loop \cup Late
  BY DEF Fine, Typed
<1>3. /\ v.ctx = IF st.pc = "persist" THEN st.msgs
                 ELSE IF st.pc = "truncate" THEN Short(st.msgs, t) ELSE w.ctx
      /\ v.memory = IF st.pc = "remember" THEN w.memory \cup {t} ELSE w.memory
      /\ v.heads = IF st.pc = "log" /\ w.heads[t] = <<>> THEN [w.heads EXCEPT ![t] = HeadOf(st.msgs)]
                   ELSE w.heads
  BY DEF Does
<1>4. v.ctx = w.ctx /\ v.heads = w.heads => RecordOf(w) = RecordOf(v)
  BY DEF RecordOf
<1> HIDE DEF new
<1> SUFFICES Keeps(new, v, t) /\ RecordOf(w) \subseteq RecordOf(v)
  BY DEF new
<1>5. CASE st.pc = "load"
  <2>1. v.ctx = w.ctx /\ v.heads = w.heads /\ v.memory = w.memory
    BY <1>3, <1>5
  <2>2. Keeps(new, v, t)
    BY <1>0, <1>5, <2>1, LoadKeeps DEF new
  <2> QED
    BY <1>4, <2>1, <2>2
<1>6. CASE st.pc \in Early \cup Loop
  <2>1. v.ctx = w.ctx /\ v.heads = w.heads /\ v.memory = w.memory
    BY <1>3, <1>6 DEF Early, Loop
  <2>2. Keeps(new, v, t)
    BY <1>0, <1>6, <2>1, SayingKeeps DEF new
  <2> QED
    BY <1>4, <2>1, <2>2
<1>7. CASE st.pc = "persist"
  <2>1. v.ctx = st.msgs /\ v.heads = w.heads /\ v.memory = w.memory
    BY <1>3, <1>7
  <2>2. /\ new.msgs = st.msgs
        /\ new.pc = IF Last(st.msgs).about[4] # "reprompt" /\ Compacts(st.msgs) THEN "summarize" ELSE "end"
    BY <1>1, <1>7 DEF NextPc, NextMsgs
  <2> QED
    BY <1>7, <2>1, <2>2, PersistKeeps
<1>8. CASE st.pc \in {"summarize", "embed", "remember"}
  <2>1. /\ v.ctx = w.ctx /\ v.heads = w.heads
        /\ v.memory = IF st.pc = "remember" THEN w.memory \cup {t} ELSE w.memory
    BY <1>3, <1>8
  <2>2. /\ new.msgs = st.msgs
        /\ new.pc = IF st.pc = "summarize" THEN "embed" ELSE IF st.pc = "embed" THEN "remember" ELSE "log"
    BY <1>1, <1>8 DEF NextPc, NextMsgs
  <2>3. Keeps(new, v, t)
    BY <1>8, <2>1, <2>2, CallingOutKeeps
  <2> QED
    BY <1>4, <2>1, <2>3
<1>9. CASE st.pc = "log"
  <2>1. /\ v.ctx = w.ctx /\ v.memory = w.memory
        /\ w.heads[t] = <<>> =>
             /\ DOMAIN v.heads = DOMAIN w.heads
             /\ \A u \in DOMAIN w.heads : v.heads[u] = IF u = t THEN HeadOf(st.msgs) ELSE w.heads[u]
    BY <1>3, <1>9
  <2>2. new.msgs = st.msgs /\ new.pc = "truncate"
    BY <1>1, <1>9 DEF NextPc, NextMsgs
  <2>3. Keeps(new, v, t) /\ RecordOf(v) = RecordOf(w)
    BY <1>9, <2>1, <2>2, LogKeeps
  <2> QED
    BY <2>3
<1>10. CASE st.pc = "truncate"
  <2>1. v.ctx = Short(st.msgs, t) /\ v.memory = w.memory /\ v.heads = w.heads
    BY <1>3, <1>10
  <2>2. new.msgs = st.msgs /\ new.pc = "end"
    BY <1>1, <1>10 DEF NextPc, NextMsgs
  <2> QED
    BY <1>10, <2>1, <2>2, TruncateKeeps
<1> QED
  BY <1>2, <1>5, <1>6, <1>7, <1>8, <1>9, <1>10 DEF Late, Behind

\* What was told stays told.
LEMMA ToldGoesOn ==
  ASSUME NEW st, NEW w, NEW t \in Turns, NEW b \in Seq(Items), b # <<>>, NEW out, NEW v, NEW inp,
         Fine(st, t, b), Done(st, w, t, inp), Returns(st, out, w), Does(st, out, t, w, v),
         st.pc # "end", st.pc = "load" => st.msgs = <<>>,
         Fine(After(st, out, t, b), t, b), RecordOf(w) \subseteq RecordOf(v)
  PROVE  LET new == After(st, out, t, b) IN
         /\ ToSet(st.msgs) \subseteq ToSet(new.msgs)
         /\ Told(st, w) \subseteq Told(new, v)
         /\ new.pc \in Behind \cup {"end"} => ToSet(new.msgs) \subseteq RecordOf(v)
<1> DEFINE new == After(st, out, t, b)
<1>0. t \in Nat
  BY TurnIsNat
<1>1. new.pc = NextPc(st, out, t, b) /\ new.msgs = NextMsgs(st, out, t, b)
  BY AfterIs
<1>2. st.pc \in {"load"} \cup Early \cup Loop \cup Late
  BY DEF Fine, Typed
<1> HIDE DEF new
<1>3. CASE st.pc = "load"
  <2>1. new.pc \notin Behind \cup {"end"}
    BY <1>1, <1>3 DEF NextPc, Behind
  <2>2. ToSet(<<>>) = {}
    BY DEF ToSet
  <2>3. ToSet(st.msgs) = {}
    BY <1>3, <2>2
  <2> QED
    BY <2>1, <2>3 DEF Told, new
<1>4. CASE st.pc \in Early \cup Loop
  <2>1. ToSet(st.msgs) \subseteq ToSet(new.msgs) /\ new.pc \in Early \cup Loop \cup {"persist"}
    BY <1>0, <1>4, SaysItsOwn DEF new
  <2>2. new.pc \notin Behind \cup {"end"}
    BY <2>1 DEF Early, Loop, Behind
  <2> QED
    BY <2>1, <2>2 DEF Told, new
<1>5. CASE st.pc \in Late
  <2>1. new.msgs = st.msgs
    BY <1>1, <1>5 DEF NextMsgs, Late, Behind
  <2>2. ToSet(new.msgs) \subseteq RecordOf(v)
    <3>1. CASE st.pc = "persist"
      <4>1. v.ctx = new.msgs
        BY <2>1, <3>1 DEF Does
      <4> QED
        BY <4>1, InRecord
    <3>2. CASE st.pc # "persist"
      <4>1. st.pc \in Behind
        BY <1>5, <3>2 DEF Late
      <4>2. ToSet(st.msgs) \subseteq RecordOf(w)
        BY <4>1 DEF Done
      <4> QED
        BY <2>1, <4>2
    <3> QED
      BY <3>1, <3>2
  <2> QED
    BY <2>1, <2>2 DEF Told, new
<1> QED
  BY <1>2, <1>3, <1>4, <1>5

-----------------------------------------------------------------------------
(* What is done in the world is told.                                      *)

\* A list made longer by one.
LEMMA LongerTells ==
  ASSUME NEW S, NEW p \in Seq(S), NEW c \in S
  PROVE  ToSet(p) \subseteq ToSet(Append(p, c)) /\ c \in ToSet(Append(p, c))
<1>1. /\ Append(p, c) \in Seq(S) /\ Len(Append(p, c)) = Len(p) + 1 /\ Append(p, c)[Len(p) + 1] = c
      /\ \A i \in 1 .. Len(p) : Append(p, c)[i] = p[i]
      /\ Len(p) \in Nat /\ DOMAIN p = 1 .. Len(p)
  <2>1. Len(p) \in Nat /\ DOMAIN p = 1 .. Len(p)
    OBVIOUS
  <2> QED
    BY <2>1, AppendProperties
<1>2. DOMAIN Append(p, c) = 1 .. Len(p) + 1
  BY <1>1
<1> DEFINE q == Append(p, c)
           n == Len(p)
<1> HIDE DEF q, n
<1>3. /\ q[n + 1] = c /\ \A i \in 1 .. n : q[i] = p[i]
      /\ n \in Nat /\ DOMAIN p = 1 .. n /\ DOMAIN q = 1 .. n + 1
  BY <1>1, <1>2 DEF q, n
<1>4. ToSet(p) \subseteq ToSet(q) /\ c \in ToSet(q)
  BY ONLY <1>3 DEF ToSet
<1> QED
  BY <1>4 DEF q

\* The tool that is run now: its result is new, and is told.
LEMMA ToolTells ==
  ASSUME NEW st, NEW w, NEW t \in Turns, NEW b \in Seq(Items), b # <<>>, NEW out,
         Fine(st, t, b), Stored(st, w, t), Returns(st, out, w), st.pc = "tool"
  PROVE  LET new == After(st, out, t, b) IN
         /\ out \in CallsIn(t) /\ out \in Subjects
         /\ Result(out) \in ToSet(new.msgs) /\ Result(out) \notin Told(st, w)
         /\ ToSet(st.parked) \subseteq ToSet(new.parked)
         /\ out[4] = "confirm" => out \in ToSet(new.parked)
<1> DEFINE new  == After(st, out, t, b)
           C    == CallsIn(t)
           wait == Waiting(st, out)
           s    == Append(st.msgs, Result(out))
           x    == Prompts(wait)
<1>0. t \in Nat
  BY TurnIsNat
<1>1. out = Head(st.due)
  BY DEF Returns
<1>2. /\ out \in C /\ wait \in Seq(C) /\ s \in Seq(Message) /\ ToSet(s) = ToSet(st.msgs) \cup {Result(out)}
      /\ Result(out) \notin ToSet(st.msgs)
  BY <1>0, <1>1, ResultIsTold
<1>3. out \in Subjects /\ C \subseteq Subjects /\ out[1] = t
  BY <1>2 DEF CallsIn
<1>4. Result(out).about = out
  BY <1>3, CallsMessages
<1>5. Result(out) \notin Told(st, w)
  <2>1. \A u \in Turns : \A m \in ToSet(w.heads[u]) : m.about[1] < t
    BY HeadsAreOlder
  <2>2. ~(t < t)
    BY <1>0
  <2>3. \A u \in Turns : Result(out) \notin ToSet(w.heads[u])
    BY <1>3, <1>4, <2>1, <2>2
  <2>4. ToSet(w.ctx) \subseteq ToSet(st.msgs)
    <3>1. w.ctx \in Seq(Message) /\ Since(w.ctx, st.msgs, t) /\ st.msgs \in Seq(Message)
      BY DEF Stored, Loop, Fine, Typed
    <3> QED
      BY <3>1, SinceTells
  <2> QED
    BY <1>2, <2>3, <2>4, InRecord DEF Told
<1>6. /\ new.msgs = s \/ new.msgs = s \o x
      /\ new.parked = wait
  <2>1. new.msgs = NextMsgs(st, out, t, b) /\ new.parked = wait
    BY AfterIs
  <2> QED
    BY <2>1 DEF NextMsgs
<1>7. Result(out) \in ToSet(new.msgs)
  <2>1. x \in Seq(Message)
    <3>1. wait \in Seq(Subjects)
      BY <1>2, <1>3
    <3> QED
      BY <3>1, ResultsMessages
  <2>2. ToSet(s \o x) = ToSet(s) \cup ToSet(x)
    BY <1>2, <2>1, Concatenated, AllOf
  <2> QED
    BY <1>2, <1>6, <2>2
<1>8. st.parked \in Seq(C)
  BY DEF Fine, Typed
<1>9. ToSet(st.parked) \subseteq ToSet(wait) /\ (out[4] = "confirm" => out \in ToSet(wait))
  <2> HIDE DEF C
  <2>1. ToSet(st.parked) \subseteq ToSet(Append(st.parked, out)) /\ out \in ToSet(Append(st.parked, out))
    BY <1>2, <1>8, LongerTells
  <2> QED
    BY <2>1 DEF Waiting
<1> QED
  BY <1>2, <1>3, <1>5, <1>6, <1>7, <1>9

\* What is done is told, and only once, whatever a step does.
LEMMA DoneGoesOn ==
  ASSUME NEW st, NEW w, NEW t \in Turns, NEW b \in Seq(Items), b # <<>>, NEW out, NEW v, NEW inp,
         Fine(st, t, b), Stored(st, w, t), Done(st, w, t, inp), Returns(st, out, w),
         Does(st, out, t, w, v), st.pc # "end", st.pc = "load" => st.msgs = <<>>,
         Fine(After(st, out, t, b), t, b), RecordOf(w) \subseteq RecordOf(v)
  PROVE  Done(After(st, out, t, b), v, t, inp)
<1> DEFINE new == After(st, out, t, b)
<1>0. t \in Nat
  BY TurnIsNat
<1>1. /\ ToSet(st.msgs) \subseteq ToSet(new.msgs) /\ Told(st, w) \subseteq Told(new, v)
      /\ new.pc \in Behind \cup {"end"} => ToSet(new.msgs) \subseteq RecordOf(v)
  BY ToldGoesOn
<1>2. ToSet(new.msgs) \subseteq Told(new, v)
  BY DEF Told
<1>3. /\ w.effects \in Seq(Effects) /\ w.pending \subseteq Subjects
      /\ \A i \in 1 .. Len(w.effects) :
           w.effects[i].call \notin w.pending /\ Result(w.effects[i].call) \in Told(st, w)
      /\ \A a \in w.pending : a[4] = "confirm" /\ Result(a) \in Told(st, w)
  BY DEF Done
<1>4. new.parked = IF st.pc = "tool" THEN Waiting(st, out) ELSE st.parked
  BY AfterIs
<1>5. new.msgs = NextMsgs(st, out, t, b)
  BY AfterIs
<1> HIDE DEF new
<1> SUFFICES Done(new, v, t, inp)
  BY DEF new
<1>6. ToSet(st.parked) \subseteq ToSet(new.parked)
  <2>1. CASE st.pc = "tool"
    BY <2>1, ToolTells DEF new
  <2>2. CASE st.pc # "tool"
    BY <1>4, <2>2
  <2> QED
    BY <2>1, <2>2
<1>7. CASE v.effects = w.effects /\ v.pending \subseteq w.pending
  BY <1>1, <1>6, <1>7, DoneGrows
<1>8. CASE st.pc \in {"resolve", "classify"} /\ ~Silent(out)
  <2>1. PICK a, x : out = <<a, x>> /\ (x = "executed" => a \in w.pending)
    BY <1>8 DEF Returns, Settling, Silent
  <2>2. out[1] = a /\ out[2] = x
    BY <2>1
  <2>3. /\ v.pending = IF x \in {"refined", "told"} THEN w.pending ELSE w.pending \ {a}
        /\ v.effects = IF x = "executed" THEN Append(w.effects, [call |-> a, in |-> t]) ELSE w.effects
    BY <1>8, <2>2 DEF Does, Settled
  <2>4. CASE x # "executed"
    BY <1>7, <2>3, <2>4
  <2>5. CASE x = "executed"
    <3> DEFINE e == [call |-> a, in |-> t]
    <3>1. a \in w.pending /\ a \in Subjects /\ v.pending = w.pending \ {a}
      BY <1>3, <2>1, <2>3, <2>5
    <3>2. e \in Effects /\ e.call = a /\ e.in = t
      BY <1>0, <3>1 DEF Effects
    <3>3. Update(t) \in Told(new, v)
      <4>1. new.msgs = Append(st.msgs, Update(t))
        BY <1>5, <1>8, <2>2, <2>5 DEF NextMsgs, Updated, Refined
      <4>2. Update(t) \in Message /\ st.msgs \in Seq(Message)
        BY <1>0, MembersMessages DEF Fine, Typed
      <4>3. Update(t) \in ToSet(new.msgs)
        BY <4>1, <4>2, LongerTells
      <4> QED
        BY <1>2, <4>3
    <3>4. v.effects = Append(w.effects, e)
      BY <2>3, <2>5
    <3> HIDE DEF e
    <3>5. /\ e.call \notin v.pending /\ Result(e.call) \in Told(new, v) /\ Update(e.in) \in Told(new, v)
          /\ \A i \in 1 .. Len(w.effects) : w.effects[i].call # e.call
      BY <1>1, <1>3, <3>1, <3>2, <3>3
    <3>6. \A c \in v.pending : c \in w.pending
      BY <3>1
    <3> QED
      BY <1>1, <1>6, <3>2, <3>4, <3>5, <3>6, DoneGrows
  <2> QED
    BY <2>4, <2>5
<1>9. CASE st.pc = "tool"
  <2>1. /\ out \in Subjects /\ Result(out) \in Told(new, v) /\ Result(out) \notin Told(st, w)
        /\ out[4] = "confirm" => out \in ToSet(new.parked)
    BY <1>2, <1>9, ToolTells DEF new
  <2>2. \A i \in 1 .. Len(w.effects) : w.effects[i].call # out
    BY <1>3, <2>1
  <2>3. /\ v.effects = IF out[4] = "auto" THEN Append(w.effects, [call |-> out, in |-> t]) ELSE w.effects
        /\ v.pending = IF out[4] = "confirm" THEN w.pending \cup {out} ELSE w.pending
    BY <1>9 DEF Does, Ran
  <2>4. CASE out[4] = "auto"
    <3> DEFINE e == [call |-> out, in |-> t]
    <3>1. v.pending = w.pending /\ v.effects = Append(w.effects, e) /\ out \notin w.pending
      BY <1>3, <2>3, <2>4
    <3>2. e \in Effects /\ e.call = out
      BY <1>0, <2>1 DEF Effects
    <3> HIDE DEF e
    <3> QED
      BY <1>1, <1>6, <2>1, <2>2, <2>4, <3>1, <3>2, DoneGrows
  <2>5. CASE out[4] = "confirm"
    <3>1. v.effects = w.effects
      BY <2>3, <2>5
    <3>2. \A a \in v.pending : a \in w.pending \/ a = out
      BY <2>3, <2>5
    <3>3. \A a \in v.pending :
            \/ /\ a \in w.pending
               /\ a \in ToSet(st.parked) => a \in ToSet(new.parked) \/ Prompt(a) \in Told(new, v)
            \/ /\ a \in Subjects /\ a[4] = "confirm" /\ Result(a) \in Told(new, v)
               /\ Prompt(a) \in Told(new, v) \/ a \in ToSet(new.parked)
               /\ \A i \in 1 .. Len(v.effects) : v.effects[i].call # a
      BY <1>6, <2>1, <2>2, <2>5, <3>1, <3>2
    <3> QED
      BY <1>1, <3>1, <3>3, DoneGrows
  <2>6. CASE out[4] \notin {"auto", "confirm"}
    BY <1>7, <2>3, <2>6
  <2> QED
    BY <2>4, <2>5, <2>6
<1>10. CASE ~(st.pc \in {"resolve", "classify"} /\ ~Silent(out)) /\ st.pc # "tool"
  BY <1>7, <1>10 DEF Does, Settled
<1> QED
  BY <1>8, <1>9, <1>10

\* To go on to the model, where no router is wired, changes nothing yet.
LEMMA ActingHeld ==
  ASSUME NEW st, NEW w, NEW t \in Nat, NEW b, NEW inp, NEW name, Fine(st, t, b), Held(st, w, t, inp)
  PROVE  Fine(Acting(st, name), t, b) /\ Held(Acting(st, name), w, t, inp)
<1> DEFINE new == Acting(st, name)
<1>1. /\ new.msgs = st.msgs /\ new.due = st.due /\ new.parked = st.parked /\ new.rounds = st.rounds
      /\ new.pc = st.pc \/ (st.pc = "route" /\ new.pc = "model")
  BY DEF Acting
<1> HIDE DEF new
<1>2. CASE new.pc = st.pc
  <2>1. Typed(new, t) /\ Bounded(new) /\ EndsOwn(new, t) /\ Shown(new)
    BY <1>1, <1>2 DEF Fine, Typed, Bounded, EndsOwn, Shown
  <2>2. Fresh(new, t) /\ SoFar(new, t) /\ TellsAll(new, t, b)
    BY <1>1, <1>2 DEF Fine, Fresh, SoFar, TellsAll
  <2>3. Stored(new, w, t) /\ Recorded(new, w, t) /\ Ended(new, w, t)
    BY <1>1, <1>2 DEF Held, Stored, Recorded, Ended
  <2>4. Done(new, w, t, inp)
    BY <1>1, <1>2 DEF Held, Done, Told
  <2> QED
    BY <2>1, <2>2, <2>3, <2>4 DEF Fine, Held, new
<1>3. CASE st.pc = "route" /\ new.pc = "model"
  <2>1. Fine(new, t, b)
    BY <1>1, <1>3, EarlyGoesOn DEF Early
  <2>2. Stored(new, w, t)
    BY <1>1, <1>3 DEF Held, Stored, Early, Loop, Behind
  <2>3. Recorded(new, w, t) /\ Ended(new, w, t)
    BY <1>1, <1>3 DEF Held, Recorded, Ended
  <2>4. Done(new, w, t, inp)
    BY <1>1, <1>3 DEF Held, Done, Told, Behind
  <2> QED
    BY <2>1, <2>2, <2>3, <2>4 DEF Held, new
<1> QED
  BY <1>1, <1>2, <1>3

\* All of it goes on together.
LEMMA HeldGoesOn ==
  ASSUME NEW st, NEW w, NEW t \in Turns, NEW b \in Seq(Items), b # <<>>, NEW out, NEW v, NEW inp,
         Fine(st, t, b), Held(st, w, t, inp), Returns(st, out, w),
         Does(st, out, t, w, v), st.pc # "end", st.pc = "load" => st.msgs = <<>>
  PROVE  Fine(After(st, out, t, b), t, b) /\ Held(After(st, out, t, b), v, t, inp)
<1>0. t \in Nat
  BY TurnIsNat
<1>1. Stored(st, w, t) /\ Recorded(st, w, t) /\ Done(st, w, t, inp)
  BY DEF Held
<1>2. Fine(After(st, out, t, b), t, b)
  BY <1>0, <1>1, FineGoesOn
<1>3. Keeps(After(st, out, t, b), v, t) /\ RecordOf(w) \subseteq RecordOf(v)
  BY <1>1, <1>2, KeepsGoesOn
<1>4. Done(After(st, out, t, b), v, t, inp)
  BY <1>1, <1>2, <1>3, DoneGoesOn
<1> QED
  BY <1>2, <1>3, <1>4 DEF Keeps, Held

-----------------------------------------------------------------------------
(* The workflow.                                                           *)

\* A step passes the entry of the journal, new or old, ...
Passes(name, out) ==
  /\ live /\ Journaled(name, out) /\ pc # "end"
  /\ Now' = After(Acting(Now, name), out, turn, input[turn])
  /\ UNCHANGED <<turn, status, input, live>>

\* ... and acts on the store only where the entry is new.
Acts(name, out) ==
  /\ IsFresh => Returns(Acting(Now, name), out, World)
                /\ Does(Acting(Now, name), out, turn, World, World')
  /\ ~IsFresh => World' = World

\* The program and what it stores.
LEMMA NowIs ==
  /\ Now.pc = pc /\ Now.digest = digest /\ Now.msgs = msgs /\ Now.due = due
  /\ Now.parked = parked /\ Now.rounds = rounds /\ Now.tier = tier
  /\ World.ctx = ctx /\ World.pending = pending /\ World.effects = effects
  /\ World.memory = memory /\ World.heads = heads
<1> QED
  BY DEF Now, World

\* The program as it acts.
LEMMA ActingIs ==
  ASSUME NEW name
  PROVE  LET st == Acting(Now, name) IN
         /\ st.pc = IF pc = "route" /\ name = "callModel" THEN "model" ELSE pc
         /\ st.msgs = msgs /\ st.due = due
<1> QED
  BY DEF Acting, Now

\* The same behind the step.
LEMMA WorldNext ==
  /\ World'.ctx = ctx' /\ World'.pending = pending' /\ World'.effects = effects'
  /\ World'.memory = memory' /\ World'.heads = heads'
  /\ UNCHANGED <<ctx, pending, effects, memory, heads>> => World' = World
<1> QED
  BY DEF World

\* A step that only reads, and one that settles.
LEMMA Reads ==
  ASSUME UNCHANGED <<ctx, pending, effects, memory, heads>>, NEW name, NEW out,
         pc \notin {"persist", "truncate", "remember", "log", "resolve", "classify", "tool"},
         pc = "load" => out = ctx \/ ~IsFresh,
         pc = "model" \/ name = "callModel" => out \in Responses
  PROVE  Acts(name, out)
<1> DEFINE st == Acting(Now, name)
           w  == World
           v  == World'
<1>1. v = w
  BY WorldNext
<1>2. st.pc = IF pc = "route" /\ name = "callModel" THEN "model" ELSE pc
  BY ActingIs
<1>3. w.ctx = ctx
  BY NowIs
<1> HIDE DEF st, w, v
<1>4. IsFresh => Returns(st, out, w)
  BY <1>2, <1>3 DEF Returns
<1>5. Does(st, out, turn, w, v)
  BY <1>1, <1>2 DEF Does
<1> QED
  BY <1>1, <1>4, <1>5 DEF Acts, st, w, v

\* An approval that is settled, or refined, or left alone.
LEMMA Settles ==
  ASSUME UNCHANGED <<ctx, memory, heads>>, NEW name, NEW out, Settle(out), pc \in {"resolve", "classify"},
         IsFresh => Settling(out, pending), IsFresh /\ pc = "resolve" => ~Refined(out)
  PROVE  Acts(name, out)
<1> DEFINE st == Acting(Now, name)
           w  == World
           v  == World'
<1>0. st.pc = pc
  BY ActingIs
<1>1. /\ w.ctx = ctx /\ w.pending = pending /\ w.effects = effects /\ w.memory = memory /\ w.heads = heads
      /\ v.ctx = ctx' /\ v.pending = pending' /\ v.effects = effects' /\ v.memory = memory'
      /\ v.heads = heads'
      /\ UNCHANGED <<ctx, pending, effects, memory, heads>> => v = w
  BY NowIs, WorldNext
<1> HIDE DEF st, w, v
<1>2. ASSUME ~IsFresh PROVE v = w
  BY <1>1, <1>2 DEF Settle
<1>3. ASSUME IsFresh PROVE Returns(st, out, w) /\ Does(st, out, turn, w, v)
  <2>1. Returns(st, out, w)
    BY <1>0, <1>1, <1>3 DEF Returns
  <2>2. Settled(out, turn, w, v)
    <3>1. IF ~Silent(out)
          THEN /\ pending' = IF out[2] \in {"refined", "told"} THEN pending ELSE pending \ {out[1]}
               /\ effects' = IF out[2] = "executed" THEN Append(effects, Effect(out[1])) ELSE effects
          ELSE UNCHANGED <<pending, effects>>
      BY <1>3 DEF Settle
    <3> QED
      BY <1>1, <3>1 DEF Settled, Effect
  <2>3. Does(st, out, turn, w, v)
    BY <1>0, <1>1, <2>2 DEF Does
  <2> QED
    BY <2>1, <2>3
<1> QED
  BY <1>2, <1>3 DEF Acts, st, w, v

\* What each step does to the program and to the store.
LEMMA StepPasses ==
  ASSUME Step, ~Finish
  PROVE  \E name, out : Passes(name, out) /\ Acts(name, out)
<1> USE DEF At, frame, world, After, NextPc, NextMsgs, NextDigest, Acting
<1>1. CASE Load
  <2>1. Passes("load", Output(ctx))
    BY <1>1 DEF Load, Passes, Now
  <2>2. Acts("load", Output(ctx))
    BY <1>1, Reads DEF Load, Output
  <2> QED
    BY <2>1, <2>2
<1>2. CASE ResolveApproval
  <2>1. PICK out \in IF IsFresh THEN Settlements ELSE {Output(<<>>)} :
          Journaled("resolve", out) /\ Settle(out) /\ msgs' = WithUpdate(out) /\ digest' = BoundBy(out)
    BY <1>2 DEF ResolveApproval
  <2>2. Passes("resolve", out)
    BY <1>2, <2>1 DEF ResolveApproval, WithUpdate, Updated, Passes, Now
  <2>3. ASSUME IsFresh
        PROVE  Settling(out, pending) /\ ~Refined(out)
    <3>1. \/ out = <<>> \/ out = <<Gone, "told">> \/ out = <<Gone, "unclear">>
          \/ \E a \in pending : \E x \in {"executed", "denied", "unclear"} : out = <<a, x>>
      BY <2>1, <2>3 DEF Settlements
    <3> QED
      BY <3>1 DEF Refined, Settling, Outcomes
  <2>4. Acts("resolve", out)
    BY <1>2, <2>1, <2>3, Settles DEF ResolveApproval
  <2> QED
    BY <2>2, <2>4
<1>3. CASE ReadDigest
  <2>1. Passes(pc, Output(pending))
    BY <1>3 DEF ReadDigest, Classifies, Passes, Now
  <2>2. Acts(pc, Output(pending))
    BY <1>3, Reads DEF ReadDigest
  <2> QED
    BY <2>1, <2>2
<1>4. CASE Classify
  <2>1. PICK a \in digest : \E out \in IF IsFresh THEN Verdicts(a) ELSE {Output(<<>>)} :
          /\ Journaled("classify", out)
          /\ Settle(out)
          /\ IF out # <<>> /\ out[2] = "refined"
             THEN msgs' = Append(msgs, Reprompt(turn)) /\ pc' = "persist"
             ELSE msgs' = WithUpdate(out) /\ pc' = IF out = <<>> THEN "route" ELSE "redigest"
    BY <1>4 DEF Classify
  <2>2. PICK out \in IF IsFresh THEN Verdicts(a) ELSE {Output(<<>>)} :
          /\ Journaled("classify", out)
          /\ Settle(out)
          /\ IF out # <<>> /\ out[2] = "refined"
             THEN msgs' = Append(msgs, Reprompt(turn)) /\ pc' = "persist"
             ELSE msgs' = WithUpdate(out) /\ pc' = IF out = <<>> THEN "route" ELSE "redigest"
    BY <2>1
  <2>3. Passes("classify", out)
    BY <1>4, <2>2 DEF Classify, WithUpdate, Updated, Refined, Passes, Now
  <2>4. ASSUME IsFresh
        PROVE  Settling(out, pending)
    <3>1. \/ out = <<>> \/ out = <<a, "told">>
          \/ \E c \in pending : \E x \in {"executed", "denied", "refined"} : out = <<c, x>>
      BY <2>2, <2>4 DEF Verdicts
    <3> QED
      BY <3>1 DEF Settling, Outcomes
  <2>5. Acts("classify", out)
    BY <1>4, <2>2, <2>4, Settles DEF Classify
  <2> QED
    BY <2>3, <2>5
<1>5. CASE RouteTurn
  <2>1. PICK out : Journaled("route", out) /\ tier' = out
    BY <1>5 DEF RouteTurn
  <2>2. Passes("route", out)
    BY <1>5, <2>1 DEF RouteTurn, Passes, Now
  <2>3. Acts("route", out)
    BY <1>5, Reads DEF RouteTurn
  <2> QED
    BY <2>2, <2>3
<1>6. CASE LogRoute
  <2>1. Passes("logRoute", TRUE)
    BY <1>6 DEF LogRoute, Passes, Now
  <2>2. Acts("logRoute", TRUE)
    <3>1. pc = "logRoute" /\ UNCHANGED <<ctx, pending, effects, memory, heads>>
      BY <1>6 DEF LogRoute
    <3>2. /\ pc \notin {"persist", "truncate", "remember", "log", "resolve", "classify", "tool"}
          /\ pc # "load" /\ ~(pc = "model" \/ "logRoute" = "callModel")
      BY <3>1
    <3>3. ASSUME NEW out PROVE Acts("logRoute", out)
      BY <3>1, <3>2, Reads
    <3> QED
      BY <3>3
  <2> QED
    BY <2>1, <2>2
<1>7. CASE CallModel
  <2>1. PICK out \in Responses :
          /\ Journaled("callModel", out)
          /\ msgs' = Append(msgs, Answer(turn, rounds + 1, CallsOf(turn, rounds + 1, out)))
          /\ due' = CallsOf(turn, rounds + 1, out)
          /\ pc' = IF out = <<>> THEN "persist" ELSE "tool"
    BY <1>7 DEF CallModel
  <2>0. pc \in {"model", "route"}
    BY <1>7 DEF CallModel, AskNow
  <2>2. Passes("callModel", out)
    BY <1>7, <2>0, <2>1 DEF CallModel, Passes, Now
  <2>3. Acts("callModel", out)
    BY <1>7, <2>0, <2>1, Reads DEF CallModel
  <2> QED
    BY <2>2, <2>3
<1>8. CASE RunTool
  <2> DEFINE call == Output(Head(due))
  <2>1. Passes("runTool", call)
    <3>1. Acting(Now, "runTool") = Now
      BY DEF Now
    <3>2. Now' = After(Now, call, turn, input[turn])
      BY <1>8 DEF RunTool, AfterTools, Waiting, Now
    <3>3. live /\ Journaled("runTool", call) /\ pc # "end" /\ UNCHANGED <<turn, status, input, live>>
      BY <1>8 DEF RunTool
    <3> QED
      BY ONLY <3>1, <3>2, <3>3 DEF Passes
  <2>2. /\ effects' = IF IsFresh /\ call[4] = "auto" THEN Append(effects, Effect(call)) ELSE effects
        /\ pending' = IF IsFresh /\ call[4] = "confirm" THEN pending \cup {call} ELSE pending
        /\ UNCHANGED <<ctx, memory, heads>> /\ pc = "tool" /\ (IsFresh => call = Head(due))
    BY <1>8 DEF RunTool, Output
  <2> HIDE DEF call
  <2> DEFINE st == Acting(Now, "runTool")
             w  == World
             v  == World'
  <2>3. st.pc = "tool" /\ st.due = due
    BY <2>2, ActingIs
  <2>4. /\ w.ctx = ctx /\ w.pending = pending /\ w.effects = effects /\ w.memory = memory /\ w.heads = heads
        /\ v.ctx = ctx' /\ v.pending = pending' /\ v.effects = effects' /\ v.memory = memory'
        /\ v.heads = heads'
        /\ UNCHANGED <<ctx, pending, effects, memory, heads>> => v = w
    BY NowIs, WorldNext
  <2> HIDE DEF st, w, v
  <2>5. ASSUME ~IsFresh PROVE v = w
    BY <2>2, <2>4, <2>5
  <2>6. ASSUME IsFresh PROVE Returns(st, call, w) /\ Does(st, call, turn, w, v)
    <3>1. Returns(st, call, w)
      BY <2>2, <2>3, <2>6 DEF Returns
    <3>2. Ran(call, turn, w, v)
      BY <2>2, <2>4, <2>6 DEF Ran, Effect
    <3>3. Does(st, call, turn, w, v)
      BY <2>2, <2>3, <2>4, <3>2 DEF Does
    <3> QED
      BY <3>1, <3>3
  <2>7. Acts("runTool", call)
    BY <2>5, <2>6 DEF Acts, st, w, v
  <2> QED
    BY <2>1, <2>7
<1>9. CASE FinalAnswer
  <2>1. Passes("callModelForcedFinal", TRUE)
    BY <1>9 DEF FinalAnswer, Passes, Now
  <2>2. Acts("callModelForcedFinal", TRUE)
    <3>1. pc = "final" /\ UNCHANGED <<ctx, pending, effects, memory, heads>>
      BY <1>9 DEF FinalAnswer
    <3>2. /\ pc \notin {"persist", "truncate", "remember", "log", "resolve", "classify", "tool"}
          /\ pc # "load" /\ ~(pc = "model" \/ "callModelForcedFinal" = "callModel")
      BY <3>1
    <3>3. ASSUME NEW out PROVE Acts("callModelForcedFinal", out)
      BY <3>1, <3>2, Reads
    <3> QED
      BY <3>3
  <2> QED
    BY <2>1, <2>2
<1>10. CASE Persist \/ WriteMemory \/ WriteCompactionLog \/ Truncate
  <2>1. \E name : name # "callModel" /\ Passes(name, TRUE)
    <3>1. CASE Persist
      <4>1. Passes("persist", TRUE)
        BY <3>1 DEF Persist, Passes, Now
      <4> QED
        BY <4>1
    <3>2. CASE WriteMemory
      <4>1. Passes("writeMemory", TRUE)
        BY <3>2 DEF WriteMemory, Passes, Now
      <4> QED
        BY <4>1
    <3>3. CASE WriteCompactionLog
      <4>1. Passes("writeCompactionLog", TRUE)
        BY <3>3 DEF WriteCompactionLog, Passes, Now
      <4> QED
        BY <4>1
    <3>4. CASE Truncate
      <4>1. Passes("persist", TRUE)
        BY <3>4 DEF Truncate, Passes, Now
      <4> QED
        BY <4>1
    <3> QED
      BY <1>10, <3>1, <3>2, <3>3, <3>4
  <2>0. PICK name : name # "callModel" /\ Passes(name, TRUE)
    BY <2>1
  <2> DEFINE st == Acting(Now, name)
             w  == World
             v  == World'
  <2>2. st.pc = pc /\ st.msgs = msgs
    BY <2>0, ActingIs
  <2>3. /\ w.ctx = ctx /\ w.pending = pending /\ w.effects = effects /\ w.memory = memory /\ w.heads = heads
        /\ v.ctx = ctx' /\ v.pending = pending' /\ v.effects = effects' /\ v.memory = memory'
        /\ v.heads = heads'
        /\ UNCHANGED <<ctx, pending, effects, memory, heads>> => v = w
    BY NowIs, WorldNext
  <2> HIDE DEF st, w, v
  <2>4. Returns(st, TRUE, w)
    BY <1>10, <2>2 DEF Returns, Persist, WriteMemory, WriteCompactionLog, Truncate
  <2>5. ASSUME ~IsFresh PROVE v = w
    BY <1>10, <2>3, <2>5 DEF Persist, WriteMemory, WriteCompactionLog, Truncate
  <2>6. ASSUME IsFresh PROVE Does(st, TRUE, turn, w, v)
    <3>1. CASE Persist
      BY <2>2, <2>3, <2>6, <3>1 DEF Persist, Does
    <3>2. CASE WriteMemory
      BY <2>2, <2>3, <2>6, <3>2 DEF WriteMemory, Does
    <3>3. CASE WriteCompactionLog
      BY <2>2, <2>3, <2>6, <3>3 DEF WriteCompactionLog, Does, HeadOf
    <3>4. CASE Truncate
      BY <2>2, <2>3, <2>6, <3>4 DEF Truncate, Does, Short
    <3> QED
      BY <1>10, <3>1, <3>2, <3>3, <3>4
  <2>7. Acts(name, TRUE)
    BY <2>4, <2>5, <2>6 DEF Acts, st, w, v
  <2> QED
    BY <2>0, <2>7
<1>11. CASE Summarize
  <2>1. Passes(pc, TRUE)
    BY <1>11 DEF Summarize, Passes, Now
  <2>2. Acts(pc, TRUE)
    BY <1>11, Reads DEF Summarize
  <2> QED
    BY <2>1, <2>2
<1> QED
  BY <1>1, <1>2, <1>3, <1>4, <1>5, <1>6, <1>7, <1>8, <1>9, <1>10, <1>11 DEF Step

-----------------------------------------------------------------------------
(* The invariant: a running turn is on its path, with all that is stored   *)
(* as it should be at the path's end, wherever a replay may be; and        *)
(* between two turns the next one finds all in order.                      *)

\* A running turn: where it is on its path, and what it has stored at its end.
OnPath(S) ==
  /\ Path(S, journal, turn, input[turn])
  /\ Now = S[pos]
  /\ \A i \in 0 .. Len(journal) : Fine(S[i], turn, input[turn])
  /\ Held(S[Len(journal)], World, turn, input)

\* A turn that is done.
Said ==
  /\ OwnEnd(ctx, turn)
  /\ Len(ctx) > 0
  /\ ctx[Len(ctx)].about[4] # "reprompt" =>
       Len(ctx) <= Threshold \/ Len(ctx) <= 1 + Keep + LongestRun

\* The invariant.
TurnInv ==
  /\ JournalOK
  /\ turn \in 0 .. NTurns
  /\ DOMAIN input = Turns /\ \A u \in Turns : u <= turn => input[u] \in Seq(Items) /\ input[u] # <<>>
  /\ live => status = "running"
  /\ pc = "load" => Now = Start
  /\ status \in {"none", "done"} => Now = Start /\ Held(Start, World, turn + 1, input)
  /\ status = "done" => turn # 0 /\ Said
  /\ status \notin {"none", "done"} => turn # 0 /\ \E S : OnPath(S)

\* Nothing is stored before the first turn.
LEMMA TurnStarts == Init => TurnInv
<1> SUFFICES ASSUME Init PROVE TurnInv
  OBVIOUS
<1>1. /\ turn = 0 /\ status = "none" /\ input = [t \in Turns |-> <<>>] /\ journal = <<>> /\ pos = 0
      /\ ~live /\ Now = Start
      /\ World.ctx = <<>> /\ World.pending = {} /\ World.effects = <<>> /\ World.memory = {}
      /\ World.heads = [t \in Turns |-> <<>>]
  BY DEF Init, Now, Start, World
<1>2. JournalOK
  BY <1>1 DEF JournalOK
<1>3. 0 \in 0 .. NTurns /\ \A u \in Turns : ~(u <= 0)
  BY TurnConstants DEF Turns
<1>4. ToSet(<<>>) = {} /\ Len(<<>>) = 0 /\ <<>> \in Seq(Message) /\ \A i \in 1 .. 0 : FALSE
  BY DEF ToSet
<1>5. NoLongRun(<<>>) /\ WellFormed(<<>>) /\ Distinct(<<>>)
  BY CallsBounded DEF NoLongRun, WellFormed, Distinct
<1>6. Start.pc = "load" /\ Start.msgs = <<>>
  BY DEF Start
<1>7. RecordOf(World) = {}
  BY <1>1, <1>4 DEF RecordOf
<1>8. Stored(Start, World, 1)
  BY <1>1, <1>4, <1>5, <1>6 DEF Stored, Early, Loop, Behind
<1>9. Recorded(Start, World, 1)
  BY <1>1, <1>4, <1>5, <1>6, <1>7 DEF Recorded, RecallsAll, Once
<1>10. Ended(Start, World, 1)
  BY <1>6 DEF Ended
<1>11. Done(Start, World, 1, input)
  <2>1. World.effects \in Seq(Effects) /\ Len(World.effects) = 0
    BY <1>1
  <2>2. \A u \in 1 .. 1 : ~(u < 1)
    OBVIOUS
  <2> QED
    BY <1>1, <1>4, <1>6, <2>1, <2>2 DEF Done, Behind
<1>12. Held(Start, World, turn + 1, input)
  BY <1>1, <1>8, <1>9, <1>10, <1>11 DEF Held
<1> QED
  BY <1>1, <1>2, <1>3, <1>12 DEF TurnInv

\* Where a turn has ended, the next one finds all in order.
LEMMA EndIsStart ==
  ASSUME NEW st, NEW w, NEW t \in Turns, NEW inp, Fine(st, t, inp[t]), Held(st, w, t, inp), st.pc = "end"
  PROVE  Held(Start, w, t + 1, inp)
<1>0. t \in Nat /\ Turns \subseteq Nat
  BY TurnIsNat
<1>1. Start.pc = "load" /\ Start.msgs = <<>> /\ Start.parked = <<>> /\ ToSet(<<>>) = {}
  BY DEF Start, ToSet
<1>2. Stored(Start, w, t + 1)
  <2>1. /\ w.ctx \in Seq(Message) /\ DOMAIN w.heads = Turns /\ \A u \in Turns : w.heads[u] \in Seq(Message)
        /\ NoLongRun(w.ctx) /\ WellFormed(w.ctx) /\ \A u \in Turns : WellFormed(w.heads[u])
        /\ \A i \in 1 .. Len(w.ctx) : w.ctx[i].about[1] <= t
        /\ \A u \in Turns : w.heads[u] # <<>> => u < t \/ u = t
        /\ \A u \in Turns : \A i \in 1 .. Len(w.heads[u]) : w.heads[u][i].about[1] <= u
    BY DEF Held, Stored
  <2>2. \A i \in 1 .. Len(w.ctx) : w.ctx[i].about[1] < t + 1 /\ w.ctx[i].about[1] <= t + 1
    <3>1. \A i \in 1 .. Len(w.ctx) : w.ctx[i] \in Message
      BY <2>1
    <3>2. \A m \in Message : m.about[1] \in Nat
      BY DEF Message, Subjects
    <3>3. \A k \in Nat : k <= t => k < t + 1 /\ k <= t + 1
      BY <1>0
    <3> QED
      BY ONLY <2>1, <3>1, <3>2, <3>3
  <2>3. \A u \in Turns : w.heads[u] # <<>> => u < t + 1
    BY <1>0, <2>1
  <2> QED
    BY <1>1, <2>1, <2>2, <2>3 DEF Stored, Early, Loop, Behind
<1>3. Recorded(Start, w, t + 1)
  BY <1>1 DEF Held, Recorded
<1>4. Ended(Start, w, t + 1)
  BY <1>1 DEF Ended
<1>5. /\ ToSet(BatchMessages(t, inp[t])) \subseteq ToSet(st.msgs)
      /\ \A k \in 1 .. Len(st.parked) : Prompt(st.parked[k]) \in ToSet(st.msgs)
      /\ st.parked \in Seq(CallsIn(t))
  BY DEF Fine, TellsAll, Late, Typed
<1>6. Done(st, w, t, inp) /\ ToSet(st.msgs) \subseteq RecordOf(w)
  BY DEF Held, Done
<1>7. Told(st, w) = RecordOf(w) /\ Told(Start, w) = RecordOf(w)
  BY <1>1, <1>6 DEF Told
<1>8. \A a \in ToSet(st.parked) : Prompt(a) \in RecordOf(w)
  <2>1. DOMAIN st.parked = 1 .. Len(st.parked)
    BY <1>5
  <2> QED
    BY <1>5, <1>6, <2>1 DEF ToSet
<1>9. \A u \in 1 .. t + 1 : u < t + 1 => ToSet(BatchMessages(u, inp[u])) \subseteq RecordOf(w)
  <2> SUFFICES ASSUME NEW u \in 1 .. t + 1, u < t + 1
               PROVE  ToSet(BatchMessages(u, inp[u])) \subseteq RecordOf(w)
    OBVIOUS
  <2>1. CASE u = t
    BY <1>5, <1>6, <2>1
  <2>2. CASE u # t
    <3>1. u \in 1 .. t /\ u < t
      BY <1>0, <2>2
    <3> QED
      BY <1>6, <3>1 DEF Done
  <2> QED
    BY <2>1, <2>2
<1>10. Done(Start, w, t + 1, inp)
  BY <1>1, <1>6, <1>7, <1>8, <1>9 DEF Done, Behind
<1> QED
  BY <1>2, <1>3, <1>4, <1>10 DEF Held

\* The sweep takes an action away, and touches nothing else.
LEMMA ExpiresHeld ==
  ASSUME NEW st, NEW w, NEW v, NEW t, NEW inp, Held(st, w, t, inp), v.pending \subseteq w.pending,
         v.ctx = w.ctx, v.effects = w.effects, v.memory = w.memory, v.heads = w.heads
  PROVE  Held(st, v, t, inp)
<1>1. Stored(st, v, t) /\ Recorded(st, v, t) /\ Ended(st, v, t)
  <2>1. Stored(st, w, t) /\ Recorded(st, w, t) /\ Ended(st, w, t)
    BY DEF Held
  <2>2. Stored(st, v, t)
    BY <2>1 DEF Stored
  <2>3. RecordOf(v) = RecordOf(w)
    BY DEF RecordOf
  <2>4. RecallsAll(v)
    BY <2>1, <2>3 DEF Recorded, RecallsAll
  <2>5. \A U : Once(v, U) <=> Once(w, U)
    BY DEF Once
  <2>6. Ended(st, v, t)
    BY <2>1 DEF Ended
  <2> QED
    BY <2>1, <2>2, <2>4, <2>5, <2>6 DEF Recorded
<1>2. RecordOf(v) = RecordOf(w) /\ Told(st, v) = Told(st, w)
  BY DEF RecordOf, Told
<1>3. Done(st, w, t, inp)
  BY DEF Held
<1>4. st.pc \in Behind \cup {"end"} => ToSet(st.msgs) \subseteq RecordOf(v)
  BY <1>2, <1>3 DEF Done
<1>5. Done(st, v, t, inp)
  BY <1>2, <1>3, <1>4, DoneGrows
<1> QED
  BY <1>1, <1>5 DEF Held

-----------------------------------------------------------------------------
(* The invariant is inductive.                                             *)

\* The next turn starts.
LEMMA StartStays ==
  ASSUME TurnInv, NEW b \in Batches, StartTurn(b)
  PROVE  TurnInv'
<1>1. /\ status \in {"none", "done"} /\ turn < NTurns /\ turn' = turn + 1 /\ status' = "running"
      /\ input' = [input EXCEPT ![turn + 1] = b] /\ journal' = <<>> /\ pos' = 0 /\ live'
      /\ Now' = Start
      /\ UNCHANGED <<ctx, pending, effects, memory, heads>>
  BY DEF StartTurn, ProgramStart, world, Now, Start
<1>2. /\ turn \in Nat /\ NTurns \in Nat /\ turn + 1 \in Turns /\ turn + 1 \in 0 .. NTurns
  BY <1>1, TurnConstants DEF TurnInv, Turns
<1>3. b \in Seq(Items) /\ b # <<>>
  BY TurnConstants
<1>4. DOMAIN input' = Turns /\ input'[turn + 1] = b
      /\ \A u \in Turns : u # turn + 1 => input'[u] = input[u]
  BY <1>1, <1>2 DEF TurnInv
<1>5. JournalOK'
  BY <1>1 DEF JournalOK
<1>6. \A u \in Turns : u <= turn' => input'[u] \in Seq(Items) /\ input'[u] # <<>>
  <2> SUFFICES ASSUME NEW u \in Turns, u <= turn + 1 PROVE input'[u] \in Seq(Items) /\ input'[u] # <<>>
    BY <1>1
  <2>1. CASE u = turn + 1
    BY <1>3, <1>4, <2>1
  <2>2. CASE u # turn + 1
    <3>1. u \in Nat
      BY TurnIsNat
    <3>2. u <= turn
      BY ONLY <1>2, <2>2, <3>1, u <= turn + 1
    <3> QED
      BY <1>4, <2>2, <3>2 DEF TurnInv
  <2> QED
    BY <2>1, <2>2
<1>7. World' = World
  BY <1>1, WorldNext
<1>8. Held(Start, World, turn + 1, input')
  <2>1. Held(Start, World, turn + 1, input)
    BY <1>1 DEF TurnInv
  <2>2. \A u \in 1 .. turn + 1 : u < turn + 1 => input'[u] = input[u]
    <3>1. \A u \in 1 .. turn + 1 : u \in Turns
      BY <1>2, TurnConstants DEF Turns
    <3>2. \A u \in 1 .. turn + 1 : u < turn + 1 => u # turn + 1
      BY <1>2
    <3> QED
      BY <1>4, <3>1, <3>2
  <2>3. Done(Start, World, turn + 1, input')
    BY <2>1, <2>2 DEF Held, Done
  <2> QED
    BY <2>1, <2>3 DEF Held
<1>9. \E S : OnPath(S)'
  <2> DEFINE S == [i \in {0} |-> Start]
  <2>1. S[0] = Start /\ Len(journal') = 0 /\ 0 .. 0 = {0} /\ 1 .. 0 = {}
    BY <1>1
  <2> HIDE DEF S
  <2>2. Fine(Start, turn', input'[turn'])
    BY <1>1, <1>2, StartIsFine
  <2>3. Path(S, journal', turn', input'[turn'])
    BY <2>1 DEF Path
  <2>4. Held(S[Len(journal')], World', turn', input')
    BY <1>1, <1>7, <1>8, <2>1
  <2>5. OnPath(S)'
    BY <1>1, <2>1, <2>2, <2>3, <2>4 DEF OnPath
  <2> QED
    BY <2>5
<1>10. turn' # 0
  BY <1>1, <1>2
<1> QED
  BY <1>1, <1>2, <1>4, <1>5, <1>6, <1>9, <1>10 DEF TurnInv

\* A step of the workflow, or its replay.
LEMMA StepStays ==
  ASSUME TurnInv, Step, ~Finish
  PROVE  TurnInv'
<1>1. PICK name, out : Passes(name, out) /\ Acts(name, out)
  BY StepPasses
<1>2. /\ live /\ Journaled(name, out) /\ pc # "end"
      /\ Now' = After(Acting(Now, name), out, turn, input[turn])
      /\ turn' = turn /\ status' = status /\ input' = input /\ live' = live
  BY <1>1 DEF Passes
<1>3. status = "running" /\ turn # 0 /\ JournalOK
  BY <1>2 DEF TurnInv
<1>4. PICK S : OnPath(S)
  BY <1>3 DEF TurnInv
<1>5. turn \in Turns /\ turn \in Nat /\ input[turn] \in Seq(Items) /\ input[turn] # <<>>
  <2>1. turn \in Turns /\ turn \in Nat
    BY <1>3, TurnConstants DEF TurnInv, Turns
  <2>2. turn <= turn
    BY <2>1
  <2> QED
    BY <2>1, <2>2 DEF TurnInv
<1>6. PICK R : /\ Path(R, journal', turn', input'[turn']) /\ Now' = R[pos']
               /\ \A i \in 0 .. Len(journal) : R[i] = S[i]
               /\ \/ ~IsFresh /\ journal' = journal
                  \/ IsFresh /\ Len(journal') = Len(journal) + 1 /\ R[Len(journal')] = Now'
  BY <1>2, <1>3, <1>4, PathGoesOn DEF OnPath
<1>7. Len(journal) \in Nat /\ JournalOK'
  BY <1>2, <1>3, JournaledStep
<1>8. Now.pc = pc /\ pc' = NextPc(Acting(Now, name), out, turn, input[turn])
  <2>1. Now.pc = pc /\ Now'.pc = pc'
    BY DEF Now
  <2> QED
    BY <1>2, <2>1, AfterIs
<1>9. pc' # "load"
  BY <1>8 DEF NextPc
<1>10. OnPath(R)'
  <2>1. CASE ~IsFresh
    <3>1. journal' = journal /\ World' = World
      BY <1>1, <1>6, <2>1 DEF Acts
    <3>2. Len(journal) \in 0 .. Len(journal)
      BY <1>7
    <3>3. \A i \in 0 .. Len(journal') : Fine(R[i], turn', input'[turn'])
      BY <1>2, <1>4, <1>6, <3>1 DEF OnPath
    <3>4. Held(R[Len(journal')], World', turn', input')
      BY <1>2, <1>4, <1>6, <3>1, <3>2 DEF OnPath
    <3> QED
      BY <1>6, <3>3, <3>4 DEF OnPath
  <2>2. CASE IsFresh
    <3>1. Len(journal') = Len(journal) + 1 /\ R[Len(journal')] = Now'
      BY <1>6, <2>2
    <3>2. Now = S[Len(journal)] /\ Len(journal) \in 0 .. Len(journal)
      BY <1>4, <1>7, <2>2 DEF OnPath, IsFresh
    <3>3. Fine(Now, turn, input[turn]) /\ Held(Now, World, turn, input)
      BY <1>4, <3>2 DEF OnPath
    <3>4. Returns(Acting(Now, name), out, World) /\ Does(Acting(Now, name), out, turn, World, World')
      BY <1>1, <2>2 DEF Acts
    <3>5. Now.pc # "end" /\ (Now.pc = "load" => Now.msgs = <<>>)
      <4>1. Now.pc = "load" => Now = Start
        BY <1>8 DEF TurnInv
      <4>2. Start.msgs = <<>>
        BY DEF Start
      <4> QED
        BY <1>2, <1>8, <4>1, <4>2
    <3>6. Fine(Now', turn, input[turn]) /\ Held(Now', World', turn, input)
      <4> DEFINE st == Acting(Now, name)
                 w  == World
                 v  == World'
      <4>0. st.pc # "end" /\ (st.pc = "load" => st.msgs = <<>>)
        BY <1>8, <3>5, ActingIs, NowIs
      <4>1. /\ Fine(st, turn, input[turn]) /\ Held(st, w, turn, input) /\ Returns(st, out, w)
            /\ Does(st, out, turn, w, v) /\ st.pc # "end" /\ (st.pc = "load" => st.msgs = <<>>)
        <5> DEFINE now == Now
        <5>1. Fine(now, turn, input[turn]) /\ Held(now, w, turn, input)
          BY <3>3
        <5> HIDE DEF now, w
        <5>2. Fine(Acting(now, name), turn, input[turn]) /\ Held(Acting(now, name), w, turn, input)
          BY <1>5, <5>1, ActingHeld
        <5> QED
          BY <3>4, <4>0, <5>2 DEF now, w
      <4>2. Now' = After(st, out, turn, input[turn])
        BY <1>2
      <4> HIDE DEF st, w, v
      <4>3. Fine(After(st, out, turn, input[turn]), turn, input[turn])
            /\ Held(After(st, out, turn, input[turn]), v, turn, input)
        BY <1>5, <4>1, HeldGoesOn
      <4> QED
        BY <4>2, <4>3 DEF v
    <3>7. \A i \in 0 .. Len(journal') : Fine(R[i], turn', input'[turn'])
      <4> SUFFICES ASSUME NEW i \in 0 .. Len(journal') PROVE Fine(R[i], turn, input[turn])
        BY <1>2
      <4>1. CASE i = Len(journal')
        BY <3>1, <3>6, <4>1
      <4>2. CASE i # Len(journal')
        <5>1. i \in 0 .. Len(journal)
          BY <1>7, <3>1, <4>2
        <5> QED
          BY <1>4, <1>6, <5>1 DEF OnPath
      <4> QED
        BY <4>1, <4>2
    <3>8. Held(R[Len(journal')], World', turn', input')
      BY <1>2, <3>1, <3>6
    <3> QED
      BY <1>6, <3>7, <3>8 DEF OnPath
  <2> QED
    BY <2>1, <2>2
<1> QED
  BY <1>2, <1>3, <1>7, <1>9, <1>10 DEF TurnInv

\* The end of a turn, which a replay reaches only with the whole path behind it.
LEMMA FinishStays ==
  ASSUME TurnInv, Finish
  PROVE  TurnInv'
<1>1. /\ live /\ pc = "end" /\ status' = "done" /\ ~live' /\ pos' = 0 /\ Now' = Start
      /\ UNCHANGED <<turn, input, journal, ctx, pending, effects, memory, heads>>
  BY DEF Finish, At, ProgramStart, world, Now, Start
<1>2. status = "running" /\ turn # 0
  BY <1>1 DEF TurnInv
<1>3. PICK S : OnPath(S)
  BY <1>2 DEF TurnInv
<1>4. turn \in Turns /\ turn \in Nat
  BY <1>2, TurnConstants DEF TurnInv, Turns
<1>5. Len(journal) \in Nat /\ pos \in Nat /\ pos <= Len(journal)
  BY DEF TurnInv, JournalOK
<1>6. Now.pc = "end" /\ Now = S[pos]
  BY <1>1, <1>3 DEF OnPath, Now
<1>7. pos = Len(journal)
  <2> SUFFICES ASSUME pos # Len(journal) PROVE FALSE
    OBVIOUS
  <2>1. pos + 1 \in 1 .. Len(journal) /\ (pos + 1) - 1 = pos
    BY <1>5
  <2>2. S[(pos + 1) - 1].pc # "end"
    BY <1>3, <2>1 DEF OnPath, Path
  <2> QED
    BY <1>6, <2>1, <2>2
<1>8. Fine(Now, turn, input[turn]) /\ Held(Now, World, turn, input)
  <2>1. Len(journal) \in 0 .. Len(journal)
    BY <1>5
  <2> QED
    BY <1>3, <1>6, <1>7, <2>1 DEF OnPath
<1>9. Held(Start, World, turn + 1, input)
  <2> DEFINE st == Now
  <2>1. Fine(st, turn, input[turn]) /\ Held(st, World, turn, input) /\ st.pc = "end"
    BY <1>6, <1>8
  <2> HIDE DEF st
  <2> QED
    BY <1>4, <2>1, EndIsStart
<1>10. Said
  <2>1. Ended(Now, World, turn)
    BY <1>8 DEF Held
  <2> QED
    BY <1>6, <2>1, NowIs DEF Ended, Said
<1>11. World' = World
  BY <1>1, WorldNext
<1>12. Said'
  BY <1>1, <1>10 DEF Said
<1>13. JournalOK'
  BY <1>1, <1>5 DEF TurnInv, JournalOK
<1> QED
  BY <1>1, <1>2, <1>9, <1>11, <1>12, <1>13 DEF TurnInv

\* A crash puts the program back to the start of its path, and nothing else.
LEMMA CrashStays ==
  ASSUME TurnInv, Crash
  PROVE  TurnInv'
<1>1. /\ ~live' /\ pos' = 0 /\ Now' = Start
      /\ UNCHANGED <<turn, status, input, journal, ctx, pending, effects, memory, heads>>
  BY DEF Crash, ProgramStart, world, Now, Start
<1>2. World' = World
  BY <1>1, WorldNext
<1>3. ASSUME NEW S, OnPath(S) PROVE OnPath(S)'
  BY <1>1, <1>2, <1>3 DEF OnPath, Path
<1>4. JournalOK'
  BY <1>1 DEF TurnInv, JournalOK
<1>5. Said' <=> Said
  BY <1>1 DEF Said
<1> QED
  BY <1>1, <1>2, <1>3, <1>4, <1>5 DEF TurnInv

\* What throws, and what launches again, leaves the program where it is.
LEMMA PausesStay ==
  ASSUME TurnInv, ModelThrows \/ ToolThrows \/ CompactionThrows \/ Relaunch
  PROVE  TurnInv'
<1>1. /\ status = "running" /\ status' \notin {"none", "done"} /\ (live' => status' = "running")
      /\ UNCHANGED <<turn, input, journal, pos, pc, ctx, pending, effects, memory, heads>>
      /\ UNCHANGED <<digest, msgs, due, parked, rounds, tier>>
  BY DEF ModelThrows, ToolThrows, CompactionThrows, Relaunch, Throws, world, TurnInv
<1>2. turn # 0
  BY <1>1 DEF TurnInv
<1>3. PICK S : OnPath(S)
  BY <1>1 DEF TurnInv
<1>4. World' = World /\ Now' = Now
  BY <1>1, WorldNext DEF Now
<1>5. OnPath(S)'
  BY <1>1, <1>3, <1>4 DEF OnPath
<1>6. JournalOK'
  BY <1>1 DEF TurnInv, JournalOK
<1> QED
  BY <1>1, <1>2, <1>4, <1>5, <1>6 DEF TurnInv

\* The sweep, between two turns or in the middle of one.
LEMMA ExpireStays ==
  ASSUME TurnInv, Expire
  PROVE  TurnInv'
<1>1. /\ pending' \subseteq pending
      /\ UNCHANGED <<turn, status, input, journal, live, pos, pc, ctx, effects, memory, heads>>
      /\ UNCHANGED <<digest, msgs, due, parked, rounds, tier>>
  BY DEF Expire, program
<1>2. Now' = Now
  BY <1>1 DEF Now
<1>3. \A st, u : Held(st, World, u, input) => Held(st, World', u, input)
  <2> DEFINE w == World
             v == World'
  <2>1. v.pending \subseteq w.pending /\ v.ctx = w.ctx /\ v.effects = w.effects /\ v.memory = w.memory
        /\ v.heads = w.heads
    BY <1>1, NowIs, WorldNext
  <2> HIDE DEF w, v
  <2>2. \A st, u : Held(st, w, u, input) => Held(st, v, u, input)
    BY <2>1, ExpiresHeld
  <2> QED
    BY <2>2 DEF w, v
<1>4. ASSUME NEW S, OnPath(S) PROVE OnPath(S)'
  BY <1>1, <1>2, <1>3, <1>4 DEF OnPath
<1>5. JournalOK'
  BY <1>1 DEF TurnInv, JournalOK
<1>6. Said' <=> Said
  BY <1>1 DEF Said
<1> QED
  BY <1>1, <1>2, <1>3, <1>4, <1>5, <1>6 DEF TurnInv

\* The invariant is inductive.
LEMMA TurnStays == TurnInv /\ [Next]_vars => TurnInv'
<1> SUFFICES ASSUME TurnInv, [Next]_vars PROVE TurnInv'
  OBVIOUS
<1>1. CASE UNCHANGED vars
  <2>1. /\ UNCHANGED <<turn, status, input, journal, live, pos, pc, ctx, pending, effects, memory, heads>>
        /\ UNCHANGED <<digest, msgs, due, parked, rounds, tier>>
    BY <1>1 DEF vars, world, program
  <2>2. World' = World /\ Now' = Now
    BY <2>1, WorldNext DEF Now
  <2>3. \A S : OnPath(S) => OnPath(S)'
    BY <2>1, <2>2 DEF OnPath
  <2>4. JournalOK' /\ (Said' <=> Said)
    BY <2>1 DEF TurnInv, JournalOK, Said
  <2> QED
    BY <2>1, <2>2, <2>3, <2>4 DEF TurnInv
<1>2. CASE Next
  BY <1>2, StartStays, StepStays, FinishStays, CrashStays, PausesStay, ExpireStays DEF Next
<1> QED
  BY <1>1, <1>2

-----------------------------------------------------------------------------
(* The theorems.                                                           *)

\* The invariant holds all along.
LEMMA TurnHolds == Spec => []TurnInv
<1> QED
  BY TurnStarts, TurnStays, PTL DEF Spec

\* At every moment what is stored is in order for some point of some turn.
LEMMA IsHeld ==
  ASSUME TurnInv
  PROVE  \E st, u : Held(st, World, u, input)
<1>1. CASE status \in {"none", "done"}
  BY <1>1 DEF TurnInv
<1>2. CASE status \notin {"none", "done"}
  <2>1. PICK S : OnPath(S)
    BY <1>2 DEF TurnInv
  <2> QED
    BY <2>1 DEF OnPath
<1> QED
  BY <1>1, <1>2

\* What a record holds is the transcript and the heads that were cut off it.
LEMMA RecordIs == Record = RecordOf(World)
<1>1. \A t \in 0 .. NTurns : Parts[t] = IF t = 0 THEN ctx ELSE heads[t]
  BY DEF Parts
<1>2. 0 \in 0 .. NTurns /\ \A t : t \in Turns <=> t \in 0 .. NTurns /\ t # 0
  BY TurnConstants DEF Turns
<1>3. World.ctx = ctx /\ World.heads = heads
  BY DEF World
<1>4. ASSUME NEW m, m \in Record PROVE m \in RecordOf(World)
  <2>1. PICK t \in 0 .. NTurns : m \in ToSet(Parts[t])
    BY <1>4 DEF Record
  <2> QED
    BY <1>1, <1>2, <1>3, <2>1 DEF RecordOf
<1>5. ASSUME NEW m, m \in RecordOf(World) PROVE m \in Record
  <2>1. m \in ToSet(ctx) \/ \E u \in Turns : m \in ToSet(heads[u])
    BY <1>3, <1>5 DEF RecordOf
  <2> QED
    BY <1>1, <1>2, <2>1 DEF Record
<1> QED
  BY <1>4, <1>5

\* The model accepts whatever it would be shown.
LEMMA StaysShowable ==
  ASSUME TurnInv
  PROVE  Showable
<1>1. WellFormed(ctx) /\ \A t \in Turns : WellFormed(heads[t])
  <2>1. PICK st, u : Held(st, World, u, input)
    BY IsHeld
  <2> QED
    BY <2>1 DEF Held, Stored, World
<1>2. Shown(Now)
  <2>1. CASE status \in {"none", "done"}
    <3>1. Shown(Start) /\ Now = Start
      BY <2>1, StartIsFine DEF TurnInv, Fine
    <3> QED
      BY <3>1
  <2>2. CASE status \notin {"none", "done"}
    <3>1. PICK S : OnPath(S)
      BY <2>2 DEF TurnInv
    <3>2. pos \in 0 .. Len(journal)
      <4>1. Len(journal) \in Nat /\ pos \in Nat /\ pos <= Len(journal)
        BY DEF TurnInv, JournalOK
      <4> QED
        BY <4>1
    <3>3. Fine(S[pos], turn, input[turn]) /\ Now = S[pos]
      BY <3>1, <3>2 DEF OnPath
    <3> QED
      BY <3>3 DEF Fine
  <2> QED
    BY <2>1, <2>2
<1>3. WellFormed(msgs \o [k \in DOMAIN due |-> Result(due[k])])
  BY <1>2 DEF Shown, Results, Now
<1> QED
  BY <1>1, <1>3 DEF Showable

\* A summary stands for a head that is logged and remembered.
LEMMA StaysRecallable ==
  ASSUME TurnInv
  PROVE  Recallable
<1>1. PICK st, u : Held(st, World, u, input)
  BY IsHeld
<1>2. RecallsAll(World)
  BY <1>1 DEF Held, Recorded
<1> QED
  BY <1>2, RecordIs DEF RecallsAll, Recallable, World

\* Between turns, no message has two places.
LEMMA OnePlaceEach ==
  ASSUME Once(World, Turns),
         NEW t \in 0 .. NTurns, NEW u \in 0 .. NTurns, NEW i \in DOMAIN Parts[t], NEW j \in DOMAIN Parts[u],
         Parts[t][i] = Parts[u][j], ctx \in Seq(Message), \A v \in Turns : heads[v] \in Seq(Message)
  PROVE  t = u /\ i = j
<1>1. \A v \in 0 .. NTurns : Parts[v] = IF v = 0 THEN ctx ELSE heads[v]
  BY DEF Parts
<1>2. \A v \in 0 .. NTurns : v # 0 => v \in Turns
  BY TurnConstants DEF Turns
<1>3. \A v \in 0 .. NTurns : Parts[v] \in Seq(Message)
  BY <1>1, <1>2
<1>4. i \in 1 .. Len(Parts[t]) /\ j \in 1 .. Len(Parts[u])
  BY <1>3
<1>5. World.ctx = ctx /\ World.heads = heads
  BY DEF World
<1>6. Parts[t][i] \in ToSet(Parts[t]) /\ Parts[t][i] \in ToSet(Parts[u])
  BY DEF ToSet
<1>7. t = u
  <2>1. \A v \in Turns : ToSet(ctx) \cap ToSet(heads[v]) = {}
    BY <1>5 DEF Once
  <2>2. \A v, x \in Turns : v # x => ToSet(heads[v]) \cap ToSet(heads[x]) = {}
    BY <1>5 DEF Once
  <2>3. CASE t = 0 /\ u # 0
    BY <1>1, <1>2, <1>6, <2>1, <2>3
  <2>4. CASE t # 0 /\ u = 0
    BY <1>1, <1>2, <1>6, <2>1, <2>4
  <2>5. CASE t # 0 /\ u # 0
    BY <1>1, <1>2, <1>6, <2>2, <2>5
  <2> QED
    BY <2>3, <2>4, <2>5
<1>8. Distinct(Parts[t])
  BY <1>1, <1>2, <1>5 DEF Once
<1> QED
  BY <1>4, <1>7, <1>8 DEF Distinct

\* Between turns, all is told.
LEMMA AllIsTold ==
  ASSUME TurnInv, status = "done"
  PROVE  /\ \A t \in 1 .. turn : ToSet(BatchMessages(t, input[t])) \subseteq Record
         /\ \A i \in DOMAIN effects :
              LET e == effects[i] IN
              IF e.call[4] = "auto" THEN Result(e.call) \in Record ELSE Update(e.in) \in Record
         /\ \A a \in pending : {Result(a), Prompt(a)} \subseteq Record
<1> DEFINE w == World
<1>1. w.effects = effects /\ w.pending = pending /\ RecordOf(w) = Record
  BY RecordIs DEF World
<1>2. Done(Start, w, turn + 1, input) /\ turn \in 0 .. NTurns
  BY DEF TurnInv, Held
<1> HIDE DEF w
<1>3. Told(Start, w) = Record /\ ToSet(Start.parked) = {}
  BY <1>1 DEF Told, Start, ToSet
<1>4. \A t \in 1 .. turn : ToSet(BatchMessages(t, input[t])) \subseteq Record
  <2>1. \A t \in 1 .. turn : t \in 1 .. turn + 1 /\ t < turn + 1
    BY <1>2
  <2> QED
    BY <1>1, <1>2, <2>1 DEF Done
<1>5. DOMAIN effects = 1 .. Len(effects)
  BY <1>1, <1>2 DEF Done
<1>6. \A i \in DOMAIN effects :
        /\ Result(effects[i].call) \in Record
        /\ effects[i].call[4] = "auto" \/ Update(effects[i].in) \in Record
  BY <1>1, <1>2, <1>3, <1>5 DEF Done
<1>7. \A a \in pending : Result(a) \in Record /\ Prompt(a) \in Record
  BY <1>1, <1>2, <1>3 DEF Done
<1> QED
  BY <1>4, <1>6, <1>7

\* Between turns the record tells everything once, a replay does nothing
\* twice, and the model always accepts what it would be shown (handleTurn's
\* journaled steps, and the compaction behind them).
THEOREM ToldOnceHolds == Spec => []ToldOnce
<1>1. TurnInv => ToldOnce
  <2> SUFFICES ASSUME TurnInv PROVE ToldOnce
    OBVIOUS
  <2>1. Showable /\ Recallable
    BY StaysShowable, StaysRecallable
  <2>2. \A i, j \in DOMAIN effects : effects[i].call = effects[j].call => i = j
    <3>1. PICK st, u : Held(st, World, u, input)
      BY IsHeld
    <3>2. /\ effects \in Seq(Effects)
          /\ \A i, j \in 1 .. Len(effects) : effects[i].call = effects[j].call => i = j
      BY <3>1 DEF Held, Done, World
    <3>3. DOMAIN effects = 1 .. Len(effects)
      BY <3>2
    <3> QED
      BY <3>2, <3>3
  <2>3. ASSUME status = "done"
        PROVE  \A t, u \in 0 .. NTurns : \A i \in DOMAIN Parts[t], j \in DOMAIN Parts[u] :
                 Parts[t][i] = Parts[u][j] => t = u /\ i = j
    <3>1. Held(Start, World, turn + 1, input) /\ Start.pc # "truncate"
      BY <2>3 DEF TurnInv, Start
    <3>2. /\ Once(World, Turns) /\ World.ctx \in Seq(Message)
          /\ \A v \in Turns : World.heads[v] \in Seq(Message)
      BY <3>1 DEF Held, Recorded, Stored
    <3>3. ctx \in Seq(Message) /\ \A v \in Turns : heads[v] \in Seq(Message)
      BY <3>2 DEF World
    <3> QED
      BY <3>2, <3>3, OnePlaceEach
  <2> QED
    BY <2>1, <2>2, <2>3, AllIsTold DEF ToldOnce
<1> QED
  BY <1>1, TurnHolds, PTL

\* The last assistant message is the finished turn's own, so the reply that
\* sendReply takes from the transcript is the answer to that turn.
THEOREM ReplyIsOwnHolds == Spec => []ReplyIsOwn
<1>1. TurnInv => ReplyIsOwn
  <2> SUFFICES ASSUME TurnInv, status = "done"
               PROVE  \E i \in DOMAIN ctx :
                        /\ ctx[i].role = "assistant" /\ ctx[i].about[1] = turn
                        /\ \A j \in i + 1 .. Len(ctx) : ctx[j].role # "assistant"
    BY DEF ReplyIsOwn
  <2>1. OwnEnd(ctx, turn)
    BY DEF TurnInv, Said
  <2>2. DOMAIN ctx = 1 .. Len(ctx)
    <3>1. World.ctx \in Seq(Message)
      BY DEF TurnInv, Held, Stored
    <3>2. ctx \in Seq(Message)
      BY <3>1 DEF World
    <3> QED
      BY <3>2
  <2> QED
    BY <2>1, <2>2 DEF OwnEnd
<1> QED
  BY <1>1, TurnHolds, PTL

\* However many turns there are and whatever they do, compaction keeps the
\* transcript within the threshold or one turn's own length of what it keeps.
THEOREM TranscriptBoundedHolds == Spec => []TranscriptBounded
<1>1. TurnInv => TranscriptBounded
  <2> SUFFICES ASSUME TurnInv, status = "done", Last(ctx).about[4] # "reprompt"
               PROVE  Len(ctx) <= Threshold \/ Len(ctx) <= 1 + Keep + LongestRun
    BY DEF TranscriptBounded
  <2>1. Said
    BY DEF TurnInv
  <2>2. Last(ctx) = ctx[Len(ctx)]
    BY DEF Last
  <2> QED
    BY <2>1, <2>2 DEF Said
<1> QED
  BY <1>1, TurnHolds, PTL
===============================================================================
