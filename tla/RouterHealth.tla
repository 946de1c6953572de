---------------------------- MODULE RouterHealth ----------------------------
(***************************************************************************)
(* The back office's view of the turn router (backoffice/router-health.ts):*)
(* what it derives from the rows the turns of the last week have left in   *)
(* turn_route_log, newest first.  A row is the conversation, whether it is *)
(* of the last day, the tier the turn ran on and the one proposed, where   *)
(* the decision came from ("jev", "rule", "error"), how long Jev took, and *)
(* of its answers whether one is unsettled and whether the message         *)
(* corrects the assistant.                                                 *)
(***************************************************************************)
EXTENDS Naturals, Sequences, FiniteSets
LOCAL INSTANCE SequencesExt

CONSTANTS
  RouteWindow,   \* WINDOW
  StreakMax,     \* FALLBACK_STREAK_MAX
  SlowAfter      \* P95_MAX_MS

ASSUME RouterHealthConstants == RouteWindow \in Nat /\ StreakMax \in Nat /\ SlowAfter \in Nat

Tiers3 == {"fast", "standard", "deep"}

Routed(rows) ==
  LET asked == SelectSeq(rows, LAMBDA r : r.source # "rule")
  IN  SubSeq(asked, 1, IF Len(asked) < RouteWindow THEN Len(asked) ELSE RouteWindow)

LastDay(rows) == SelectSeq(rows, LAMBDA r : r.today)
Count(rows, P(_)) == Len(SelectSeq(rows, P))

\* The household talks and nothing is routed.
Silent(turns, rows) == turns > 0 /\ LastDay(rows) = <<>>

IsFallback(r) == r.source = "error"
Streak(rows) ==
  Cardinality({n \in DOMAIN rows : \A i \in 1 .. n : IsFallback(rows[i])})

\* FALLBACK_RATE_MAX is a fifth.
Failing(rows) ==
  LET routed == Routed(rows)
  IN  \/ Streak(routed) >= StreakMax
      \/ 5 * Count(routed, IsFallback) > Len(routed)

\* Ranked by time, the answer at 95 % of the way (0.95 * n, counted from nought).
Latencies(rows) ==
  LET answered == SelectSeq(Routed(rows), LAMBDA r : r.source = "jev")
  IN  SortSeq([i \in DOMAIN answered |-> answered[i].ms], <)

Slow(rows) ==
  LET ms   == Latencies(rows)
      rank == (95 * Len(ms)) \div 100
  IN  ms # <<>> /\ ms[IF rank < Len(ms) THEN rank + 1 ELSE Len(ms)] > SlowAfter

\* DEEP_SHARE_MAX is two fifths, UNSETTLED_SHARE_MAX a half.
Skewed(rows) ==
  LET answered == SelectSeq(LastDay(rows), LAMBDA r : r.source = "jev")
  IN  \/ 5 * Count(answered, LAMBDA r : r.proposed = "deep") > 2 * Len(answered)
      \/ 2 * Count(answered, LAMBDA r : r.unsettled) > Len(answered)

Conversation(rows, c) == Reverse(SelectSeq(rows, LAMBDA r : r.conversation = c))
TurnsOf(rows, tier) == Count(rows, LAMBDA r : r.tier = tier)

\* A correction is charged to the tier of the row before it in its conversation.
CorrectionsOf(rows, tier) ==
  Cardinality({<<c, i>> \in {r.conversation : r \in Range(rows)} \X (2 .. Len(rows)) :
     LET list == Conversation(rows, c)
     IN  i <= Len(list) /\ list[i].corrects /\ list[i - 1].tier = tier})

Worse(rows) ==
  LET base(t) == IF TurnsOf(rows, t) = 0 THEN 1 ELSE TurnsOf(rows, t)
  IN  {t \in {"fast", "deep"} :
         /\ TurnsOf(rows, t) > 0
         /\ CorrectionsOf(rows, t) * base("standard") > CorrectionsOf(rows, "standard") * base(t)}

Ambers(turns, rows) ==
  {a \in {"silent", "failing", "slow", "skewed", "worse"} :
     CASE a = "silent"  -> Silent(turns, rows)
       [] a = "failing" -> Failing(rows)
       [] a = "slow"    -> Slow(rows)
       [] a = "skewed"  -> Skewed(rows)
       [] a = "worse"   -> Worse(rows) # {}}
=============================================================================
