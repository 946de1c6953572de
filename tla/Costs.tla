------------------------------- MODULE Costs --------------------------------
(***************************************************************************)
(* The back office's costs (backoffice/cost.ts): the tokens of the         *)
(* observations read from Langfuse, folded by UTC day, and what they come  *)
(* to in a month.  A record has the day it started on, NoDay when it has   *)
(* no start, and its usage, <<>> when it has none (a tool's span).  Money  *)
(* is counted in cents per million tokens, as the price table is.          *)
(***************************************************************************)
EXTENDS Naturals, Sequences
LOCAL INSTANCE Folds

CONSTANTS
  NoDay,         \* a record without a start
  Month(_),      \* the month a UTC day is in
  ChartDays      \* the days the chart goes back: 30

ASSUME CostsConstants == ChartDays \in Nat

Kinds == {"fresh", "cacheRead", "cacheWrite", "output"}
Price == [fresh |-> 300, cacheRead |-> 30, cacheWrite |-> 375, output |-> 1500]

EmptySplit == [k \in Kinds |-> 0]
Merge(s, t) == [k \in Kinds |-> s[k] + t[k]]

TotalOf(f) == MapThenFoldSet(+, 0, LAMBDA k : f[k], LAMBDA S : CHOOSE k \in S : TRUE, DOMAIN f)
TokensOf(split) == TotalOf(split)
CostOf(split)   == TotalOf([k \in Kinds |-> split[k] * Price[k]])

Counted(records) == SelectSeq(records, LAMBDA r : r.usage # <<>> /\ r.day # NoDay)
Days(records) == {Counted(records)[i].day : i \in DOMAIN Counted(records)}

ByDay(records) ==
  [d \in Days(records) |->
     MapThenFoldSet(Merge, EmptySplit, LAMBDA i : Counted(records)[i].usage[1],
                    LAMBDA S : CHOOSE i \in S : TRUE,
                    {i \in DOMAIN Counted(records) : Counted(records)[i].day = d})]

\* The splits of these days, merged.
Sum(byDay, days) ==
  MapThenFoldSet(Merge, EmptySplit, LAMBDA d : byDay[d], LAMBDA S : CHOOSE d \in S : TRUE,
                 days \cap DOMAIN byDay)

\* A day that is still to come counts as this month's.
ThisMonth(records, now) == Sum(ByDay(records), {d \in Days(records) : Month(d) >= Month(now)})
LastMonth(records, now) == Sum(ByDay(records), {d \in Days(records) : Month(d) + 1 = Month(now)})
WholeWindow(records) == Sum(ByDay(records), Days(records))

\* The last ChartDays days, the oldest first.
DailyCost(records, now) ==
  [i \in 1 .. ChartDays |->
     LET d == now + i - ChartDays
     IN  IF d \in Days(records) THEN CostOf(ByDay(records)[d]) ELSE 0]

\* What the panels divide up: the month, or everything that was read.
Divided(records, now) ==
  IF TokensOf(ThisMonth(records, now)) > 0 THEN ThisMonth(records, now) ELSE WholeWindow(records)

\* Shares, as <<part, of how much>>; nothing is divided by nought.
NotNought(n) == IF n = 0 THEN 1 ELSE n
TokenShare(split, k) == <<split[k], NotNought(TokensOf(split))>>
CostShare(split, k)  == <<split[k] * Price[k], NotNought(CostOf(split))>>

\* cacheReadPct: of the input side, rounded half up.
CacheReadPct(split) ==
  LET input == split.fresh + split.cacheRead + split.cacheWrite
  IN  IF input = 0 THEN 0 ELSE (200 * split.cacheRead + input) \div (2 * input)
=============================================================================
