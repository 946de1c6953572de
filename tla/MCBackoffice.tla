---------------------------- MODULE MCBackoffice ----------------------------
(***************************************************************************)
(* The instance of Backoffice, and what the figures of its screens are     *)
(* held against: TLC evaluates the assumptions once, over every input of   *)
(* the sizes they name.                                                    *)
(***************************************************************************)
EXTENDS Backoffice, RouterHealth, Costs, SequencesExt, FiniteSetsExt
CONSTANTS t1, t2
MCClock == [door |-> 0, throttle |-> 3, reads |-> 4, status |-> 4]
MCActs  == [door |-> 2, throttle |-> 1, reads |-> 1, status |-> 1]

\* Months of two days: the chart goes back over a month that is longer than itself.
MCMonth(d) == d \div 2

-----------------------------------------------------------------------------
(* The router's health.                                                    *)

Row(c, t, src, ms, fix) ==
  [conversation |-> c, today |-> TRUE, tier |-> t, proposed |-> t, source |-> src, ms |-> ms,
   unsettled |-> FALSE, corrects |-> fix]

SourceRows == {Row(1, "standard", src, ms, FALSE) : src \in {"jev", "rule", "error"}, ms \in {1, 9}}

\* With a window of at most twenty rows the 95th percentile is the slowest of them:
\* the panel turns amber on any one answer over the limit, and on nothing else.
ASSUME SlowIsTheSlowest ==
  \A rows \in SeqOf(SourceRows, 4) :
    Slow(rows) <=> \E i \in DOMAIN Routed(rows) :
                     Routed(rows)[i].source = "jev" /\ Routed(rows)[i].ms > SlowAfter

\* A router that is down is seen at its first turn, and turns that a rule has routed
\* neither show a failure nor hide one.
ASSUME DeadRouterShows ==
  \A rows \in SeqOf(SourceRows, 4) :
    LET asked == SelectSeq(rows, LAMBDA r : r.source # "rule")
    IN  /\ Failing(rows) <=> Failing(asked)
        /\ asked # <<>> /\ (\A i \in DOMAIN asked : asked[i].source = "error") => Failing(rows)
        /\ (\A i \in DOMAIN asked : asked[i].source = "jev") => ~Failing(rows)

TierRows == {Row(c, t, "jev", 1, fix) : c \in {1, 2}, t \in {"standard", "deep"}, fix \in BOOLEAN}

\* Each correction is charged once, to the nearest earlier turn of its own
\* conversation, whatever the other conversation says in between; a tier is charged
\* at most once for each of its turns.
ASSUME CorrectionsAreCharged ==
  \A rows \in SeqOf(TierRows, 4) :
    LET earlier(i) == {j \in i + 1 .. Len(rows) : rows[j].conversation = rows[i].conversation}
        charged(t) == {i \in DOMAIN rows : /\ rows[i].corrects /\ earlier(i) # {}
                                           /\ rows[Min(earlier(i))].tier = t}
    IN  \A t \in Tiers3 :
          /\ CorrectionsOf(rows, t) = Cardinality(charged(t))
          /\ CorrectionsOf(rows, t) <= TurnsOf(rows, t)

-----------------------------------------------------------------------------
(* Costs.                                                                  *)

MCUsages  == {[fresh |-> f, cacheRead |-> c, cacheWrite |-> 0, output |-> 1] : f \in {0, 1}, c \in {0, 3}}
MCRecords == [day : {NoDay}, usage : {<<u>> : u \in MCUsages}]
             \cup [day : 0 .. 4, usage : {<<>>} \cup {<<u>> : u \in MCUsages}]

\* What is divided up is all there: the shares of the kinds, of tokens and of money,
\* come to the whole, and the month, the one before and the earlier ones to what was
\* read.
ASSUME SharesAreWhole ==
  \A records \in SeqOf(MCRecords, 2) : \A t \in 2 .. 4 :
    LET split == Divided(records, t)
    IN  /\ TokensOf(split) > 0 =>
             TotalOf([k \in Kinds |-> TokenShare(split, k)[1]]) = TokenShare(split, "fresh")[2]
        /\ CostOf(split) > 0 =>
             TotalOf([k \in Kinds |-> CostShare(split, k)[1]]) = CostShare(split, "fresh")[2]
        /\ TokensOf(split) = 0 <=> Days(records) = {}
        /\ CacheReadPct(split) \in 0 .. 100
        /\ Merge(ThisMonth(records, t), Merge(LastMonth(records, t),
             Sum(ByDay(records), {d \in Days(records) : Month(d) + 1 < Month(t)})))
             = WholeWindow(records)

\* A record's money is in the chart on its day, while that day is within it.
ASSUME ChartIsTheDays ==
  \A records \in SeqOf(MCRecords, 2) : \A t \in 2 .. 4 :
    TotalOf(DailyCost(records, t)) =
      CostOf(Sum(ByDay(records), {d \in Days(records) : d <= t /\ d > t - ChartDays}))
=============================================================================
