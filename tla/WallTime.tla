------------------------------ MODULE WallTime ------------------------------
(***************************************************************************)
(* The household's wall clock (src/orchestration/tz.ts): from a wall time  *)
(* to the instant it names, and back.  Both are counted in minutes, a wall *)
(* time as if its digits were UTC.  One year of Eastern time: standard     *)
(* time, an hour ahead from the instant Spring to the instant Fall.        *)
(***************************************************************************)
EXTENDS Integers

CONSTANTS
  Spring, Fall,   \* the instants the clock moves
  Hour,           \* by how much
  West            \* how far standard time is behind UTC

ASSUME WallTimeConstants ==
  /\ Spring \in Int /\ Fall \in Int
  /\ Hour \in Nat \ {0} /\ West \in Nat
  /\ Hour <= West
  /\ Spring + West + Hour < Fall - West

\* What to add to an instant to get the digits on the wall.
OffsetAt(instant) == IF Spring <= instant /\ instant < Fall THEN Hour - West ELSE - West

\* Two passes: each corrects by the offset that holds at the last guess.
WallTimeToInstant(wall) == wall - OffsetAt(wall - OffsetAt(wall))

\* instantLabel: what a reminder or an event is listed under.
Label(instant) == instant + OffsetAt(instant)

\* Wall times the clock jumps over, and those it shows twice.
InGap(wall) == Spring - West <= wall /\ wall < Spring - West + Hour
Twice(wall) == Fall - West <= wall /\ wall < Fall - West + Hour

-----------------------------------------------------------------------------
\* The comment on wallTimeToInstant: exact for all real wall times; one in the
\* gap resolves to a time before it, an ambiguous one to its first occurrence.
Exact(wall) ==
  LET t == WallTimeToInstant(wall) IN
  /\ ~InGap(wall) => Label(t) = wall
  /\ InGap(wall)  => Label(t) = wall - Hour /\ t < Spring
  /\ Twice(wall)  => t < Fall
=============================================================================
