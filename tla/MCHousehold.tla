---------------------------- MODULE MCHousehold -----------------------------
EXTENDS Household, WallTime

Wifi     == Text(<<"wifi">>, TRUE)
Password == Text(<<"wifi", "password">>, FALSE)
Swapped  == Text(<<"password", "wifi">>, TRUE)
Carpet   == Text(<<"carpet">>, TRUE)
Car      == Text(<<"car">>, FALSE)
Symbols  == Text(<<>>, FALSE)

SetFact(key, value, isDistinct) ==
  [tool |-> "set_fact", key |-> key, value |-> value, distinct |-> isDistinct]
Ask(tool, key) == [tool |-> tool, key |-> key]

Sets  == {SetFact(k, <<>>, FALSE) : k \in {Wifi, Password, Swapped}}
Reads == {Ask("get_fact", Wifi), Ask("get_fact", Car), Ask("list_facts", Wifi)}
Lists == {Ask("add_list_item", 0), Ask("get_list", 0), Ask("mark_item_done", 1)}
Days  == Ask("list_calendar_events", 0)

Both(p, q) == {[l \in {"group", "dm"} |-> IF l = "group" THEN s ELSE t] : s \in p, t \in q}

MCWithin == {<<"car", "carpet">>}
MCPlans ==
  Both({<<c, d>> : c \in Sets \cup {SetFact(Symbols, <<>>, FALSE)}, d \in Sets \cup Reads},
       {<<c, d>> : c \in Sets \cup {SetFact(Carpet, <<"wifi">>, FALSE)},
                   d \in Reads \cup {SetFact(Wifi, <<>>, TRUE)}})
    \cup Both({<<c, d>> : c, d \in Lists}, {<<c, d>> : c, d \in Lists})
    \cup Both({<<Days, Days>>}, {<<Days, Days>>, <<Ask("recall_history", 0), Days>>})

\* The wall clock, over a year of so many minutes.
ASSUME WallTimesHold == \A wall \in -60 .. 120 : Exact(wall)
=============================================================================
