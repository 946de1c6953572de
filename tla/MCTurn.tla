------------------------------- MODULE MCTurn -------------------------------
EXTENDS Turn
MCBatches   == {<<"text">>, <<"quote", "notice">>}
MCConfigs   == {[mode |-> "off", enabled |-> {}], [mode |-> "on", enabled |-> {"fast"}]}
MCResponses == {<<>>, <<"auto">>, <<"bad", "confirm">>}
=============================================================================
