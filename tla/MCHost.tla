------------------------------- MODULE MCHost -------------------------------
EXTENDS Host, Routing, TLC
CONSTANTS p, q, t, u, d1, d2, x, y, range
MCScenarios == {{}, {"watch"}, {"sink"}}
MCFine == [v \in Required \cup Lists \cup {"BACKOFFICE_TOKEN", "BACKOFFICE_DATABASE_URL"} |-> {"set"}]
MCKeyless == [TURN_ROUTING |-> {"shadow"}] @@ MCFine
MCShort   == [BACKOFFICE_TOKEN |-> {"malformed"}] @@ MCFine
\* Fine; fine as well; routed without the router's key and with a token too short.
MCEnvironments ==
  (0 :> MCFine) @@ (1 :> ([APPROVAL_TTL_HOURS |-> {"24"}] @@ MCFine)) @@ (2 :> (MCShort @@ MCKeyless))
ASSUME WhoComesUp ==
  /\ Bootable = [ezra |-> {0, 1}, backoffice |-> {0, 1}]
  /\ Loads("ezra", MCKeyless).issues = {"TYPESAFE_API_KEY"} /\ Loads("backoffice", MCKeyless).issues = {}
  /\ Loads("backoffice", MCShort).issues = {"BACKOFFICE_TOKEN"} /\ Loads("ezra", MCShort).issues = {}
\* The tools of the transcript and the system's own lines stay here, however they lie.
MCMessages == [role : {"user", "assistant", "tool"}, sender : {"set", "other"}, system : BOOLEAN, text : {"", "said"}]
ASSUME JevSeesPeople ==
  \A m, n \in MCMessages :
    LET shown == RouteMessages(Parsed(MCFine, ProductionSchema), <<m, n>>)
        kept  == SelectSeq(<<m, n>>, LAMBDA k : k.role # "tool" /\ (k.role = "user" => ~k.system)
                                              /\ (k.role = "assistant" => k.text # ""))
    IN  /\ Len(shown) = Len(kept)
        /\ \A i \in DOMAIN kept : /\ shown[i].text = kept[i].text
                                  /\ shown[i].from = "member" <=> kept[i].role = "user" /\ kept[i].sender # "set"
MCSymmetry == Permutations(Deploys)
=============================================================================
